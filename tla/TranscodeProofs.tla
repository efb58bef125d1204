---------------------------- MODULE TranscodeProofs ----------------------------
(***************************************************************************)
(* What replay-transcode writes, for every movie and every command line:   *)
(* the stream is one of NutMuxer's and can be entered anywhere, the pts of *)
(* its packets count what was written before them, and its sound is the    *)
(* whole track in order, in a NUT stream chunk by chunk as in a WAV.  Of a *)
(* movie laid out as MovieLayout says, its pictures are those the movie's  *)
(* codec frames amount to, no loss among them goes unreported, and the     *)
(* stream can be searched by time.                                         *)
(***************************************************************************)
EXTENDS MovieLayout, FiniteSetTheorems, SequenceTheorems, WellFoundedInduction,
        TLAPS

-----------------------------------------------------------------------------
\* NutMuxer: a file that can be entered anywhere.

\* A number's length on disk is a number.
LEMMA VarLenInt ==
  ASSUME NEW v \in Int
  PROVE  VarLen(v) \in Nat
<1> DEFINE long == {k \in 1 .. 3 : v >= 128 ^ k}
<1>1. IsFiniteSet(1 .. 3)
  <2>1. \A a, b \in Int : IsFiniteSet(a .. b)
    BY FS_Interval
  <2>2. 1 \in Int /\ 3 \in Int
    OBVIOUS
  <2>3. QED
    BY <2>1, <2>2, Zenon
<1>2. IsFiniteSet(long)
  BY <1>1, FS_Subset
<1>3. Cardinality(long) \in Nat
  BY <1>2, FS_CardinalityType
<1>4. QED
  BY <1>3 DEF VarLen

\* so is a packet's,
LEMMA PacketLenInt ==
  ASSUME NEW payload \in Int
  PROVE  PacketLen(payload) \in Int
<1>1. VarLen(payload + Crc) \in Nat
  BY VarLenInt DEF Crc
<1>2. QED
  BY <1>1 DEF PacketLen, Crc, Startcode

-----------------------------------------------------------------------------

IsFile == \E S : file \in Seq(S)

MuxTypeOK ==
  /\ IsFile
  /\ file_pos \in Int /\ last_syncpoint_pos \in Int /\ stream_count \in Int
  /\ have_syncpoint \in BOOLEAN
  /\ \A i \in DOMAIN file : file[i].pos \in Int /\ file[i].len \in Int

\* What the muxer remembers of the file: where its last syncpoint starts.
Latest(j) == j \in Syncs /\ \A k \in Syncs : k <= j

Remembers ==
  /\ ~ have_syncpoint => Syncs = {}
  /\ have_syncpoint =>
       \E j \in DOMAIN file : Latest(j) /\ file[j].pos = last_syncpoint_pos

MuxInv == MuxTypeOK /\ Remembers /\ Resync

\* The back pointer, with the 15 bytes it gives away, reaches the syncpoint
\* it is for from up to 15 bytes before.
LEMMA BackReaches ==
  ASSUME NEW here \in Int, NEW there \in Int
  PROVE  LET target == here - (16 * ((here - there) \div 16) + 15)
         IN  target <= there /\ there - target <= 15
OBVIOUS

\* Packets are appended; what was written stays as it was.
LEMMA Appended ==
  ASSUME IsFile, NEW packets, NEW T, packets \in Seq(T),
         file' = file \o packets
  PROVE  /\ IsFile'
         /\ DOMAIN file = 1 .. Len(file)
         /\ Len(file) \in Nat
         /\ DOMAIN file' = 1 .. Len(file')
         /\ Len(file') = Len(file) + Len(packets)
         /\ \A i \in 1 .. Len(file) : file'[i] = file[i]
         /\ \A i \in 1 .. Len(packets) : file'[Len(file) + i] = packets[i]
<1>1. PICK S : file \in Seq(S)
  BY DEF IsFile
<1>2. file \in Seq(S \cup T) /\ packets \in Seq(S \cup T)
  BY <1>1
<1>3. /\ file' \in Seq(S \cup T)
      /\ Len(file') = Len(file) + Len(packets)
      /\ \A i \in 1 .. Len(file) + Len(packets) :
           file'[i] = IF i <= Len(file) THEN file[i] ELSE packets[i - Len(file)]
  BY <1>2, ConcatProperties
<1>4. Len(file) \in Nat /\ Len(packets) \in Nat
  BY <1>2
<1>5. DOMAIN file = 1 .. Len(file) /\ DOMAIN file' = 1 .. Len(file')
  BY <1>2, <1>3
<1>6. IsFile'
  BY <1>3 DEF IsFile
<1>7. \A i \in 1 .. Len(file) : file'[i] = file[i]
  BY <1>3, <1>4
<1>8. \A i \in 1 .. Len(packets) : file'[Len(file) + i] = packets[i]
  BY <1>3, <1>4
<1>9. QED
  BY <1>3, <1>4, <1>5, <1>6, <1>7, <1>8

\* and those of a syncpoint and of a frame.
LEMMA LengthsInt ==
  ASSUME MuxInv, NEW stream \in Nat, NEW pts \in Nat, NEW length \in Nat
  PROVE  /\ FrameLen(stream, pts, length) \in Int
         /\ SyncLen(stream, pts) \in Int
         /\ BackPointer \in Int
<1>1. file_pos \in Int /\ last_syncpoint_pos \in Int /\ stream_count \in Int
  BY DEF MuxInv, MuxTypeOK
<1>2. BackPointer \in Int
  BY <1>1 DEF BackPointer
<1>3. VarLen(stream) \in Nat /\ VarLen(pts + 128) \in Nat
          /\ VarLen(length) \in Nat
  BY VarLenInt
<1>4. FrameLen(stream, pts, length) \in Int
  BY <1>3 DEF FrameLen, Crc
<1>5. pts * stream_count + stream \in Int
  BY <1>1
<1>6. VarLen(pts * stream_count + stream) \in Nat /\ VarLen(BackPointer) \in Nat
  BY <1>2, <1>5, VarLenInt
<1>7. SyncLen(stream, pts) \in Int
  BY <1>6, PacketLenInt DEF SyncLen
<1>8. QED
  BY <1>2, <1>4, <1>7

\* A frame that needs no syncpoint of its own is near the latest.
LEMMA FrameKeeps ==
  ASSUME MuxInv, NEW stream \in Nat, NEW pts \in Nat, NEW length \in Nat,
         NEW content, WriteFrame(stream, pts, content, length), ~ SyncDue
  PROVE  MuxInv'
<1> DEFINE flen  == FrameLen(stream, pts, length)
           frame == FramePacket(file_pos, flen, stream, pts, content)
           n     == Len(file)
<1>1. /\ file' = file \o <<frame>>
      /\ file_pos' = file_pos + flen
      /\ last_syncpoint_pos' = last_syncpoint_pos
      /\ have_syncpoint' = TRUE
      /\ stream_count' = stream_count
  BY DEF WriteFrame
<1>2. /\ have_syncpoint
      /\ file_pos - last_syncpoint_pos < MAX_DISTANCE
      /\ file_pos \in Int /\ last_syncpoint_pos \in Int /\ stream_count \in Int
      /\ \A i \in DOMAIN file : file[i].pos \in Int /\ file[i].len \in Int
      /\ IsFile
  BY NutAssumption DEF SyncDue, MuxInv, MuxTypeOK
<1>3. flen \in Int
  BY LengthsInt
<1>4. <<frame>> \in Seq({frame}) /\ Len(<<frame>>) = 1 /\ <<frame>>[1] = frame
  OBVIOUS
<1> HIDE DEF frame
<1>5. /\ IsFile'
      /\ DOMAIN file = 1 .. n /\ n \in Nat
      /\ DOMAIN file' = 1 .. n + 1 /\ Len(file') = n + 1
      /\ \A i \in 1 .. n : file'[i] = file[i]
      /\ file'[n + 1] = frame
  <2> DEFINE packets == <<frame>>
  <2>1. /\ packets \in Seq({frame}) /\ file' = file \o packets
    BY <1>1, <1>4
  <2> HIDE DEF packets
  <2>2. /\ IsFile'
        /\ DOMAIN file = 1 .. n /\ n \in Nat
        /\ DOMAIN file' = 1 .. Len(file') /\ Len(file') = n + Len(packets)
        /\ \A i \in 1 .. n : file'[i] = file[i]
        /\ \A i \in 1 .. Len(packets) : file'[n + i] = packets[i]
    BY <1>2, <2>1, Appended
  <2>3. Len(packets) = 1 /\ packets[1] = frame
    BY <1>4 DEF packets
  <2>4. QED
    BY <2>2, <2>3
<1>6. /\ frame.kind = "frame" /\ frame.pos = file_pos /\ frame.len = flen
  BY DEF frame, FramePacket
<1> HIDE DEF flen, n
<1>7. Syncs' = Syncs /\ Frames' = Frames \cup {n + 1}
  BY <1>5, <1>6 DEF Syncs, Frames
<1>8. MuxTypeOK'
  BY <1>1, <1>2, <1>3, <1>5, <1>6 DEF MuxTypeOK
<1>9. PICK j \in DOMAIN file : Latest(j) /\ file[j].pos = last_syncpoint_pos
  BY <1>2 DEF MuxInv, Remembers
<1>10. Remembers'
  BY <1>1, <1>5, <1>7, <1>9 DEF Remembers, Latest
<1>11. Contiguous'
  <2>1. \A i \in 1 .. n :
          file[i].pos + file[i].len = IF i = n THEN file_pos
                                      ELSE file[i + 1].pos
    BY <1>5 DEF MuxInv, Resync, Contiguous, n
  <2>2. \A i \in 1 .. n :
          file'[i].pos + file'[i].len = file'[i + 1].pos
    BY <1>5, <1>6, <2>1
  <2>3. file'[n + 1].pos + file'[n + 1].len = file_pos'
    BY <1>1, <1>5, <1>6
  <2>4. \A i \in 1 .. n + 1 : i \in 1 .. n \/ i = n + 1
    BY <1>5
  <2>5. QED
    BY <1>5, <2>2, <2>3, <2>4 DEF Contiguous
<1>12. SyncReach'
  <2>1. file'[n + 1].pos - file'[j].pos < MAX_DISTANCE
    BY <1>2, <1>5, <1>6, <1>9
  <2>2. j \in Syncs' /\ j < n + 1
    BY <1>5, <1>7, <1>9 DEF Latest
  <2>3. \A i \in Frames : \E k \in Syncs :
          k < i /\ (i = k + 1 \/ file'[i].pos - file'[k].pos < MAX_DISTANCE)
    BY <1>5 DEF MuxInv, Resync, SyncReach, Syncs, Frames
  <2>4. QED
    BY <1>7, <2>1, <2>2, <2>3 DEF SyncReach
<1>13. SyncChain'
  BY <1>5, <1>7 DEF MuxInv, Resync, SyncChain, Syncs
<1>14. QED
  BY <1>8, <1>10, <1>11, <1>12, <1>13 DEF MuxInv, Resync

\* A syncpoint points back to the one the muxer remembers, and its frame is
\* right behind it.
LEMMA SyncKeeps ==
  ASSUME MuxInv, NEW stream \in Nat, NEW pts \in Nat, NEW length \in Nat,
         NEW content, WriteFrame(stream, pts, content, length), SyncDue
  PROVE  MuxInv'
<1> DEFINE flen  == FrameLen(stream, pts, length)
           slen  == SyncLen(stream, pts)
           frame == FramePacket(file_pos + slen, flen, stream, pts, content)
           sync  == SyncPacket(file_pos, slen, stream, pts, BackPointer)
           n     == Len(file)
<1>1. /\ file' = file \o <<sync, frame>>
      /\ file_pos' = file_pos + slen + flen
      /\ last_syncpoint_pos' = file_pos
      /\ have_syncpoint' = TRUE
      /\ stream_count' = stream_count
  BY DEF WriteFrame
<1>2. /\ file_pos \in Int /\ last_syncpoint_pos \in Int /\ stream_count \in Int
      /\ \A i \in DOMAIN file : file[i].pos \in Int /\ file[i].len \in Int
      /\ IsFile
  BY DEF MuxInv, MuxTypeOK
<1>3. flen \in Int /\ slen \in Int
  BY LengthsInt
<1> HIDE DEF frame, sync
<1>4. /\ <<sync, frame>> \in Seq({sync, frame}) /\ Len(<<sync, frame>>) = 2
      /\ <<sync, frame>>[1] = sync /\ <<sync, frame>>[2] = frame
  OBVIOUS
<1>5. /\ IsFile'
      /\ DOMAIN file = 1 .. n /\ n \in Nat
      /\ DOMAIN file' = 1 .. n + 2 /\ Len(file') = n + 2
      /\ \A i \in 1 .. n : file'[i] = file[i]
      /\ file'[n + 1] = sync /\ file'[n + 2] = frame
  <2> DEFINE packets == <<sync, frame>>
  <2>1. /\ packets \in Seq({sync, frame}) /\ file' = file \o packets
    BY <1>1, <1>4
  <2> HIDE DEF packets
  <2>2. /\ IsFile'
        /\ DOMAIN file = 1 .. n /\ n \in Nat
        /\ DOMAIN file' = 1 .. Len(file') /\ Len(file') = n + Len(packets)
        /\ \A i \in 1 .. n : file'[i] = file[i]
        /\ \A i \in 1 .. Len(packets) : file'[n + i] = packets[i]
    BY <1>2, <2>1, Appended
  <2>3. Len(packets) = 2 /\ packets[1] = sync /\ packets[2] = frame
    BY <1>4 DEF packets
  <2>4. QED
    BY <2>2, <2>3
<1>6. /\ frame.kind = "frame" /\ frame.pos = file_pos + slen /\ frame.len = flen
      /\ sync.kind = "syncpoint" /\ sync.pos = file_pos /\ sync.len = slen
      /\ sync.back = BackPointer
  BY DEF frame, sync, FramePacket, SyncPacket
<1> HIDE DEF flen, slen, n
<1>7. Syncs' = Syncs \cup {n + 1} /\ Frames' = Frames \cup {n + 2}
  BY <1>5, <1>6 DEF Syncs, Frames
<1>8. MuxTypeOK'
  <2>1. \A i \in 1 .. n + 2 : i \in 1 .. n \/ i = n + 1 \/ i = n + 2
    BY <1>5
  <2>2. \A i \in DOMAIN file' : file'[i].pos \in Int /\ file'[i].len \in Int
    BY <1>2, <1>3, <1>5, <1>6, <2>1
  <2>3. file_pos' \in Int
    BY <1>1, <1>2, <1>3
  <2>4. QED
    BY <1>1, <1>2, <1>5, <2>2, <2>3 DEF MuxTypeOK
<1>9. Syncs \subseteq 1 .. n /\ Frames \subseteq 1 .. n
  BY <1>5 DEF Syncs, Frames
<1>10. Remembers'
  <2>1. n + 1 \in DOMAIN file' /\ file'[n + 1].pos = file_pos
    BY <1>5, <1>6
  <2>2. n + 1 \in Syncs' /\ \A k \in Syncs' : k <= n + 1
    BY <1>5, <1>7, <1>9
  <2>3. \E j \in DOMAIN file' :
          /\ j \in Syncs' /\ \A k \in Syncs' : k <= j
          /\ file'[j].pos = last_syncpoint_pos'
    BY <1>1, <2>1, <2>2
  <2>4. QED
    BY <1>1, <2>3 DEF Remembers, Latest
<1>11. Contiguous'
  <2>1. \A i \in 1 .. n :
          file[i].pos + file[i].len = IF i = n THEN file_pos
                                      ELSE file[i + 1].pos
    BY <1>5 DEF MuxInv, Resync, Contiguous, n
  <2>2. \A i \in 1 .. n :
          file'[i].pos + file'[i].len = file'[i + 1].pos
    BY <1>5, <1>6, <2>1
  <2>3. /\ file'[n + 1].pos + file'[n + 1].len = file'[n + 2].pos
        /\ file'[n + 2].pos + file'[n + 2].len = file_pos'
    BY <1>1, <1>2, <1>3, <1>5, <1>6
  <2>4. \A i \in 1 .. n + 2 : i \in 1 .. n \/ i = n + 1 \/ i = n + 2
    BY <1>5
  <2>5. (n + 1) + 1 = n + 2 /\ n + 1 # n + 2 /\ \A i \in 1 .. n : i # n + 2
    BY <1>5
  <2>6. QED
    BY <1>5, <2>2, <2>3, <2>4, <2>5 DEF Contiguous
<1>12. SyncReach'
  <2>1. \A i \in Frames : \E k \in Syncs :
          k < i /\ (i = k + 1 \/ file'[i].pos - file'[k].pos < MAX_DISTANCE)
    BY <1>5 DEF MuxInv, Resync, SyncReach, Syncs, Frames
  <2>2. n + 1 < n + 2 /\ n + 2 = (n + 1) + 1
    BY <1>5
  <2>3. QED
    BY <1>7, <2>1, <2>2 DEF SyncReach
<1>13. SyncChain'
  <2> SUFFICES ASSUME NEW i \in Syncs', NEW j \in Syncs', j < i,
                      \A k \in Syncs' : k <= j \/ k >= i
               PROVE  LET target == file'[i].pos - (16 * file'[i].back + 15)
                      IN  target <= file'[j].pos /\ file'[j].pos - target <= 15
    BY DEF SyncChain
  <2>1. CASE i = n + 1
    <3>1. j \in Syncs /\ j \in 1 .. n
      BY <1>7, <1>9, <2>1
    <3>2. have_syncpoint
      BY <3>1 DEF MuxInv, Remembers
    <3>3. PICK l \in DOMAIN file : Latest(l) /\ file[l].pos = last_syncpoint_pos
      BY <3>2 DEF MuxInv, Remembers
    <3>4. l = j
      BY <1>5, <1>7, <1>9, <2>1, <3>1, <3>3 DEF Latest
    <3>5. file'[j].pos = last_syncpoint_pos
      BY <1>5, <3>1, <3>3, <3>4
    <3>6. file'[i].pos = file_pos
          /\ file'[i].back = (file_pos - last_syncpoint_pos) \div 16
      BY <1>5, <1>6, <2>1, <3>2 DEF BackPointer
    <3>7. QED
      BY <1>2, <3>5, <3>6, BackReaches
  <2>2. CASE i # n + 1
    <3>1. i \in Syncs /\ j \in Syncs
      BY <1>5, <1>7, <1>9, <2>2
    <3>2. file'[i] = file[i] /\ file'[j] = file[j]
      BY <1>5, <1>9, <3>1
    <3>3. \A k \in Syncs : k <= j \/ k >= i
      BY <1>7
    <3>4. QED
      BY <3>1, <3>2, <3>3 DEF MuxInv, Resync, SyncChain
  <2>3. QED
    BY <2>1, <2>2
<1>14. QED
  BY <1>8, <1>10, <1>11, <1>12, <1>13 DEF MuxInv, Resync

\* The id string and the headers, one behind the other.
LEMMA OpenKeeps ==
  ASSUME MuxInv, file = <<>>, NEW streams \in Nat, OpenMux(streams)
  PROVE  MuxInv'
<1> DEFINE M == PacketLen(MainLen)
           P == PacketLen(StreamLen)
<1>1. M \in Int /\ P \in Int
  BY NutAssumption, PacketLenInt
<1>2. /\ streams > 0
      /\ file' = [i \in 1 .. streams + 2 |-> HeaderAt(i)]
      /\ file_pos' = IdLen + M + streams * P
      /\ stream_count' = streams
      /\ last_syncpoint_pos' = last_syncpoint_pos
      /\ have_syncpoint' = have_syncpoint
  BY DEF OpenMux
<1> HIDE DEF M, P
<1>3. \A i \in 1 .. streams + 2 :
        /\ file'[i].kind \in {"id", "main", "stream"}
        /\ file'[i].pos = IF i = 1 THEN 0 ELSE IF i = 2 THEN IdLen
                          ELSE IdLen + M + (i - 3) * P
        /\ file'[i].len = IF i = 1 THEN IdLen ELSE IF i = 2 THEN M ELSE P
  BY <1>2 DEF HeaderAt, Packet, M, P
<1>4. DOMAIN file' = 1 .. streams + 2
  BY <1>2
<1>5. Syncs' = {} /\ Frames' = {}
  BY <1>3, <1>4 DEF Syncs, Frames
<1>6. Syncs = {}
  BY DEF Syncs
<1>7. IsFile'
  <2> DEFINE S == {HeaderAt(i) : i \in 1 .. streams + 2}
  <2>1. file' \in Seq(S)
    BY <1>2
  <2>2. QED
    BY <2>1 DEF IsFile
<1>8. \A i \in 1 .. streams + 2 : file'[i].pos \in Int /\ file'[i].len \in Int
  BY <1>1, <1>3 DEF IdLen
<1>9. MuxTypeOK'
  BY <1>1, <1>2, <1>4, <1>7, <1>8 DEF MuxInv, MuxTypeOK, IdLen
<1>10. ~ have_syncpoint
  BY <1>6 DEF MuxInv, Remembers, MuxTypeOK
<1>11. Remembers'
  BY <1>2, <1>5, <1>10 DEF Remembers
<1>12. Contiguous'
  <2>1. Len(file') = streams + 2
    BY <1>2
  <2>2. \A i \in 1 .. streams + 2 :
          file'[i].pos + file'[i].len
            = IF i = streams + 2 THEN IdLen + M + streams * P
              ELSE file'[i + 1].pos
    BY <1>1, <1>2, <1>3 DEF IdLen
  <2>3. QED
    BY <1>2, <1>4, <2>1, <2>2 DEF Contiguous
<1>13. SyncReach' /\ SyncChain'
  BY <1>5 DEF SyncReach, SyncChain
<1>14. QED
  BY <1>9, <1>11, <1>12, <1>13 DEF MuxInv, Resync

\* Whoever writes what, a reader that lands anywhere in the file finds its
\* way: replay_nut_write_frame keeps last_syncpoint_pos true to the file.
THEOREM SeekableAnywhere == MuxSpec => []Resync
<1>1. MuxClosed => MuxInv
  <2> SUFFICES ASSUME MuxClosed PROVE MuxInv
    OBVIOUS
  <2>1. IsFile
    BY DEF MuxClosed, IsFile
  <2>2. DOMAIN file = {}
    BY DEF MuxClosed
  <2>3. Syncs = {} /\ Frames = {}
    BY <2>2 DEF Syncs, Frames
  <2>4. MuxTypeOK /\ Remembers
    <3>1. /\ file_pos = 0 /\ last_syncpoint_pos = 0 /\ stream_count = 0
          /\ have_syncpoint = FALSE
      BY DEF MuxClosed
    <3>2. MuxTypeOK
      <4>1. file_pos \in Int /\ last_syncpoint_pos \in Int
                /\ stream_count \in Int
        BY <3>1
      <4>2. have_syncpoint \in BOOLEAN
        BY <3>1, Zenon
      <4>3. \A i \in DOMAIN file : file[i].pos \in Int /\ file[i].len \in Int
        BY <2>2
      <4>4. QED
        BY <2>1, <4>1, <4>2, <4>3 DEF MuxTypeOK
    <3>3. Remembers
      BY <2>3, <3>1 DEF Remembers
    <3>4. QED
      BY <3>2, <3>3
  <2>5. Resync
    BY <2>2, <2>3 DEF Resync, Contiguous, SyncReach, SyncChain
  <2>6. QED
    BY <2>4, <2>5 DEF MuxInv
<1>2. MuxInv /\ [MuxNext]_muxVars => MuxInv'
  <2> SUFFICES ASSUME MuxInv, [MuxNext]_muxVars PROVE MuxInv'
    OBVIOUS
  <2>1. ASSUME file = <<>>, NEW streams \in Nat, OpenMux(streams) PROVE MuxInv'
    BY <2>1, OpenKeeps
  <2>2. ASSUME NEW stream \in Nat, NEW pts \in Nat, NEW length \in Nat,
               NEW content, WriteFrame(stream, pts, content, length)
        PROVE  MuxInv'
    BY <2>2, FrameKeeps, SyncKeeps
  <2>3. CASE UNCHANGED muxVars
    BY <2>3 DEF muxVars, MuxInv, MuxTypeOK, IsFile, Remembers, Latest, Syncs,
       Frames, Resync, Contiguous, SyncReach, SyncChain
  <2>4. QED
    BY <2>1, <2>2, <2>3 DEF MuxNext
<1>3. MuxInv => Resync
  BY DEF MuxInv
<1>4. QED
  BY <1>1, <1>2, <1>3, PTL DEF MuxSpec

-----------------------------------------------------------------------------
\* Sequences of sequences: FlattenSeq and the frames chosen from a file. Each
\* is defined by recursion over the length; it is shown to be the only function
\* that satisfies its recursion, which gives what appending does to it.

\* A set of numbers with a member has a least one: what induction over the
\* length of a sequence is done with.
LEMMA LeastNat ==
  ASSUME NEW T \in SUBSET Nat, T # {}
  PROVE  \E m \in T : \A k \in T : m <= k
<1> DEFINE R == OpToRel(<, Nat)
<1>1. IsWellFoundedOn(R, Nat)
  BY NatLessThanWellFounded
<1>2. \A x, y \in Nat : x < y => <<x, y>> \in R
  BY Zenon DEF OpToRel
<1> HIDE DEF R
<1>3. PICK m \in T : \A y \in T : <<y, m>> \notin R
  BY <1>1, WFMin
<1>4. \A k \in T : k \in Nat /\ m \in Nat /\ ~ (k < m)
  BY <1>2, <1>3
<1>5. QED
  BY <1>3, <1>4

\* A value carried through n steps, each a function of T.
Folds(g, T, step, start, n) ==
  /\ g \in [0 .. n -> T]
  /\ g[0] = start
  /\ \A i \in 1 .. n : g[i] = step[i][g[i - 1]]

\* Such a function exists, for every number of steps.
LEMMA FoldExists ==
  ASSUME NEW T, NEW n \in Nat, NEW step \in [1 .. n -> [T -> T]],
          NEW start \in T
  PROVE  \E g : Folds(g, T, step, start, n)
<1> DEFINE Has(k) == \E g : Folds(g, T, step, start, k)
           Lacks == {k \in 0 .. n : ~ Has(k)}
<1>1. SUFFICES ASSUME ~ Has(n) PROVE FALSE
  OBVIOUS
<1>2. n \in Lacks /\ Lacks \in SUBSET Nat
  BY <1>1
<1>3. PICK m \in Lacks : \A k \in Lacks : m <= k
  BY <1>2, LeastNat
<1>4. m \in 0 .. n /\ ~ Has(m) /\ m \in Nat
  BY <1>3
<1>5. m # 0
  <2>1. Folds([i \in 0 .. 0 |-> start], T, step, start, 0)
    BY DEF Folds
  <2>2. Has(0)
    BY <2>1
  <2>3. QED
    BY <1>4, <2>2
<1>6. m - 1 \in 0 .. n /\ ~ (m <= m - 1)
  BY <1>4, <1>5
<1>7. Has(m - 1)
  BY <1>3, <1>6
<1>8. PICK g : Folds(g, T, step, start, m - 1)
  BY <1>7
<1> DEFINE h == [i \in 0 .. m |-> IF i = m THEN step[m][g[m - 1]] ELSE g[i]]
<1>9. /\ m \in 1 .. n /\ m - 1 \in 0 .. m - 1
      /\ \A i \in 0 .. m : i # m => i \in 0 .. m - 1
  BY <1>4, <1>5
<1>10. step[m][g[m - 1]] \in T
  BY <1>8, <1>9 DEF Folds
<1>11. h \in [0 .. m -> T]
  BY <1>8, <1>9, <1>10 DEF Folds
<1>12. h[0] = start
  BY <1>4, <1>5, <1>8 DEF Folds
<1>13. \A i \in 1 .. m : h[i] = step[i][h[i - 1]]
  BY <1>4, <1>5, <1>8, <1>9 DEF Folds
<1>14. Has(m)
  BY <1>11, <1>12, <1>13 DEF Folds
<1>15. QED
  BY <1>4, <1>14

-----------------------------------------------------------------------------
Joins(g, d, S) ==
  /\ g \in [0 .. Len(d) -> Seq(S)]
  /\ g[0] = <<>>
  /\ \A i \in 1 .. Len(d) : g[i] = g[i - 1] \o d[i]

\* Every sequence of sequences can be joined piece by piece.
LEMMA JoinExists ==
  ASSUME NEW S, NEW d \in Seq(Seq(S))
  PROVE  \E g : Joins(g, d, S)
<1> DEFINE n == Len(d)
           step == [i \in 1 .. n |-> [x \in Seq(S) |-> x \o d[i]]]
<1>1. n \in Nat /\ \A i \in 1 .. n : d[i] \in Seq(S)
  BY ElementOfSeq
<1>2. step \in [1 .. n -> [Seq(S) -> Seq(S)]]
  <2>1. \A i \in 1 .. n : \A x \in Seq(S) : x \o d[i] \in Seq(S)
    BY <1>1, ConcatProperties
  <2>2. QED
    BY <2>1
<1>3. <<>> \in Seq(S)
  OBVIOUS
<1>4. \A i \in 1 .. n : \A x \in Seq(S) : step[i][x] = x \o d[i]
  OBVIOUS
<1> HIDE DEF step
<1>5. PICK g : Folds(g, Seq(S), step, <<>>, n)
  BY <1>1, <1>2, <1>3, FoldExists
<1>6. \A i \in 1 .. n : g[i] = g[i - 1] \o d[i]
  <2>1. \A i \in 1 .. n : i - 1 \in 0 .. n
    BY <1>1
  <2>2. QED
    BY <1>4, <1>5, <2>1 DEF Folds
<1>7. Joins(g, d, S)
  BY <1>5, <1>6 DEF Folds, Joins
<1>8. QED
  BY <1>7

JoinsFirst(h, d, m) ==
  h[0] = <<>> /\ \A i \in 1 .. m : h[i] = h[i - 1] \o d[i]

\* and in one way only.
LEMMA JoinUnique ==
  ASSUME NEW S, NEW d, NEW g, Joins(g, d, S), Len(d) \in Nat,
         NEW m \in 0 .. Len(d), NEW h, JoinsFirst(h, d, m)
  PROVE  h[m] = g[m]
<1> USE DEF JoinsFirst
<1> DEFINE Differs == {i \in 0 .. m : h[i] # g[i]}
<1>1. SUFFICES ASSUME Differs # {} PROVE FALSE
  OBVIOUS
<1>2. Differs \in SUBSET Nat
  OBVIOUS
<1>3. PICK k \in Differs : \A l \in Differs : k <= l
  BY <1>1, <1>2, LeastNat
<1>4. k # 0
  BY <1>3 DEF Joins
<1>5. k \in 1 .. m /\ k \in 1 .. Len(d) /\ k - 1 \in 0 .. m /\ ~ (k <= k - 1)
  BY <1>3, <1>4
<1>6. h[k - 1] = g[k - 1]
  BY <1>3, <1>5
<1>7. h[k] = g[k]
  BY <1>5, <1>6 DEF Joins
<1>8. QED
  BY <1>3, <1>7

\* FlattenSeq is what the joining ends with.
LEMMA FlattenJoins ==
  ASSUME NEW S, NEW d \in Seq(Seq(S)), NEW g, Joins(g, d, S)
  PROVE  FlattenSeq(d) = g[Len(d)]
<1> DEFINE n == Len(d)
           Body(f, i) == IF i = 1 THEN d[i] ELSE f[i - 1] \o d[i]
           Unfolds(f) == f = [i \in 1 .. n |-> Body(f, i)]
           flatten == CHOOSE f : Unfolds(f)
           some == [i \in 1 .. n |-> g[i]]
<1>1. n \in Nat /\ \A i \in 1 .. n : d[i] \in Seq(S)
  BY ElementOfSeq
<1>2. CASE n = 0
  <2>1. d = <<>>
    BY <1>2
  <2>2. FlattenSeq(d) = d
    BY <1>2 DEF FlattenSeq
  <2>3. QED
    BY <1>2, <2>1, <2>2 DEF Joins
<1>3. CASE n # 0
  <2>1. FlattenSeq(d) = flatten[n]
    BY <1>3 DEF FlattenSeq
  <2>2. \A i \in 1 .. n : some[i] = Body(some, i)
    <3>1. SUFFICES ASSUME NEW i \in 1 .. n PROVE some[i] = Body(some, i)
      OBVIOUS
    <3>2. some[i] = g[i - 1] \o d[i]
      BY <3>1 DEF Joins
    <3>3. CASE i = 1
      <4>1. g[i - 1] = <<>>
        BY <3>3 DEF Joins
      <4>2. <<>> \o d[i] = d[i]
        BY <1>1, ConcatEmptySeq
      <4>3. QED
        BY <3>2, <3>3, <4>1, <4>2
    <3>4. CASE i # 1
      <4>1. i - 1 \in 1 .. n
        BY <1>1, <3>4
      <4>2. QED
        BY <3>2, <3>4, <4>1
    <3>5. QED
      BY <3>3, <3>4
  <2>3. Unfolds(some)
    BY <2>2
  <2> HIDE DEF some
  <2>4. Unfolds(flatten)
    BY <2>3
  <2> DEFINE h == [i \in 0 .. n |-> IF i = 0 THEN <<>> ELSE flatten[i]]
  <2>5. \A i \in 1 .. n : flatten[i] = Body(flatten, i)
    BY <2>4
  <2> HIDE DEF flatten
  <2>6. h[0] = <<>> /\ h[n] = flatten[n]
    BY <1>1, <1>3
  <2>7. \A i \in 1 .. n : h[i] = h[i - 1] \o d[i]
    <3>1. SUFFICES ASSUME NEW i \in 1 .. n PROVE h[i] = h[i - 1] \o d[i]
      OBVIOUS
    <3>2. i \in 0 .. n /\ i - 1 \in 0 .. n /\ i # 0
      BY <1>1
    <3>3. CASE i = 1
      <4>1. h[i] = d[i] /\ h[i - 1] = <<>>
        BY <2>5, <3>2, <3>3
      <4>2. <<>> \o d[i] = d[i]
        BY <1>1, ConcatEmptySeq
      <4>3. QED
        BY <4>1, <4>2
    <3>4. CASE i # 1
      <4>1. i - 1 # 0
        BY <3>4
      <4>2. QED
        BY <2>5, <3>2, <3>4, <4>1
    <3>5. QED
      BY <3>3, <3>4
  <2>8. n \in 0 .. Len(d)
    BY <1>1
  <2> HIDE DEF h
  <2>9. h[n] = g[n]
    <3>1. JoinsFirst(h, d, n)
      BY <2>6, <2>7 DEF JoinsFirst
    <3>2. QED
      BY <1>1, <2>8, <3>1, JoinUnique
  <2>10. QED
    BY <2>1, <2>6, <2>9
<1>4. QED
  BY <1>2, <1>3

\* FlattenSeq goes on where it was when a piece is appended.
LEMMA FlattenAppend ==
  ASSUME NEW S, NEW d \in Seq(Seq(S)), NEW x \in Seq(S)
  PROVE  /\ FlattenSeq(d) \in Seq(S)
         /\ FlattenSeq(Append(d, x)) = FlattenSeq(d) \o x
<1> DEFINE e == Append(d, x)
           n == Len(d)
<1>1. /\ n \in Nat /\ e \in Seq(Seq(S)) /\ Len(e) = n + 1 /\ e[n + 1] = x
      /\ \A i \in 1 .. n : e[i] = d[i]
  BY AppendProperties
<1>2. PICK g : Joins(g, d, S)
  BY JoinExists
<1> HIDE DEF e
<1>3. PICK h : Joins(h, e, S)
  BY <1>1, JoinExists
<1>4. FlattenSeq(d) = g[n] /\ FlattenSeq(e) = h[n + 1]
  BY <1>1, <1>2, <1>3, FlattenJoins
<1>5. h[n + 1] = h[n] \o x
  <2>1. n + 1 \in 1 .. Len(e) /\ (n + 1) - 1 = n
    BY <1>1
  <2>2. QED
    BY <1>1, <1>3, <2>1 DEF Joins
<1>6. h[n] = g[n]
  <2>1. \A i \in 1 .. n : i \in 1 .. Len(e) /\ e[i] = d[i]
    BY <1>1
  <2>2. \A i \in 1 .. Len(e) : h[i] = h[i - 1] \o e[i]
    BY <1>3 DEF Joins
  <2>3. \A i \in 1 .. n : h[i] = h[i - 1] \o d[i]
    BY <2>1, <2>2
  <2>4. h[0] = <<>> /\ n \in 0 .. Len(d)
    BY <1>1, <1>3 DEF Joins
  <2>5. JoinsFirst(h, d, n)
    BY <2>3, <2>4 DEF JoinsFirst
  <2>6. QED
    BY <1>1, <1>2, <2>4, <2>5, JoinUnique
<1>7. g[n] \in Seq(S)
  <2>1. n \in 0 .. Len(d)
    BY <1>1
  <2>2. QED
    BY <1>2, <2>1 DEF Joins
<1>8. QED
  BY <1>4, <1>5, <1>6, <1>7 DEF e

\* No pieces, no sequence.
LEMMA FlattenNothing == FlattenSeq(<<>>) = <<>>
  BY DEF FlattenSeq

Mine(p, have, pictures) ==
  p.kind = "frame" /\ ((p.stream = VideoStream /\ have) <=> pictures)

\* FramesWritten of any sequence of packets.
Chosen(f, have, pictures) ==
  LET upTo[n \in 0 .. Len(f)] ==
        IF n = 0 THEN <<>>
        ELSE IF Mine(f[n], have, pictures) THEN Append(upTo[n - 1], f[n])
             ELSE upTo[n - 1]
  IN  upTo[Len(f)]

\* The frames the properties speak of are those chosen from the file.
LEMMA WrittenIsChosen ==
  ASSUME NEW pictures \in BOOLEAN
  PROVE  FramesWritten(pictures) = Chosen(file, HaveVideo, pictures)
BY DEF FramesWritten, Chosen, Mine, Video

Collects(g, f, S, have, pictures) ==
  /\ g \in [0 .. Len(f) -> Seq(S)]
  /\ g[0] = <<>>
  /\ \A i \in 1 .. Len(f) :
       g[i] = IF Mine(f[i], have, pictures) THEN Append(g[i - 1], f[i])
               ELSE g[i - 1]

\* The choosing, packet by packet, exists for every file
LEMMA CollectExists ==
  ASSUME NEW S, NEW f \in Seq(S), NEW have, NEW pictures
  PROVE  \E g : Collects(g, f, S, have, pictures)
<1> DEFINE n == Len(f)
           M(p) == Mine(p, have, pictures)
           step == [i \in 1 .. n |->
                     [x \in Seq(S) |-> IF M(f[i]) THEN Append(x, f[i]) ELSE x]]
<1>1. n \in Nat /\ \A i \in 1 .. n : f[i] \in S
  BY ElementOfSeq
<1> HIDE DEF M
<1>2. step \in [1 .. n -> [Seq(S) -> Seq(S)]]
  <2>1. \A i \in 1 .. n : \A x \in Seq(S) : Append(x, f[i]) \in Seq(S)
    BY <1>1, AppendProperties
  <2>2. QED
    BY <2>1
<1>3. <<>> \in Seq(S)
  OBVIOUS
<1>4. \A i \in 1 .. n : \A x \in Seq(S) :
        step[i][x] = IF M(f[i]) THEN Append(x, f[i]) ELSE x
  OBVIOUS
<1> HIDE DEF step
<1>5. PICK g : Folds(g, Seq(S), step, <<>>, n)
  BY <1>1, <1>2, <1>3, FoldExists
<1>6. \A i \in 1 .. n : g[i] = IF M(f[i]) THEN Append(g[i - 1], f[i])
          ELSE g[i - 1]
  <2>1. \A i \in 1 .. n : i - 1 \in 0 .. n
    BY <1>1
  <2>2. QED
    BY <1>4, <1>5, <2>1 DEF Folds
<1>7. Collects(g, f, S, have, pictures)
  BY <1>5, <1>6 DEF Folds, Collects, M
<1>8. QED
  BY <1>7

CollectsFirst(h, f, m, have, pictures) ==
  /\ h[0] = <<>>
  /\ \A i \in 1 .. m :
       h[i] = IF Mine(f[i], have, pictures) THEN Append(h[i - 1], f[i])
               ELSE h[i - 1]

\* and is the only one.
LEMMA CollectUnique ==
  ASSUME NEW S, NEW f, NEW g, NEW have, NEW pictures,
         Collects(g, f, S, have, pictures), Len(f) \in Nat,
         NEW m \in 0 .. Len(f), NEW h, CollectsFirst(h, f, m, have, pictures)
  PROVE  h[m] = g[m]
<1> USE DEF CollectsFirst
<1> DEFINE Differs == {i \in 0 .. m : h[i] # g[i]}
<1>1. SUFFICES ASSUME Differs # {} PROVE FALSE
  OBVIOUS
<1>2. Differs \in SUBSET Nat
  OBVIOUS
<1>3. PICK k \in Differs : \A l \in Differs : k <= l
  BY <1>1, <1>2, LeastNat
<1>4. k # 0
  BY <1>3 DEF Collects
<1>5. k \in 1 .. m /\ k \in 1 .. Len(f) /\ k - 1 \in 0 .. m /\ ~ (k <= k - 1)
  BY <1>3, <1>4
<1>6. h[k - 1] = g[k - 1]
  BY <1>3, <1>5
<1>7. h[k] = g[k]
  BY <1>5, <1>6 DEF Collects
<1>8. QED
  BY <1>3, <1>7

\* Chosen is what the choosing ends with.
LEMMA ChosenCollects ==
  ASSUME NEW S, NEW f \in Seq(S), NEW g, NEW have, NEW pictures,
         Collects(g, f, S, have, pictures)
  PROVE  Chosen(f, have, pictures) = g[Len(f)]
<1> DEFINE n == Len(f)
           M(p) == Mine(p, have, pictures)
           Body(u, i) == IF i = 0 THEN <<>>
                         ELSE IF M(f[i]) THEN Append(u[i - 1], f[i])
                                 ELSE u[i - 1]
           Unfolds(u) == u = [i \in 0 .. n |-> Body(u, i)]
           upTo == CHOOSE u : Unfolds(u)
<1>1. n \in Nat /\ n \in 0 .. Len(f)
  OBVIOUS
<1>2. Chosen(f, have, pictures) = upTo[n]
  BY DEF Chosen
<1> HIDE DEF M
<1>3. \A i \in 0 .. n : g[i] = Body(g, i)
  <2>1. g[0] = <<>> /\ \A i \in 1 .. n :
          g[i] = IF M(f[i]) THEN Append(g[i - 1], f[i]) ELSE g[i - 1]
    BY DEF Collects, M
  <2>2. \A i \in 0 .. n : i = 0 \/ (i \in 1 .. n /\ i # 0)
    BY <1>1
  <2>3. QED
    BY <2>1, <2>2
<1>4. g = [i \in 0 .. n |-> g[i]]
  BY DEF Collects
<1>5. Unfolds(g)
  BY <1>3, <1>4
<1>6. Unfolds(upTo)
  BY <1>5
<1> HIDE DEF upTo
<1>7. CollectsFirst(upTo, f, n, have, pictures)
  <2>1. \A i \in 0 .. n : upTo[i] = Body(upTo, i)
    BY <1>6
  <2>2. upTo[0] = <<>>
    BY <1>1, <2>1
  <2>3. \A i \in 1 .. n : upTo[i] = IF M(f[i]) THEN Append(upTo[i - 1], f[i])
                                    ELSE upTo[i - 1]
    BY <1>1, <2>1
  <2>4. QED
    BY <2>2, <2>3 DEF CollectsFirst, M
<1>8. upTo[n] = g[n]
  BY <1>1, <1>7, CollectUnique
<1>9. QED
  BY <1>2, <1>8

\* Packets put behind the file leave what was chosen and add their own.
LEMMA ChosenAppend ==
  ASSUME NEW S, NEW f \in Seq(S), NEW x \in S, NEW have, NEW pictures
  PROVE  /\ Chosen(f, have, pictures) \in Seq(S)
         /\ Chosen(Append(f, x), have, pictures) =
              IF Mine(x, have, pictures)
                      THEN Append(Chosen(f, have, pictures), x)
              ELSE Chosen(f, have, pictures)
<1> DEFINE e == Append(f, x)
           n == Len(f)
<1>1. /\ n \in Nat /\ e \in Seq(S) /\ Len(e) = n + 1 /\ e[n + 1] = x
      /\ \A i \in 1 .. n : e[i] = f[i]
  BY AppendProperties
<1>2. PICK g : Collects(g, f, S, have, pictures)
  BY CollectExists
<1> HIDE DEF e
<1>3. PICK h : Collects(h, e, S, have, pictures)
  BY <1>1, CollectExists
<1>4. Chosen(f, have, pictures) = g[n] /\ Chosen(e, have, pictures) = h[n + 1]
  BY <1>1, <1>2, <1>3, ChosenCollects
<1>5. h[n + 1] = IF Mine(x, have, pictures) THEN Append(h[n], x) ELSE h[n]
  <2>1. n + 1 \in 1 .. Len(e) /\ (n + 1) - 1 = n
    BY <1>1
  <2>2. QED
    BY <1>1, <1>3, <2>1 DEF Collects
<1>6. h[n] = g[n]
  <2>1. \A i \in 1 .. n : i \in 1 .. Len(e) /\ e[i] = f[i]
    BY <1>1
  <2>2. CollectsFirst(h, f, n, have, pictures)
    BY <1>3, <2>1 DEF Collects, CollectsFirst
  <2>3. n \in 0 .. Len(f)
    BY <1>1
  <2>4. QED
    BY <1>1, <1>2, <2>2, <2>3, CollectUnique
<1>7. g[n] \in Seq(S)
  <2>1. n \in 0 .. Len(f)
    BY <1>1
  <2>2. QED
    BY <1>2, <2>1 DEF Collects
<1>8. QED
  BY <1>4, <1>5, <1>6, <1>7 DEF e



-----------------------------------------------------------------------------
\* The clocks of the two streams, as a function of the frames chosen.

IsSequence(A) == \E S : A \in Seq(S)

\* A sample of DecodeChunkAudio: its chunk and its place there.
Sample == Nat \X Nat

Uncut(A, C) == \A i \in DOMAIN A : Len(A[i].data) % C = 0

\* A clock and what it should have counted, after n frames.
Exact(ticks, samples, C) == ticks * C = samples

Lags(ticks, samples, n, C) ==
  ticks * C <= samples /\ samples - ticks * C < n * C

Ahead(A, n) == Len(FlattenSeq(SubSeq(Data(A), 1, n - 1)))

SoundClock(A, C, now) ==
  /\ IsSequence(A)
  /\ \A n \in DOMAIN A : A[n].data \in Seq(Sample)
  /\ \A n \in DOMAIN A : /\ Lags(A[n].pts, Ahead(A, n), n, C)
                         /\ Uncut(A, C) => Exact(A[n].pts, Ahead(A, n), C)
  /\ now \in Nat
  /\ Lags(now, Len(FlattenSeq(Data(A))), Len(A) + 1, C)
  /\ Uncut(A, C) => Exact(now, Len(FlattenSeq(Data(A))), C)

\* Integer arithmetic: a clock that is late by less than n sample frames is
\* late by less than n + 1 when a packet's sample frames are counted, rounded
\* down; it is exact when nothing was rounded.
LEMMA LagsMore ==
  ASSUME NEW ticks \in Nat, NEW samples \in Nat, NEW n \in Nat,
         NEW C \in Nat \ {0}, NEW more \in Nat, Lags(ticks, samples, n, C)
  PROVE  /\ Lags(ticks + more \div C, samples + more, n + 1, C)
         /\ Exact(ticks, samples, C) /\ more % C = 0
              => Exact(ticks + more \div C, samples + more, C)
<1> DEFINE q == more \div C
           r == more % C
           u == ticks * C
           v == q * C
           w == n * C
<1>1. q \in Int /\ r \in 0 .. C - 1 /\ more = C * q + r /\ q >= 0
  OBVIOUS
<1> HIDE DEF q, r
<1>2. u \in Nat /\ v \in Nat /\ w \in Nat
  BY <1>1
<1>3. more = v + r
  BY <1>1
<1>4. (ticks + q) * C = u + v /\ (n + 1) * C = w + C
  BY <1>1
<1>5. u <= samples /\ samples - u < w
  BY DEF Lags
<1> HIDE DEF u, v, w
<1>6. u + v <= samples + more /\ (samples + more) - (u + v) < w + C
  BY <1>1, <1>2, <1>3, <1>5
<1>7. Lags(ticks + q, samples + more, n + 1, C)
  <2>1. \A a, b, c, e : a = c /\ b = e /\ c <= samples + more
            /\ (samples + more) - c < e
          => a <= samples + more /\ (samples + more) - a < b
    OBVIOUS
  <2>2. (ticks + q) * C <= samples + more
        /\ (samples + more) - (ticks + q) * C < (n + 1) * C
    BY <1>4, <1>6, <2>1, Zenon
  <2>3. QED
    BY <2>2, Zenon DEF Lags
<1>8. u = samples /\ r = 0 => u + v = samples + more
  BY <1>2, <1>3
<1>9. Exact(ticks, samples, C) /\ r = 0 => Exact(ticks + q, samples + more, C)
  BY <1>4, <1>8 DEF Exact, u
<1>10. QED
  BY <1>7, <1>9 DEF q, r

\* What lies before the end of a longer sequence lies in the shorter one.
LEMMA SubSeqAppend ==
  ASSUME NEW S, NEW d \in Seq(S), NEW x \in S, NEW n \in 0 .. Len(d)
  PROVE  /\ SubSeq(Append(d, x), 1, n) = SubSeq(d, 1, n)
         /\ SubSeq(d, 1, Len(d)) = d
<1> DEFINE e == Append(d, x)
<1>1. e \in Seq(S) /\ Len(d) \in Nat /\ Len(e) = Len(d) + 1
          /\ \A i \in 1 .. Len(d) : e[i] = d[i]
  BY AppendProperties
<1> HIDE DEF e
<1>2. \A i \in 1 .. n : i \in 1 .. Len(d) /\ d[i] \in S /\ e[i] \in S
          /\ e[i] = d[i]
  BY <1>1, ElementOfSeq
<1>3. 1 \in Int /\ n \in Int
  BY <1>1
<1>4. /\ SubSeq(d, 1, n) \in Seq(S) /\ SubSeq(e, 1, n) \in Seq(S)
      /\ Len(SubSeq(d, 1, n)) = IF 1 <= n THEN n - 1 + 1 ELSE 0
      /\ Len(SubSeq(e, 1, n)) = IF 1 <= n THEN n - 1 + 1 ELSE 0
      /\ \A i \in 1 .. n - 1 + 1 : SubSeq(d, 1, n)[i] = d[1 + i - 1]
      /\ \A i \in 1 .. n - 1 + 1 : SubSeq(e, 1, n)[i] = e[1 + i - 1]
  BY <1>2, <1>3, SubSeqProperties
<1>5. SubSeq(e, 1, n) = SubSeq(d, 1, n)
  <2>1. Len(SubSeq(e, 1, n)) = Len(SubSeq(d, 1, n)) /\ Len(SubSeq(e, 1, n)) = n
    BY <1>1, <1>4
  <2>2. \A i \in 1 .. n : SubSeq(e, 1, n)[i] = SubSeq(d, 1, n)[i]
    BY <1>1, <1>2, <1>4
  <2>3. QED
    BY <1>4, <2>1, <2>2, SeqEqual
<1>6. QED
  BY <1>5, SubSeqFull DEF e

\* The data of one frame more is the data so far and that of the frame.
LEMMA DataAppends ==
  ASSUME NEW A, IsSequence(A), \A n \in DOMAIN A : A[n].data \in Seq(Sample),
         NEW x, x.data \in Seq(Sample)
  PROVE  /\ Data(A) \in Seq(Seq(Sample))
         /\ Len(Data(A)) = Len(A)
         /\ Data(Append(A, x)) = Append(Data(A), x.data)
         /\ FlattenSeq(Data(A)) \in Seq(Sample)
         /\ FlattenSeq(Data(Append(A, x))) = FlattenSeq(Data(A)) \o x.data
<1> DEFINE B == Append(A, x)
           k == Len(A)
           d == Data(A)
<1>1. PICK S : A \in Seq(S)
  BY DEF IsSequence
<1>2. A \in Seq(S \cup {x}) /\ x \in S \cup {x}
  BY <1>1
<1>3. /\ B \in Seq(S \cup {x}) /\ Len(B) = k + 1 /\ B[k + 1] = x
      /\ \A i \in 1 .. k : B[i] = A[i]
  BY <1>2, AppendProperties
<1>4. k \in Nat /\ DOMAIN A = 1 .. k /\ DOMAIN B = 1 .. k + 1
  BY <1>2, <1>3
<1> HIDE DEF B, k
<1>5. d = [i \in 1 .. k |-> A[i].data]
  BY <1>4 DEF Data
<1>6. d \in Seq(Seq(Sample)) /\ Len(d) = k
  BY <1>4, <1>5
<1>7. Data(B) = Append(d, x.data)
  <2>1. Data(B) = [i \in 1 .. k + 1 |-> B[i].data]
    BY <1>4 DEF Data
  <2>2. /\ Append(d, x.data) \in Seq(Seq(Sample))
        /\ Len(Append(d, x.data)) = k + 1
        /\ Append(d, x.data)[k + 1] = x.data
        /\ \A i \in 1 .. k : Append(d, x.data)[i] = d[i]
    BY <1>6, AppendProperties
  <2>3. \A i \in 1 .. k + 1 : B[i].data = Append(d, x.data)[i]
    <3>1. SUFFICES ASSUME NEW i \in 1 .. k + 1
                   PROVE  B[i].data = Append(d, x.data)[i]
      OBVIOUS
    <3>2. CASE i = k + 1
      BY <1>3, <2>2, <3>2
    <3>3. CASE i # k + 1
      <4>1. i \in 1 .. k
        BY <1>4, <3>3
      <4>2. QED
        BY <1>3, <1>5, <2>2, <4>1
    <3>4. QED
      BY <3>2, <3>3
  <2>4. Append(d, x.data) = [i \in 1 .. k + 1 |-> Append(d, x.data)[i]]
    BY <2>2
  <2>5. QED
    BY <2>1, <2>3, <2>4
<1> HIDE DEF d
<1>8. /\ FlattenSeq(d) \in Seq(Sample)
      /\ FlattenSeq(Append(d, x.data)) = FlattenSeq(d) \o x.data
  BY <1>6, FlattenAppend
<1>9. QED
  BY <1>6, <1>7, <1>8 DEF B, d, k

\* The clock of the sound survives a packet: its pts is what was counted, and
\* sink_chunk_audio counts the sample frames it wrote.
LEMMA ClockAppend ==
  ASSUME NEW A, NEW C \in Nat \ {0}, NEW now, SoundClock(A, C, now),
         NEW x, x.pts = now, x.data \in Seq(Sample)
  PROVE  SoundClock(Append(A, x), C, now + Len(x.data) \div C)
<1> DEFINE B == Append(A, x)
           k == Len(A)
           more == Len(x.data)
           uncut == Uncut(A, C)
           still == Uncut(B, C)
           d == Data(A)
           total == Len(FlattenSeq(d))
<1>1. PICK S : A \in Seq(S)
  BY DEF SoundClock, IsSequence
<1>2. A \in Seq(S \cup {x}) /\ x \in S \cup {x}
  BY <1>1
<1>3. /\ B \in Seq(S \cup {x}) /\ Len(B) = k + 1 /\ B[k + 1] = x
      /\ \A i \in 1 .. k : B[i] = A[i]
  BY <1>2, AppendProperties
<1>4. k \in Nat /\ DOMAIN A = 1 .. k /\ DOMAIN B = 1 .. k + 1
  BY <1>2, <1>3
<1>5. more \in Nat /\ now \in Nat
  BY DEF SoundClock
<1> HIDE DEF B, k
<1>6. /\ d \in Seq(Seq(Sample)) /\ Len(d) = k /\ Data(B) = Append(d, x.data)
      /\ FlattenSeq(d) \in Seq(Sample)
      /\ FlattenSeq(Data(B)) = FlattenSeq(d) \o x.data
  BY DataAppends DEF SoundClock, B, k
<1> HIDE DEF d, more, uncut, still, total
<1>7. total \in Nat /\ Len(FlattenSeq(Data(B))) = total + more
  BY <1>6, ConcatProperties DEF total, more
<1>8. still => uncut
  <2>1. SUFFICES ASSUME still, NEW i \in DOMAIN A PROVE Len(A[i].data) % C = 0
    BY DEF uncut, Uncut
  <2>2. i \in DOMAIN B /\ B[i] = A[i]
    BY <1>3, <1>4
  <2>3. Len(B[i].data) % C = 0
    BY <2>1, <2>2 DEF still, Uncut
  <2>4. QED
    BY <2>2, <2>3
<1>9. still => more % C = 0
  <2>1. k + 1 \in DOMAIN B
    BY <1>4
  <2>2. QED
    BY <1>3, <2>1 DEF still, Uncut, more
<1>10. Lags(now, total, k + 1, C) /\ (uncut => Exact(now, total, C))
  BY DEF SoundClock, k, total, d, uncut
<1>11. /\ Lags(now + more \div C, total + more, (k + 1) + 1, C)
       /\ still => Exact(now + more \div C, total + more, C)
  <2> DEFINE m == k + 1
  <2>1. m \in Nat /\ Lags(now, total, m, C)
    BY <1>4, <1>10
  <2> HIDE DEF m
  <2>2. /\ Lags(now + more \div C, total + more, m + 1, C)
        /\ Exact(now, total, C) /\ more % C = 0
             => Exact(now + more \div C, total + more, C)
    BY <1>5, <1>7, <2>1, LagsMore
  <2>3. QED
    BY <1>8, <1>9, <1>10, <2>2 DEF m
<1>12. \A n \in 1 .. k + 1 :
         Ahead(B, n) = IF n = k + 1 THEN total ELSE Ahead(A, n)
  <2>1. SUFFICES ASSUME NEW n \in 1 .. k + 1
                 PROVE  Ahead(B, n) = IF n = k + 1 THEN total ELSE Ahead(A, n)
    OBVIOUS
  <2>2. n - 1 \in 0 .. Len(d)
    BY <1>4, <1>6
  <2>3. SubSeq(Data(B), 1, n - 1) = SubSeq(d, 1, n - 1)
            /\ SubSeq(d, 1, Len(d)) = d
    BY <1>6, <2>2, SubSeqAppend
  <2>4. n = k + 1 => n - 1 = Len(d)
    BY <1>4, <1>6
  <2>5. QED
    BY <2>3, <2>4 DEF Ahead, total, d
<1>13. \A n \in DOMAIN B :
         /\ Lags(B[n].pts, Ahead(B, n), n, C)
         /\ still => Exact(B[n].pts, Ahead(B, n), C)
  <2>1. SUFFICES ASSUME NEW n \in 1 .. k + 1
                 PROVE  /\ Lags(B[n].pts, Ahead(B, n), n, C)
                        /\ still => Exact(B[n].pts, Ahead(B, n), C)
    BY <1>4
  <2>2. CASE n = k + 1
    <3>1. B[n].pts = now /\ Ahead(B, n) = total
      BY <1>3, <1>12, <2>2
    <3>2. QED
      BY <1>8, <1>10, <2>2, <3>1
  <2>3. CASE n # k + 1
    <3>1. n \in 1 .. k /\ n \in DOMAIN A
      BY <1>4, <2>3
    <3>2. B[n].pts = A[n].pts /\ Ahead(B, n) = Ahead(A, n)
      BY <1>3, <1>12, <2>3, <3>1
    <3>3. Lags(A[n].pts, Ahead(A, n), n, C)
              /\ (uncut => Exact(A[n].pts, Ahead(A, n), C))
      BY <3>1 DEF SoundClock, uncut
    <3>4. QED
      BY <1>8, <3>2, <3>3
  <2>4. QED
    BY <2>2, <2>3
<1>14. \A n \in DOMAIN B : B[n].data \in Seq(Sample)
  <2>1. \A n \in 1 .. k + 1 : n \in 1 .. k \/ n = k + 1
    BY <1>4
  <2>2. QED
    BY <1>3, <1>4, <2>1 DEF SoundClock
<1>15. now + more \div C \in Nat
  BY <1>5
<1>16. IsSequence(B)
  BY <1>3 DEF IsSequence
<1>17. /\ Lags(now + more \div C, Len(FlattenSeq(Data(B))), Len(B) + 1, C)
       /\ still => Exact(now + more \div C, Len(FlattenSeq(Data(B))), C)
  BY <1>3, <1>7, <1>11
<1>18. SoundClock(B, C, now + more \div C)
  <2> DEFINE then == now + more \div C
  <2>1. then \in Nat /\ Lags(then, Len(FlattenSeq(Data(B))), Len(B) + 1, C)
        /\ (still => Exact(then, Len(FlattenSeq(Data(B))), C))
    BY <1>15, <1>17
  <2> HIDE DEF then
  <2>2. SoundClock(B, C, then)
    BY <1>13, <1>14, <1>16, <2>1 DEF SoundClock, still
  <2>3. QED
    BY <2>2 DEF then
<1>19. QED
  BY <1>18 DEF B, more

-----------------------------------------------------------------------------
\* What a step may write, and where the program is.

\* What the assumption says of the movie at hand.
LEMMA MovieParts ==
  ASSUME movie \in Movies
  PROVE  /\ PictureLen \in Nat
         /\ movie.videos \in Seq(Seq(Nat)) /\ Chunks \in Nat \ {0}
         /\ movie.video_codec = 500 => Chunks = 1
         /\ movie.sounds \in Seq(Nat) /\ Len(movie.sounds) = Chunks
         /\ movie.sound.channels \in Nat
         /\ movie.film.data \in Seq(Nat) /\ movie.film.bytes \in Nat
BY MovieAssumption DEF Chunks

\* The skip over padding stays in the chunk.
LEMMA SkipZerosFinds ==
  ASSUME NEW d \in Seq(Nat), NEW p \in 0 .. Len(d)
  PROVE  SkipZeros(d, p) \in p .. Len(d)
<1> DEFINE n == Len(d)
           Here(q) == (q - p) % 4 = 0 /\ (q + 4 <= n => Word(d, q) # 0)
           T == {q \in p .. n : Here(q)}
           last == p + 4 * ((n - p) \div 4)
<1>1. n \in Nat
  OBVIOUS
<1>2. last \in p .. n /\ (last - p) % 4 = 0 /\ ~ (last + 4 <= n)
  BY <1>1
<1>3. last \in T
  BY <1>2
<1>4. T \in SUBSET Nat
  BY <1>1
<1> HIDE DEF T
<1>5. \E q \in T : \A r \in T : q <= r
  BY <1>3, <1>4, LeastNat
<1>6. Min(T) \in T
  BY <1>5 DEF Min
<1>7. SkipZeros(d, p) = Min(T)
  BY DEF SkipZeros, T
<1>8. QED
  BY <1>6, <1>7 DEF T

\* The bytes cut out of a chunk are a sequence, whatever lies there.
LEMMA BytesLen ==
  ASSUME NEW d, NEW from \in Int, NEW length \in Nat
  PROVE  Len(Bytes(d, from, length)) \in Nat
<1>1. \A i \in from + 1 .. from + length :
          d[i] \in {d[j] : j \in from + 1 .. from + length}
  OBVIOUS
<1>2. SubSeq(d, from + 1, from + length)
        \in Seq({d[j] : j \in from + 1 .. from + length})
  BY <1>1, SubSeqProperties
<1>3. QED
  BY <1>2 DEF Bytes

\* A frame the wrapper iterator finds has a length and ends in the chunk.
LEMMA FoundFrame ==
  ASSUME NEW d \in Seq(Nat), NEW p \in 0 .. Len(d), NEW kind,
         IterNext(d, kind, p).found
  PROVE  /\ Len(IterNext(d, kind, p).frame) \in Nat
         /\ IterNext(d, kind, p).pos \in 0 .. Len(d)
<1> DEFINE n == Len(d)
           next == IterNext(d, kind, p)
<1>1. n \in Nat /\ p \in Nat /\ p <= n
  OBVIOUS
<1>2. CASE kind = "none"
  <2>1. CASE p >= n
    <3>1. next = NoFrame
      BY <1>2, <2>1 DEF IterNext
    <3>2. QED
      BY <3>1 DEF NoFrame
  <2>2. CASE ~ (p >= n)
    <3>1. next = [found |-> TRUE, frame |-> Bytes(d, p, n - p), pos |-> n]
      BY <1>2, <2>2 DEF IterNext
    <3>2. n - p \in Nat
      BY <1>1
    <3>3. QED
      BY <1>1, <3>1, <3>2, BytesLen
  <2>3. QED
    BY <2>1, <2>2
<1>3. CASE kind # "none"
  <2> DEFINE q == SkipZeros(d, p)
             length == Word(d, q) - Overhead(kind)
             end == q + WrapHeader + length
  <2>1. q \in 0 .. n
    BY <1>1, SkipZerosFinds
  <2>2. next = Wrapped(d, kind, q)
    BY <1>3 DEF IterNext
  <2> HIDE DEF q
  <2>3. next = IF q + WrapHeader <= n /\ length > 0 /\ end <= n
               THEN [found |-> TRUE, frame |-> Bytes(d, q + WrapHeader, length),
                     pos |-> end]
               ELSE NoFrame
    BY <2>2 DEF Wrapped
  <2>4. q + WrapHeader <= n /\ length > 0 /\ end <= n
    BY <2>3 DEF NoFrame
  <2>5. Word(d, q) \in Nat
    <3>1. \A i \in 1 .. 4 : q + i \in 1 .. n
      BY <1>1, <2>1, <2>4 DEF WrapHeader
    <3>2. \A i \in 1 .. 4 : d[q + i] \in Nat
      BY <3>1, ElementOfSeq
    <3> DEFINE b1 == d[q + 1]
               b2 == d[q + 2]
               b3 == d[q + 3]
               b4 == d[q + 4]
    <3>3. b1 \in Nat /\ b2 \in Nat /\ b3 \in Nat /\ b4 \in Nat
      BY <3>2
    <3>4. Word(d, q) = b1 + 256 * b2 + 65536 * b3 + 16777216 * b4
      BY DEF Word
    <3> HIDE DEF b1, b2, b3, b4
    <3>5. QED
      BY <3>3, <3>4
  <2>6. length \in Nat /\ end \in 0 .. n /\ q + WrapHeader \in Int
    <3>1. Overhead(kind) \in Int /\ WrapHeader \in Nat
      BY DEF Overhead, WrapHeader
    <3>2. Word(d, q) - Overhead(kind) \in Int
      BY <2>5, <3>1
    <3>3. length \in Int
      BY <3>2 DEF length
    <3> HIDE DEF length
    <3>4. QED
      BY <1>1, <2>1, <2>4, <3>1, <3>3
  <2> HIDE DEF length, end
  <2>7. Len(Bytes(d, q + WrapHeader, length)) \in Nat
    BY <2>6, BytesLen
  <2>8. QED
    BY <2>3, <2>4, <2>6, <2>7
<1>4. QED
  BY <1>2, <1>3

Placed ==
  /\ movie \in Movies
  /\ at \in {"main", "open"} =>
       file = <<>> /\ sink = [video_pts |-> 0, audio_pts |-> 0]
  /\ at = "main" => audio = "none"
  /\ at \in {"main", "open", "video"} => chunk = 1
  /\ at \in {"sound", "chunk", "unwrap", "frames"} => chunk \in 1 .. Chunks
  /\ sink \in [video_pts : Nat, audio_pts : Nat]
  /\ at = "unwrap" => Route = "module"
  /\ at = "frames" /\ Route = "pass"
          => data \in Seq(Nat) /\ pos \in 0 .. Len(data)

\* What a step may do to the stream.
Silent == UNCHANGED <<muxVars, sink>>

Opened ==
  /\ at = "open" /\ UNCHANGED sink
  /\ \E streams \in Nat : OpenMux(streams)

PictureOut ==
  /\ at = "frames" /\ HaveVideo
  /\ \E shown : \E length \in Nat :
       WriteFrame(VideoStream, sink.video_pts, shown, length)
  /\ sink' = [sink EXCEPT !.video_pts = @ + 1]

SoundOut ==
  /\ at = "sound" /\ options.nut /\ DoAudio /\ ChunkSound # <<>>
  /\ WriteFrame(AudioStream, sink.audio_pts, ChunkSound, 2 * Len(ChunkSound))
  /\ sink' = [sink EXCEPT !.audio_pts = @ + SampleFrames(ChunkSound)]

StreamStep == Silent \/ Opened \/ PictureOut \/ SoundOut

Steady == UNCHANGED inputVars /\ (at # "main" => UNCHANGED audio)

\* sink_video_frame writes a frame of the picture stream or nothing.
LEMMA ShowsPicture ==
  ASSUME NEW shown, NEW length \in Nat, SinkVideoFrame(shown, length),
         at = "frames", HaveVideo
  PROVE  Silent \/ PictureOut
BY DEF SinkVideoFrame, Silent, PictureOut

\* Every route but that of sound alone has pictures.
LEMMA RouteHasVideo ==
  ASSUME Route # "sound"
  PROVE  HaveVideo
BY DEF Route

\* A route's picture is all its step writes.
LEMMA ShowFrameStreams ==
  ASSUME Placed, ShowFrame
  PROVE  (Silent \/ PictureOut) /\ Steady
<1>1. PictureLen \in Nat
  BY MovieAssumption
<1>2. CASE PassFrame
  <2>1. data \in Seq(Nat) /\ pos \in 0 .. Len(data) /\ HaveVideo
    BY <1>2, RouteHasVideo DEF PassFrame, Placed
  <2>2. Len(Frame.frame) \in Nat
    BY <1>2, <2>1, FoundFrame DEF PassFrame, Frame
  <2>3. at = "frames" /\ SinkVideoFrame(Frame.frame, Len(Frame.frame))
    BY <1>2 DEF PassFrame
  <2>4. Silent \/ PictureOut
    BY <2>1, <2>2, <2>3, ShowsPicture
  <2>5. Steady
    BY <1>2 DEF PassFrame, OtherThanWalk, Steady, inputVars
  <2>6. QED
    BY <2>4, <2>5
<1>3. ASSUME NEW shown, NEW next, Show(shown, next), at = "frames", HaveVideo
      PROVE  (Silent \/ PictureOut) /\ Steady
  BY <1>1, <1>3, ShowsPicture DEF Show, OtherThanWalk, Steady, inputVars
<1>4. CASE Esc122Frame
  BY <1>3, <1>4, RouteHasVideo DEF Esc122Frame
<1>5. CASE Esc130Frame
  <2>1. at = "frames" /\ HaveVideo /\ SinkVideoFrame(picture', PictureLen)
    BY <1>5, RouteHasVideo DEF Esc130Frame
  <2>2. Silent \/ PictureOut
    BY <1>1, <2>1, ShowsPicture
  <2>3. Steady
    BY <1>5 DEF Esc130Frame, Steady, inputVars
  <2>4. QED
    BY <2>2, <2>3
<1>6. CASE Esc100Frame
  BY <1>3, <1>6, RouteHasVideo DEF Esc100Frame
<1>7. CASE Esc124Frame
  BY <1>3, <1>7, RouteHasVideo DEF Esc124Frame
<1>8. CASE TcaFrame
  BY <1>3, <1>8, RouteHasVideo DEF TcaFrame
<1>9. CASE Type23Frame
  BY <1>3, <1>9, RouteHasVideo DEF Type23Frame
<1>10. CASE ModuleFrame
  BY <1>1, <1>10, ShowsPicture, RouteHasVideo DEF ModuleFrame, Steady, inputVars
<1>11. QED
  BY <1>2, <1>4, <1>5, <1>6, <1>7, <1>8, <1>9, <1>10 DEF ShowFrame

Quiet == Silent /\ Steady

\* Every step of the program does one of these to the stream.
LEMMA StepStreams ==
  ASSUME Placed, Step
  PROVE  StreamStep /\ Steady
<1> USE DEF Quiet, Silent, Steady, inputVars, outVars, StreamStep
<1>1. ASSUME NEW code, Exit(code) PROVE Quiet
  BY <1>1 DEF Exit
<1>2. CASE Decide
  BY <1>2 DEF Decide
<1>3. CASE Refuse \/ Nothing \/ Close
  BY <1>1, <1>3 DEF Refuse, Nothing, Close, DieIf
<1>4. CASE OpenNut
  <2> DEFINE streams == {t \in {"video", "audio"} :
                           IF t = "video" THEN HaveVideo ELSE DoAudio}
  <2>1. IsFiniteSet({"video", "audio"})
    <3>1. IsFiniteSet({})
      BY FS_EmptySet
    <3>2. IsFiniteSet({} \cup {"video"})
      BY <3>1, FS_AddElement
    <3>3. IsFiniteSet(({} \cup {"video"}) \cup {"audio"})
      BY <3>2, FS_AddElement
    <3>4. ({} \cup {"video"}) \cup {"audio"} = {"video", "audio"}
      OBVIOUS
    <3>5. QED
      BY <3>3, <3>4
  <2>2. IsFiniteSet(streams)
    BY <2>1, FS_Subset
  <2>3. Cardinality(streams) \in Nat
    BY <2>2, FS_CardinalityType
  <2>4. OpenMux(Cardinality(streams)) /\ at = "open" /\ UNCHANGED sink
    BY <1>4 DEF OpenNut
  <2>5. Opened
    BY <2>3, <2>4 DEF Opened
  <2>6. QED
    BY <1>4, <2>5 DEF OpenNut
<1>5. CASE WriteWav
  BY <1>5 DEF WriteWav
<1>6. CASE StartVideo
  BY <1>6 DEF StartVideo
<1>7. CASE EmitSound
  <2>1. Steady /\ at = "sound" /\ SinkChunkAudio
    BY <1>7 DEF EmitSound
  <2>2. Silent \/ SoundOut
    BY <2>1 DEF SinkChunkAudio, SoundOut
  <2>3. QED
    BY <2>1, <2>2
<1>8. CASE SkipChunk
  BY <1>8 DEF SkipChunk
<1>9. CASE EnterChunk
  BY <1>9 DEF EnterChunk
<1>10. CASE EnterModuleChunk
  BY <1>10 DEF EnterModuleChunk
<1>11. CASE EnterWrappedChunk
  BY <1>11 DEF EnterWrappedChunk
<1>12. CASE UnwrapFrame
  BY <1>12 DEF UnwrapFrame
<1>13. CASE LoadUnwrapped
  BY <1>13 DEF LoadUnwrapped
<1>14. CASE ShowFrame
  BY <1>14, ShowFrameStreams
<1>15. CASE ModuleShort
  BY <1>15 DEF ModuleShort
<1>16. CASE EndChunk
  BY <1>16 DEF EndChunk
<1>17. CASE EndFilm
  BY <1>17 DEF EndFilm
<1>18. CASE Die
  <2>1. Exit("exit 1")
    BY <1>18 DEF Die, DieIf
  <2>2. QED
    BY <1>1, <2>1
<1>19. QED
  BY <1>2, <1>3, <1>4, <1>5, <1>6, <1>7, <1>8, <1>9, <1>10, <1>11, <1>12,
     <1>13, <1>14, <1>15, <1>16, <1>17, <1>18 DEF Step

\* and so does a failure.
LEMMA NextStreams ==
  ASSUME Placed, [Next]_vars
  PROVE  StreamStep /\ Steady
<1>1. CASE Step
  BY <1>1, StepStreams
<1>2. CASE Fail
  BY <1>2 DEF Fail, Exit, Silent, Steady, inputVars, outVars, StreamStep
<1>3. CASE UNCHANGED vars
  BY <1>3 DEF vars, Silent, Steady, inputVars, outVars, StreamStep
<1>4. QED
  BY <1>1, <1>2, <1>3 DEF Next

-----------------------------------------------------------------------------
\* decode_chunk_audio: each chunk appends its part, whatever came before.

\* A chunk's samples are numbered from one.
LEMMA SamplesSeq ==
  ASSUME NEW c \in Nat, NEW n \in Int
  PROVE  /\ Samples(c, n) \in Seq(Sample)
         /\ Len(Samples(c, n)) = IF n >= 0 THEN n ELSE 0
         /\ \A i \in 1 .. n : Samples(c, n)[i] = <<c, i>>
<1>1. \A i \in 1 .. n : <<c, i>> \in Sample
  BY DEF Sample
<1>2. CASE n >= 0
  <2>1. n \in Nat
    BY <1>2
  <2>2. QED
    BY <1>1, <2>1 DEF Samples
<1>3. CASE ~ (n >= 0)
  <2>1. 1 .. n = {}
    BY <1>3
  <2>2. Samples(c, n) = <<>>
    BY <2>1 DEF Samples
  <2>3. QED
    BY <1>3, <2>1, <2>2
<1>4. QED
  BY <1>2, <1>3

\* A swap of channels is a sequence as long as before, sample by sample.
LEMMA SwapPairsSeq ==
  ASSUME NEW pcm \in Seq(Sample), NEW from \in 0 .. Len(pcm)
  PROVE  /\ SwapPairs(pcm, from) \in Seq(Sample)
         /\ Len(SwapPairs(pcm, from)) = Len(pcm)
         /\ \A i \in 1 .. Len(pcm) :
              SwapPairs(pcm, from)[i] =
                IF i > from /\ (i - from) % 2 = 1 /\ i < Len(pcm)
                THEN pcm[i + 1]
                ELSE IF i > from /\ (i - from) % 2 # 1 THEN pcm[i - 1]
                ELSE pcm[i]
<1> DEFINE n == Len(pcm)
           Swapped(i) ==
             IF i > from /\ (i - from) % 2 = 1 /\ i < n THEN pcm[i + 1]
             ELSE IF i > from /\ (i - from) % 2 # 1 THEN pcm[i - 1]
             ELSE pcm[i]
<1>1. n \in Nat /\ DOMAIN pcm = 1 .. n /\ \A i \in 1 .. n : pcm[i] \in Sample
  BY ElementOfSeq
<1>2. SwapPairs(pcm, from) = [i \in 1 .. n |-> Swapped(i)]
  BY <1>1 DEF SwapPairs
<1>3. \A i \in 1 .. n : Swapped(i) \in Sample
  <2>1. SUFFICES ASSUME NEW i \in 1 .. n PROVE Swapped(i) \in Sample
    OBVIOUS
  <2>2. CASE i > from /\ (i - from) % 2 = 1 /\ i < n
    <3>1. i + 1 \in 1 .. n
      BY <1>1, <2>2
    <3>2. QED
      BY <1>1, <2>2, <3>1
  <2>3. CASE i > from /\ (i - from) % 2 # 1
    <3>1. i - 1 \in 1 .. n
      BY <1>1, <2>3
    <3>2. QED
      BY <1>1, <2>3, <3>1
  <2>4. CASE /\ ~ (i > from /\ (i - from) % 2 = 1 /\ i < n)
             /\ ~ (i > from /\ (i - from) % 2 # 1)
    BY <1>1, <2>4
  <2>5. QED
    BY <2>2, <2>3, <2>4
<1> HIDE DEF Swapped
<1>4. [i \in 1 .. n |-> Swapped(i)] \in Seq(Sample)
      /\ Len([i \in 1 .. n |-> Swapped(i)]) = n
  BY <1>1, <1>3
<1>5. \A i \in 1 .. n : SwapPairs(pcm, from)[i] = Swapped(i)
  BY <1>2
<1>6. QED
  BY <1>2, <1>4, <1>5 DEF Swapped

\* Only what was appended is swapped.
LEMMA SwapAppended ==
  ASSUME NEW pcm \in Seq(Sample), NEW more \in Seq(Sample)
  PROVE  SwapPairs(pcm \o more, Len(pcm)) = pcm \o SwapPairs(more, 0)
<1> DEFINE k == Len(pcm)
           m == Len(more)
           all == pcm \o more
           lhs == SwapPairs(all, k)
           right == SwapPairs(more, 0)
           rhs == pcm \o right
<1>1. /\ all \in Seq(Sample) /\ Len(all) = k + m
      /\ \A i \in 1 .. k + m : all[i] = IF i <= k THEN pcm[i] ELSE more[i - k]
  BY ConcatProperties
<1>2. k \in Nat /\ m \in Nat /\ k \in 0 .. k + m /\ 0 \in 0 .. m
  OBVIOUS
<1> HIDE DEF all
<1>3. /\ lhs \in Seq(Sample) /\ Len(lhs) = k + m
      /\ \A i \in 1 .. k + m :
           lhs[i] = IF i > k /\ (i - k) % 2 = 1 /\ i < k + m THEN all[i + 1]
                    ELSE IF i > k /\ (i - k) % 2 # 1 THEN all[i - 1]
                    ELSE all[i]
  <2>1. k \in 0 .. Len(all) /\ all \in Seq(Sample)
    BY <1>1, <1>2
  <2> HIDE DEF k, m
  <2>2. /\ lhs \in Seq(Sample) /\ Len(lhs) = Len(all)
        /\ \A i \in 1 .. Len(all) :
             lhs[i] = IF i > k /\ (i - k) % 2 = 1 /\ i < Len(all)
                      THEN all[i + 1]
                      ELSE IF i > k /\ (i - k) % 2 # 1 THEN all[i - 1]
                      ELSE all[i]
    BY <2>1, SwapPairsSeq
  <2>3. Len(all) = k + m
    BY <1>1
  <2> HIDE DEF lhs
  <2>4. QED
    BY <2>2, <2>3
<1>4. /\ right \in Seq(Sample) /\ Len(right) = m
      /\ \A j \in 1 .. m :
           right[j] = IF j > 0 /\ (j - 0) % 2 = 1 /\ j < m THEN more[j + 1]
                      ELSE IF j > 0 /\ (j - 0) % 2 # 1 THEN more[j - 1]
                      ELSE more[j]
  BY <1>2, SwapPairsSeq
<1> HIDE DEF lhs, right
<1>5. /\ rhs \in Seq(Sample) /\ Len(rhs) = k + m
      /\ \A i \in 1 .. k + m : rhs[i] = IF i <= k THEN pcm[i] ELSE right[i - k]
  <2>1. /\ rhs \in Seq(Sample) /\ Len(rhs) = Len(pcm) + Len(right)
        /\ \A i \in 1 .. Len(pcm) + Len(right) :
             rhs[i] = IF i <= Len(pcm) THEN pcm[i] ELSE right[i - Len(pcm)]
    <3>1. right \in Seq(Sample)
      BY <1>4
    <3>2. QED
      BY <3>1, ConcatProperties
  <2>2. Len(right) = m /\ Len(pcm) = k
    BY <1>4
  <2> HIDE DEF k, m, rhs
  <2>3. QED
    BY <2>1, <2>2
<1> HIDE DEF rhs, k, m
<1>6. \A i \in 1 .. k + m : lhs[i] = rhs[i]
  <2>1. SUFFICES ASSUME NEW i \in 1 .. k + m PROVE lhs[i] = rhs[i]
    OBVIOUS
  <2>2. CASE i <= k
    <3>1. ~ (i > k)
      BY <1>2, <2>2
    <3>2. QED
      BY <1>1, <1>3, <1>5, <2>2, <3>1
  <2>3. CASE ~ (i <= k)
    <3> DEFINE j == i - k
    <3>1. j \in 1 .. m /\ j > 0 /\ i > k /\ j - 0 = j /\ (i < k + m <=> j < m)
      BY <1>2, <2>3
    <3>2. all[i] = more[j] /\ rhs[i] = right[j]
      BY <1>1, <1>5, <2>3
    <3>3. CASE j % 2 = 1 /\ j < m
      <4>1. i + 1 \in 1 .. k + m /\ ~ (i + 1 <= k) /\ (i + 1) - k = j + 1
        BY <1>2, <3>1, <3>3
      <4>2. all[i + 1] = more[j + 1]
        BY <1>1, <4>1
      <4>3. lhs[i] = all[i + 1]
        BY <1>3, <3>1, <3>3
      <4>4. right[j] = more[j + 1]
        BY <1>4, <3>1, <3>3
      <4>5. QED
        BY <3>2, <4>2, <4>3, <4>4
    <3>4. CASE j % 2 # 1
      <4>1. j # 1
        BY <3>4
      <4>2. i - 1 \in 1 .. k + m /\ ~ (i - 1 <= k) /\ (i - 1) - k = j - 1
        BY <1>2, <3>1, <4>1
      <4>3. all[i - 1] = more[j - 1]
        BY <1>1, <4>2
      <4>4. lhs[i] = all[i - 1]
        BY <1>3, <3>1, <3>4
      <4>5. right[j] = more[j - 1]
        BY <1>4, <3>1, <3>4
      <4>6. QED
        BY <3>2, <4>3, <4>4, <4>5
    <3>5. CASE j % 2 = 1 /\ ~ (j < m)
      <4>1. lhs[i] = all[i]
        BY <1>3, <3>1, <3>5
      <4>2. right[j] = more[j]
        BY <1>4, <3>1, <3>5
      <4>3. QED
        BY <3>2, <4>1, <4>2
    <3>6. QED
      BY <3>3, <3>4, <3>5
  <2>4. QED
    BY <2>2, <2>3
<1>7. lhs = rhs
  BY <1>3, <1>5, <1>6, SeqEqual
<1>8. QED
  BY <1>7 DEF lhs, rhs, all, right, k

\* What decode_chunk_audio appends for a chunk.
Part(m, f, c) == DecodeChunkAudio(m, f, c, <<>>)

Parts(m, f) == [c \in 1 .. Len(m.sounds) |-> Part(m, f, c)]

EscapeParts(sounds) == [c \in 1 .. Len(sounds) |-> Samples(c, 2 * sounds[c])]

\* They are sequences, one for each chunk.
LEMMA EscapePartsSeq ==
  ASSUME NEW sounds \in Seq(Nat)
  PROVE  /\ EscapeParts(sounds) \in Seq(Seq(Sample))
         /\ Len(EscapeParts(sounds)) = Len(sounds)
         /\ \A c \in 1 .. Len(sounds) :
              EscapeParts(sounds)[c] = Samples(c, 2 * sounds[c])
<1>1. \A c \in 1 .. Len(sounds) : Samples(c, 2 * sounds[c]) \in Seq(Sample)
  <2>1. SUFFICES ASSUME NEW c \in 1 .. Len(sounds)
                 PROVE  Samples(c, 2 * sounds[c]) \in Seq(Sample)
    OBVIOUS
  <2>2. sounds[c] \in Nat
    BY ElementOfSeq
  <2>3. 2 * sounds[c] \in Int /\ c \in Nat
    BY <2>2
  <2>4. QED
    BY <2>3, SamplesSeq
<1>2. QED
  BY <1>1 DEF EscapeParts

\* EscapeSamples, too, is its chunks' samples one behind the other.
LEMMA EscapeFlattens ==
  ASSUME NEW sounds \in Seq(Nat)
  PROVE  /\ EscapeSamples(sounds) = FlattenSeq(EscapeParts(sounds))
         /\ EscapeSamples(sounds) \in Seq(Sample)
<1> DEFINE n == Len(sounds)
           d == EscapeParts(sounds)
           Body(u, c) == IF c = 0 THEN <<>>
                         ELSE u[c - 1] \o Samples(c, 2 * sounds[c])
           Unfolds(u) == u = [c \in 0 .. n |-> Body(u, c)]
           upTo == CHOOSE u : Unfolds(u)
<1>1. /\ d \in Seq(Seq(Sample)) /\ Len(d) = n /\ n \in Nat
      /\ \A c \in 1 .. n : d[c] = Samples(c, 2 * sounds[c])
  BY EscapePartsSeq
<1> HIDE DEF d
<1>2. PICK g : Joins(g, d, Sample)
  BY <1>1, JoinExists
<1>3. EscapeSamples(sounds) = upTo[n]
  BY DEF EscapeSamples
<1>4. \A c \in 0 .. n : g[c] = Body(g, c)
  <2>1. g[0] = <<>>
            /\ \A c \in 1 .. n : g[c] = g[c - 1] \o Samples(c, 2 * sounds[c])
    BY <1>1, <1>2 DEF Joins
  <2>2. \A c \in 0 .. n : c = 0 \/ (c \in 1 .. n /\ c # 0)
    BY <1>1
  <2>3. QED
    BY <2>1, <2>2
<1>5. g = [c \in 0 .. n |-> g[c]]
  BY <1>1, <1>2 DEF Joins
<1>6. Unfolds(g)
  BY <1>4, <1>5
<1>7. Unfolds(upTo)
  BY <1>6
<1> HIDE DEF upTo
<1>8. JoinsFirst(upTo, d, n)
  <2>1. \A c \in 0 .. n : upTo[c] = Body(upTo, c)
    BY <1>7
  <2>2. upTo[0] = <<>>
    BY <1>1, <2>1
  <2>3. \A c \in 1 .. n : upTo[c] = upTo[c - 1] \o Samples(c, 2 * sounds[c])
    <3>1. \A c \in 1 .. n : c \in 0 .. n /\ c # 0
      BY <1>1
    <3>2. QED
      BY <2>1, <3>1
  <2>4. QED
    BY <1>1, <2>2, <2>3 DEF JoinsFirst
<1>9. n \in 0 .. Len(d)
  BY <1>1
<1>10. upTo[n] = g[n]
  BY <1>1, <1>2, <1>8, <1>9, JoinUnique
<1>11. FlattenSeq(d) = g[n] /\ g[n] \in Seq(Sample)
  <2>1. FlattenSeq(d) = g[Len(d)]
    BY <1>1, <1>2, FlattenJoins
  <2>2. QED
    BY <1>1, <1>2, <1>9, <2>1 DEF Joins
<1>12. QED
  BY <1>3, <1>10, <1>11 DEF d

\* The fields a sound decoder reads.
SoundFields(m) ==
  /\ m.sounds \in Seq(Nat) /\ m.sound.channels \in Nat /\ m.film.bytes \in Nat

\* A film's own track is a sequence of samples.
LEMMA FilmSeq ==
  ASSUME NEW m, SoundFields(m)
  PROVE  FilmSamples(m.film) \in Seq(Sample)
<1>1. m.film.bytes \in Nat /\ 2 * m.film.bytes \in Int /\ 1 \in Nat
  BY DEF SoundFields
<1>2. \A n \in Int : Samples(1, n) \in Seq(Sample)
  BY <1>1, SamplesSeq
<1>3. <<>> \in Seq(Sample)
  OBVIOUS
<1>4. QED
  BY <1>1, <1>2, <1>3 DEF FilmSamples

\* A chunk's number of samples is an integer.
LEMMA CountInt ==
  ASSUME NEW f, NEW channels, NEW bytes \in Nat
  PROVE  SampleCount(f, channels, bytes) \in Int
BY DEF SampleCount, AdpcmHeader

\* decode_chunk_audio appends, and what it appends does not depend on what is
\* there: a swap of channels stays inside the chunk.
LEMMA DecodeAppends ==
  ASSUME NEW m, SoundFields(m), NEW f, NEW c \in 1 .. Len(m.sounds),
         NEW pcm \in Seq(Sample)
  PROVE  /\ Part(m, f, c) \in Seq(Sample)
         /\ DecodeChunkAudio(m, f, c, pcm) = pcm \o Part(m, f, c)
<1> DEFINE count == SampleCount(f, m.sound.channels, m.sounds[c])
           film == FilmSamples(m.film)
           track == EscapeSamples(m.sounds)
           own == Samples(c, count)
<1>1. /\ film \in Seq(Sample) /\ track \in Seq(Sample)
      /\ <<>> \in Seq(Sample) /\ pcm \o <<>> = pcm
  BY FilmSeq, EscapeFlattens, ConcatEmptySeq DEF SoundFields
<1>2. own \in Seq(Sample)
  <2>1. m.sounds[c] \in Nat /\ c \in Nat
    BY ElementOfSeq DEF SoundFields
  <2>2. count \in Int
    BY <2>1, CountInt
  <2> HIDE DEF count
  <2>3. QED
    BY <2>1, <2>2, SamplesSeq
<1>3. /\ <<>> \o film = film /\ <<>> \o track = track /\ <<>> \o own = own
      /\ Len(<<>>) = 0
  BY <1>1, <1>2, ConcatEmptySeq
<1> HIDE DEF count, film, track, own
<1>4. CASE f = "iota"
  BY <1>1, <1>3, <1>4 DEF Part, DecodeChunkAudio, film
<1>5. CASE f = "escape"
  BY <1>1, <1>3, <1>5 DEF Part, DecodeChunkAudio, track
<1>6. CASE f \notin {"iota", "escape"} /\ count = 0
  BY <1>1, <1>6 DEF Part, DecodeChunkAudio, count
<1>7. CASE f \notin {"iota", "escape"} /\ count # 0
  <2>1. DecodeChunkAudio(m, f, c, pcm)
            = Canonical(m.sound, pcm \o own, Len(pcm))
    BY <1>7 DEF DecodeChunkAudio, count, own
  <2>2. Part(m, f, c) = Canonical(m.sound, <<>> \o own, Len(<<>>))
    BY <1>7 DEF Part, DecodeChunkAudio, count, own
  <2>3. Part(m, f, c) = Canonical(m.sound, own, 0)
    BY <1>3, <2>2
  <2>4. SwapPairs(pcm \o own, Len(pcm)) = pcm \o SwapPairs(own, 0)
    BY <1>2, SwapAppended
  <2>5. SwapPairs(own, 0) \in Seq(Sample)
    <3>1. 0 \in 0 .. Len(own)
      BY <1>2
    <3>2. QED
      BY <1>2, <3>1, SwapPairsSeq
  <2>6. QED
    BY <1>2, <2>1, <2>3, <2>4, <2>5 DEF Canonical
<1>8. QED
  BY <1>4, <1>5, <1>6, <1>7

\* The parts are sequences of samples, one for each chunk.
LEMMA PartsSeq ==
  ASSUME NEW m, SoundFields(m), NEW f
  PROVE  /\ Parts(m, f) \in Seq(Seq(Sample))
         /\ Len(Parts(m, f)) = Len(m.sounds)
         /\ \A c \in 1 .. Len(m.sounds) : Parts(m, f)[c] = Part(m, f, c)
<1>1. Len(m.sounds) \in Nat /\ <<>> \in Seq(Sample)
  BY DEF SoundFields
<1>2. \A c \in 1 .. Len(m.sounds) : Part(m, f, c) \in Seq(Sample)
  BY <1>1, DecodeAppends
<1>3. QED
  BY <1>1, <1>2 DEF Parts

\* decode_audio, chunk after chunk into one buffer, is the parts joined.
LEMMA DecodeFlattens ==
  ASSUME NEW m, SoundFields(m), NEW f
  PROVE  DecodeAudio(m, f) = FlattenSeq(Parts(m, f))
<1> DEFINE n == Len(m.sounds)
           d == Parts(m, f)
           Body(u, c) == IF c = 0 THEN <<>>
                         ELSE DecodeChunkAudio(m, f, c, u[c - 1])
           Unfolds(u) == u = [c \in 0 .. n |-> Body(u, c)]
           upTo == CHOOSE u : Unfolds(u)
<1>1. /\ d \in Seq(Seq(Sample)) /\ Len(d) = n /\ n \in Nat
      /\ \A c \in 1 .. n : d[c] = Part(m, f, c)
  BY PartsSeq DEF SoundFields
<1> HIDE DEF d
<1>2. PICK g : Joins(g, d, Sample)
  BY <1>1, JoinExists
<1>3. DecodeAudio(m, f) = upTo[n]
  BY DEF DecodeAudio
<1>4. \A c \in 1 .. n : c - 1 \in 0 .. n /\ g[c - 1] \in Seq(Sample)
  <2>1. \A c \in 1 .. n : c - 1 \in 0 .. n
    BY <1>1
  <2>2. g \in [0 .. n -> Seq(Sample)]
    BY <1>1, <1>2 DEF Joins
  <2>3. QED
    BY <2>1, <2>2
<1>5. \A c \in 1 .. n : g[c] = DecodeChunkAudio(m, f, c, g[c - 1])
  <2>1. \A c \in 1 .. n : DecodeChunkAudio(m, f, c, g[c - 1])
            = g[c - 1] \o Part(m, f, c)
    BY <1>4, DecodeAppends
  <2>2. QED
    BY <1>1, <1>2, <2>1 DEF Joins
<1>6. \A c \in 0 .. n : g[c] = Body(g, c)
  <2>1. \A c \in 0 .. n : c = 0 \/ (c \in 1 .. n /\ c # 0)
    BY <1>1
  <2>2. g[0] = <<>>
    BY <1>2 DEF Joins
  <2>3. QED
    BY <1>5, <2>1, <2>2
<1>7. g = [c \in 0 .. n |-> g[c]]
  BY <1>1, <1>2 DEF Joins
<1>8. Unfolds(g)
  BY <1>6, <1>7
<1>9. Unfolds(upTo)
  BY <1>8
<1> HIDE DEF upTo
<1>10. upTo[0] = <<>>
          /\ \A c \in 1 .. n : upTo[c] = DecodeChunkAudio(m, f, c, upTo[c - 1])
  <2>1. \A c \in 0 .. n : upTo[c] = Body(upTo, c)
    BY <1>9
  <2>2. \A c \in 1 .. n : c \in 0 .. n /\ c # 0
    BY <1>1
  <2>3. 0 \in 0 .. n
    BY <1>1
  <2>4. QED
    BY <2>1, <2>2, <2>3
<1>11. upTo[n] = g[n]
  <2> DEFINE Differs == {i \in 0 .. n : upTo[i] # g[i]}
  <2>1. SUFFICES ASSUME Differs # {} PROVE FALSE
    BY <1>1
  <2>2. Differs \in SUBSET Nat
    BY <1>1
  <2>3. PICK k \in Differs : \A l \in Differs : k <= l
    BY <2>1, <2>2, LeastNat
  <2>4. k # 0
    BY <1>2, <1>10, <2>3 DEF Joins
  <2>5. k \in 1 .. n /\ k - 1 \in 0 .. n /\ ~ (k <= k - 1)
    BY <1>1, <2>3, <2>4
  <2>6. upTo[k - 1] = g[k - 1]
    BY <2>3, <2>5
  <2>7. upTo[k] = g[k]
    BY <1>5, <1>10, <2>5, <2>6
  <2>8. QED
    BY <2>3, <2>7
<1>12. FlattenSeq(d) = g[n]
  BY <1>1, <1>2, FlattenJoins
<1>13. QED
  BY <1>3, <1>11, <1>12 DEF d

\* A track that comes whole with its first chunk.
LEMMA FirstIsAll ==
  ASSUME NEW S, NEW d \in Seq(Seq(S)), NEW x \in Seq(S), Len(d) # 0,
         d[1] = x, \A c \in 2 .. Len(d) : d[c] = <<>>
  PROVE  FlattenSeq(d) = x
<1> DEFINE n == Len(d)
           h == [c \in 0 .. n |-> IF c = 0 THEN <<>> ELSE x]
<1>1. n \in Nat /\ n # 0 /\ n \in 0 .. Len(d) /\ Len(d) \in Nat
  OBVIOUS
<1>2. PICK g : Joins(g, d, S)
  BY JoinExists
<1>3. h[0] = <<>> /\ h[n] = x
  BY <1>1
<1>4. \A c \in 1 .. n : h[c] = h[c - 1] \o d[c]
  <2>1. SUFFICES ASSUME NEW c \in 1 .. n PROVE h[c] = h[c - 1] \o d[c]
    OBVIOUS
  <2>2. c \in 0 .. n /\ c - 1 \in 0 .. n /\ c # 0
    BY <1>1
  <2>3. CASE c = 1
    <3>1. h[c] = x /\ h[c - 1] = <<>>
      BY <2>2, <2>3
    <3>2. <<>> \o x = x
      BY ConcatEmptySeq
    <3>3. QED
      BY <2>3, <3>1, <3>2
  <2>4. CASE c # 1
    <3>1. h[c] = x /\ h[c - 1] = x /\ d[c] = <<>>
      BY <1>1, <2>2, <2>4
    <3>2. x \o <<>> = x
      BY ConcatEmptySeq
    <3>3. QED
      BY <3>1, <3>2
  <2>5. QED
    BY <2>3, <2>4
<1> HIDE DEF h
<1>5. JoinsFirst(h, d, n)
  BY <1>3, <1>4 DEF JoinsFirst
<1>6. FlattenSeq(d) = g[n]
  BY <1>2, FlattenJoins
<1> HIDE DEF n
<1>7. h[n] = g[n]
  BY <1>1, <1>2, <1>5, JoinUnique
<1>8. QED
  BY <1>3, <1>6, <1>7

\* What the first n chunks sound like.
SoFar(m, f, n) == FlattenSeq(SubSeq(Parts(m, f), 1, n))

\* It starts empty, grows by a chunk's part, and ends with the whole track.
LEMMA SoFarGrows ==
  ASSUME NEW m, SoundFields(m), NEW f
  PROVE  /\ SoFar(m, f, 0) = <<>>
         /\ SoFar(m, f, Len(m.sounds)) = FlattenSeq(Parts(m, f))
         /\ \A n \in 0 .. Len(m.sounds) : SoFar(m, f, n) \in Seq(Sample)
         /\ \A n \in 1 .. Len(m.sounds) :
              SoFar(m, f, n) = SoFar(m, f, n - 1) \o Part(m, f, n)
<1> DEFINE d == Parts(m, f)
           k == Len(m.sounds)
<1>1. /\ d \in Seq(Seq(Sample)) /\ Len(d) = k /\ k \in Nat
      /\ \A c \in 1 .. k : d[c] = Part(m, f, c)
      /\ \A c \in 1 .. k : d[c] \in Seq(Sample)
  BY PartsSeq, ElementOfSeq DEF SoundFields
<1> HIDE DEF d, k
<1>2. \A n \in 0 .. k : SubSeq(d, 1, n) \in Seq(Seq(Sample))
  <2>1. SUFFICES ASSUME NEW n \in 0 .. k
                 PROVE  SubSeq(d, 1, n) \in Seq(Seq(Sample))
    OBVIOUS
  <2>2. \A i \in 1 .. n : d[i] \in Seq(Sample)
    BY <1>1
  <2>3. n \in Int /\ 1 \in Int
    BY <1>1
  <2>4. QED
    BY <2>2, <2>3, SubSeqProperties
<1>3. \A n \in 0 .. k : FlattenSeq(SubSeq(d, 1, n)) \in Seq(Sample)
  <2>1. <<>> \in Seq(Sample)
    OBVIOUS
  <2>2. QED
    BY <1>2, <2>1, FlattenAppend
<1>4. FlattenSeq(SubSeq(d, 1, 0)) = <<>>
  <2>1. SubSeq(d, 1, 0) = <<>>
    BY SubSeqEmpty
  <2>2. QED
    BY <2>1, FlattenNothing
<1>5. SubSeq(d, 1, k) = d
  BY <1>1, SubSeqFull
<1>6. \A n \in 1 .. k :
        FlattenSeq(SubSeq(d, 1, n)) = FlattenSeq(SubSeq(d, 1, n - 1)) \o d[n]
  <2>1. SUFFICES ASSUME NEW n \in 1 .. k
                 PROVE  FlattenSeq(SubSeq(d, 1, n)) =
                          FlattenSeq(SubSeq(d, 1, n - 1)) \o d[n]
    OBVIOUS
  <2> DEFINE e == SubSeq(d, 1, n - 1)
  <2>2. 1 \in 1 .. Len(d) /\ n \in 1 .. Len(d) /\ n - 1 \in 0 .. k
    BY <1>1
  <2>3. SubSeq(d, 1, n) = e \o <<d[n]>>
    BY <1>1, <2>2, SubSeqRecursiveSecond
  <2>4. e \in Seq(Seq(Sample)) /\ d[n] \in Seq(Sample)
    BY <1>1, <1>2, <2>2
  <2> HIDE DEF e
  <2>5. e \o <<d[n]>> = Append(e, d[n])
    BY <2>4, AppendIsConcat
  <2>6. FlattenSeq(Append(e, d[n])) = FlattenSeq(e) \o d[n]
    BY <2>4, FlattenAppend
  <2>7. QED
    BY <2>3, <2>5, <2>6 DEF e
<1>7. QED
  BY <1>1, <1>3, <1>4, <1>5, <1>6 DEF SoFar, d, k

\* A beginning of a sequence is a beginning of a longer one.
LEMMA ConcatPrefix ==
  ASSUME NEW S, NEW s \in Seq(S), NEW t \in Seq(S), NEW x \in Seq(S),
          IsPrefix(s, t)
  PROVE  IsPrefix(s, t \o x) /\ IsPrefix(t, t)
<1> DEFINE n == Len(s)
           k == Len(t)
           u == t \o x
<1>1. /\ n \in Nat /\ k \in Nat /\ Len(x) \in Nat
      /\ \A i \in 1 .. k : t[i] \in S
  BY ElementOfSeq
<1>2. /\ u \in Seq(S) /\ Len(u) = k + Len(x)
      /\ \A i \in 1 .. k + Len(x) : u[i] = IF i <= k THEN t[i] ELSE x[i - k]
  BY ConcatProperties
<1> HIDE DEF u, n, k
<1>3. n <= k /\ SubSeq(s, 1, n) = SubSeq(t, 1, n)
  BY DEF IsPrefix, n, k
<1>4. \A i \in 1 .. n : i \in 1 .. k /\ u[i] = t[i] /\ t[i] \in S /\ u[i] \in S
  BY <1>1, <1>2, <1>3
<1>5. /\ SubSeq(t, 1, n) \in Seq(S) /\ SubSeq(u, 1, n) \in Seq(S)
      /\ Len(SubSeq(t, 1, n)) = IF 1 <= n THEN n - 1 + 1 ELSE 0
      /\ Len(SubSeq(u, 1, n)) = IF 1 <= n THEN n - 1 + 1 ELSE 0
      /\ \A i \in 1 .. n - 1 + 1 : SubSeq(t, 1, n)[i] = t[1 + i - 1]
      /\ \A i \in 1 .. n - 1 + 1 : SubSeq(u, 1, n)[i] = u[1 + i - 1]
  <2>1. 1 \in Int /\ n \in Int
    BY <1>1
  <2>2. QED
    BY <1>4, <2>1, SubSeqProperties
<1>6. SubSeq(u, 1, n) = SubSeq(t, 1, n)
  <2>1. Len(SubSeq(u, 1, n)) = Len(SubSeq(t, 1, n)) /\ Len(SubSeq(u, 1, n)) = n
    BY <1>1, <1>5
  <2>2. \A i \in 1 .. n : SubSeq(u, 1, n)[i] = SubSeq(t, 1, n)[i]
    BY <1>1, <1>4, <1>5
  <2>3. QED
    BY <1>5, <2>1, <2>2, SeqEqual
<1>7. n <= Len(u)
  BY <1>1, <1>2, <1>3
<1>8. IsPrefix(s, u)
  BY <1>3, <1>6, <1>7 DEF IsPrefix, n
<1>9. k <= k
  BY <1>1
<1>10. IsPrefix(t, t)
  BY <1>9 DEF IsPrefix, k
<1>11. QED
  BY <1>8, <1>10 DEF u

\* What is heard of the first chunks is a beginning of the whole.
LEMMA SoFarPrefix ==
  ASSUME NEW m, SoundFields(m), NEW f, NEW n \in 0 .. Len(m.sounds)
  PROVE  IsPrefix(SoFar(m, f, n), FlattenSeq(Parts(m, f)))
<1> DEFINE k == Len(m.sounds)
           Starts(i) == IsPrefix(SoFar(m, f, n), SoFar(m, f, i))
           Fails == {i \in n .. k : ~ Starts(i)}
<1>1. /\ k \in Nat /\ n \in Nat /\ n <= k
      /\ \A i \in 0 .. k : SoFar(m, f, i) \in Seq(Sample)
      /\ \A i \in 1 .. k : SoFar(m, f, i) = SoFar(m, f, i - 1) \o Part(m, f, i)
      /\ \A i \in 1 .. k : Part(m, f, i) \in Seq(Sample)
      /\ SoFar(m, f, k) = FlattenSeq(Parts(m, f))
  <2>1. Len(m.sounds) \in Nat /\ <<>> \in Seq(Sample)
    BY DEF SoundFields
  <2>2. \A i \in 1 .. k : Part(m, f, i) \in Seq(Sample)
    BY <2>1, DecodeAppends
  <2>3. /\ SoFar(m, f, k) = FlattenSeq(Parts(m, f))
        /\ \A i \in 0 .. k : SoFar(m, f, i) \in Seq(Sample)
        /\ \A i \in 1 .. k : SoFar(m, f, i)
                = SoFar(m, f, i - 1) \o Part(m, f, i)
    BY SoFarGrows
  <2>4. k \in Nat /\ n \in Nat /\ n <= k
    BY <2>1
  <2>5. QED
    BY <2>2, <2>3, <2>4
<1> HIDE DEF k
<1>2. Starts(n)
  <2>1. SoFar(m, f, n) \in Seq(Sample)
    BY <1>1
  <2>2. Len(SoFar(m, f, n)) <= Len(SoFar(m, f, n))
    BY <2>1
  <2>3. QED
    BY <2>2 DEF IsPrefix
<1>3. SUFFICES ASSUME Fails # {} PROVE FALSE
  <2>1. k \in n .. k
    BY <1>1
  <2>2. Starts(k) => IsPrefix(SoFar(m, f, n), FlattenSeq(Parts(m, f)))
    BY <1>1
  <2> HIDE DEF Starts
  <2>3. Fails = {} => Starts(k)
    BY <2>1
  <2>4. QED
    BY <2>2, <2>3
<1>4. Fails \in SUBSET Nat
  BY <1>1
<1>5. PICK i \in Fails : \A j \in Fails : i <= j
  BY <1>3, <1>4, LeastNat
<1>6. i # n
  BY <1>2, <1>5
<1>7. i \in 1 .. k /\ i - 1 \in n .. k /\ i - 1 \in 0 .. k /\ ~ (i <= i - 1)
  BY <1>1, <1>5, <1>6
<1>8. Starts(i - 1)
  BY <1>5, <1>7
<1>9. Starts(i)
  <2>1. /\ SoFar(m, f, n) \in Seq(Sample) /\ SoFar(m, f, i - 1) \in Seq(Sample)
        /\ Part(m, f, i) \in Seq(Sample)
        /\ SoFar(m, f, i) = SoFar(m, f, i - 1) \o Part(m, f, i)
    BY <1>1, <1>7
  <2>2. QED
    BY <1>8, <2>1, ConcatPrefix
<1>10. QED
  BY <1>5, <1>9

\* The track the property promises, sample by sample, is the parts joined:
\* for a film, for Escape's one state, and for chunks swapped or not.
LEMMA TrackFlattens ==
  ASSUME movie \in Movies
  PROVE  Track = FlattenSeq(Parts(movie, audio))
<1> DEFINE d == Parts(movie, audio)
           sounds == movie.sounds
           k == Len(movie.sounds)
           count(c) == SampleCount(audio, movie.sound.channels, sounds[c])
           laid == [c \in 1 .. k |->
                      [i \in 1 .. count(c) |-> TrackSample(c, i)]]
<1>1. /\ SoundFields(movie) /\ Chunks = k /\ k \in Nat \ {0}
      /\ sounds \in Seq(Nat)
  BY MovieParts DEF SoundFields
<1>2. /\ d \in Seq(Seq(Sample)) /\ Len(d) = k
      /\ \A c \in 1 .. k : d[c] = Part(movie, audio, c)
  BY <1>1, PartsSeq
<1>3. \A c \in 1 .. k : count(c) \in Int /\ sounds[c] \in Nat /\ c \in Nat
  <2>1. \A c \in 1 .. k : sounds[c] \in Nat /\ c \in Nat
    BY <1>1, ElementOfSeq
  <2>2. QED
    BY <2>1, CountInt
<1> HIDE DEF d, count
<1>4. CASE audio = "iota"
  <2>1. Track = FilmSamples(movie.film)
    BY <1>4 DEF Track
  <2>2. FilmSamples(movie.film) \in Seq(Sample)
    BY <1>1, FilmSeq
  <2>3. <<>> \o FilmSamples(movie.film) = FilmSamples(movie.film)
    BY <2>2, ConcatEmptySeq
  <2>4. d[1] = FilmSamples(movie.film) /\ \A c \in 2 .. k : d[c] = <<>>
    <3>1. \A c \in 1 .. k : d[c] = IF c = 1 THEN FilmSamples(movie.film)
              ELSE <<>>
      <4>1. \A c \in 1 .. k : Part(movie, audio, c) =
              IF c = 1 THEN <<>> \o FilmSamples(movie.film) ELSE <<>>
        BY <1>4 DEF Part, DecodeChunkAudio
      <4>2. QED
        BY <1>2, <2>3, <4>1
    <3>2. 1 \in 1 .. k /\ \A c \in 2 .. k : c \in 1 .. k /\ c # 1
      BY <1>1
    <3>3. QED
      BY <3>1, <3>2
  <2>5. FlattenSeq(d) = FilmSamples(movie.film)
    BY <1>1, <1>2, <2>2, <2>4, FirstIsAll
  <2>6. QED
    BY <2>1, <2>5 DEF d
<1>5. CASE audio = "escape"
  <2>1. \A c \in 1 .. k : [i \in 1 .. count(c) |-> TrackSample(c, i)]
            = EscapeParts(sounds)[c]
    <3>1. SUFFICES ASSUME NEW c \in 1 .. k
                   PROVE  [i \in 1 .. count(c) |-> TrackSample(c, i)]
                            = EscapeParts(sounds)[c]
      OBVIOUS
    <3>2. EscapeParts(sounds)[c] = Samples(c, 2 * sounds[c])
      BY <1>1, EscapePartsSeq
    <3>3. count(c) = 2 * sounds[c]
      BY <1>3, <1>5 DEF count, SampleCount, OneBytePerSample
    <3>4. \A i \in 1 .. count(c) : TrackSample(c, i) = <<c, i>>
      BY <1>5 DEF TrackSample
    <3>5. QED
      BY <3>2, <3>3, <3>4 DEF Samples
  <2>2. EscapeParts(sounds) = [c \in 1 .. k |-> EscapeParts(sounds)[c]]
    BY DEF EscapeParts
  <2>3. laid = EscapeParts(sounds)
    BY <2>1, <2>2
  <2>4. Track = FlattenSeq(laid)
    BY <1>1, <1>5 DEF Track, count
  <2>5. EscapeSamples(sounds) = FlattenSeq(EscapeParts(sounds))
            /\ EscapeSamples(sounds) \in Seq(Sample)
    BY <1>1, EscapeFlattens
  <2>6. <<>> \o EscapeSamples(sounds) = EscapeSamples(sounds)
    BY <2>5, ConcatEmptySeq
  <2>7. d[1] = EscapeSamples(sounds) /\ \A c \in 2 .. k : d[c] = <<>>
    <3>1. \A c \in 1 .. k : d[c] = IF c = 1 THEN EscapeSamples(sounds) ELSE <<>>
      <4>1. \A c \in 1 .. k : Part(movie, audio, c) =
              IF c = 1 THEN <<>> \o EscapeSamples(sounds) ELSE <<>>
        BY <1>5 DEF Part, DecodeChunkAudio
      <4>2. QED
        BY <1>2, <2>6, <4>1
    <3>2. 1 \in 1 .. k /\ \A c \in 2 .. k : c \in 1 .. k /\ c # 1
      BY <1>1
    <3>3. QED
      BY <3>1, <3>2
  <2>8. FlattenSeq(d) = EscapeSamples(sounds)
    BY <1>1, <1>2, <2>5, <2>7, FirstIsAll
  <2>9. QED
    BY <2>3, <2>4, <2>5, <2>8 DEF d
<1>6. CASE audio \notin {"iota", "escape"}
  <2>1. \A c \in 1 .. k : [i \in 1 .. count(c) |-> TrackSample(c, i)] = d[c]
    <3>1. SUFFICES ASSUME NEW c \in 1 .. k
                   PROVE  [i \in 1 .. count(c) |-> TrackSample(c, i)] = d[c]
      OBVIOUS
    <3> DEFINE n == count(c)
               own == Samples(c, n)
    <3>2. n \in Int /\ c \in Nat
      BY <1>3
    <3>3. /\ own \in Seq(Sample) /\ Len(own) = (IF n >= 0 THEN n ELSE 0)
          /\ \A i \in 1 .. n : own[i] = <<c, i>>
      BY <3>2, SamplesSeq
    <3>4. <<>> \o own = own /\ Len(<<>>) = 0
      BY <3>3, ConcatEmptySeq
    <3>5. d[c] = IF n = 0 THEN <<>> ELSE Canonical(movie.sound, own, 0)
      BY <1>2, <1>6, <3>4 DEF Part, DecodeChunkAudio, count
    <3> HIDE DEF n, own
    <3>6. CASE n <= 0
      <4>1. 1 .. n = {}
        BY <3>2, <3>6
      <4>2. [i \in 1 .. n |-> TrackSample(c, i)] = <<>>
        BY <4>1
      <4>3. Len(own) = 0
        BY <3>2, <3>3, <3>6
      <4>4. own = <<>>
        BY <3>3, <4>3, EmptySeq
      <4>5. SwapPairs(own, 0) = <<>>
        <5>1. DOMAIN own = {}
          BY <4>4
        <5>2. QED
          BY <5>1 DEF SwapPairs
      <4>6. d[c] = <<>>
        BY <3>5, <4>4, <4>5 DEF Canonical
      <4>7. QED
        BY <4>2, <4>6 DEF n
    <3>7. CASE ~ (n <= 0)
      <4>1. n \in Nat /\ n # 0 /\ Len(own) = n
                /\ d[c] = Canonical(movie.sound, own, 0)
        BY <3>2, <3>3, <3>5, <3>7
      <4>2. own = [i \in 1 .. n |-> <<c, i>>]
        BY <3>2 DEF own, Samples
      <4>3. CASE ~ (movie.sound.channels = 2 /\ movie.sound.reversed)
        <5>1. d[c] = own
          BY <4>1, <4>3 DEF Canonical
        <5>2. \A i \in 1 .. n : TrackSample(c, i) = <<c, i>>
          BY <4>3 DEF TrackSample
        <5>3. QED
          BY <4>2, <5>1, <5>2 DEF n
      <4>4. CASE movie.sound.channels = 2 /\ movie.sound.reversed
        <5>1. d[c] = SwapPairs(own, 0)
          BY <4>1, <4>4 DEF Canonical
        <5>2. 0 \in 0 .. Len(own)
          BY <4>1
        <5>3. /\ SwapPairs(own, 0) \in Seq(Sample) /\ Len(SwapPairs(own, 0)) = n
              /\ \A i \in 1 .. n :
                   SwapPairs(own, 0)[i] =
                     IF i > 0 /\ (i - 0) % 2 = 1 /\ i < n THEN own[i + 1]
                     ELSE IF i > 0 /\ (i - 0) % 2 # 1 THEN own[i - 1]
                     ELSE own[i]
          BY <3>3, <4>1, <5>2, SwapPairsSeq
        <5>4. \A i \in 1 .. n : SwapPairs(own, 0)[i] = TrackSample(c, i)
          <6>1. SUFFICES ASSUME NEW i \in 1 .. n
                         PROVE  SwapPairs(own, 0)[i] = TrackSample(c, i)
            OBVIOUS
          <6>2. TrackSample(c, i) =
                  LET mate == IF i % 2 = 1 THEN i + 1 ELSE i - 1
                  IN  <<c, IF mate <= n THEN mate ELSE i>>
            BY <1>6, <4>4 DEF TrackSample, n, count
          <6>3. i - 0 = i /\ i > 0
            BY <4>1
          <6>4. CASE i % 2 = 1 /\ i < n
            <7>1. i + 1 \in 1 .. n /\ i + 1 <= n
              BY <4>1, <6>4
            <7>2. own[i + 1] = <<c, i + 1>>
              BY <3>3, <7>1
            <7>3. SwapPairs(own, 0)[i] = own[i + 1]
              BY <5>3, <6>3, <6>4
            <7>4. QED
              BY <6>2, <6>4, <7>1, <7>2, <7>3
          <6>5. CASE i % 2 = 1 /\ ~ (i < n)
            <7>1. ~ (i + 1 <= n)
              BY <4>1, <6>5
            <7>2. own[i] = <<c, i>>
              BY <3>3
            <7>3. SwapPairs(own, 0)[i] = own[i]
              BY <5>3, <6>3, <6>5
            <7>4. QED
              BY <6>2, <6>5, <7>1, <7>2, <7>3
          <6>6. CASE i % 2 # 1
            <7>1. i - 1 \in 1 .. n /\ i - 1 <= n
              <8>1. i # 1
                BY <6>6
              <8>2. QED
                BY <4>1, <8>1
            <7>2. own[i - 1] = <<c, i - 1>>
              BY <3>3, <7>1
            <7>3. SwapPairs(own, 0)[i] = own[i - 1]
              BY <5>3, <6>3, <6>6
            <7>4. QED
              BY <6>2, <6>6, <7>1, <7>2, <7>3
          <6>7. QED
            BY <6>4, <6>5, <6>6
        <5>5. SwapPairs(own, 0) = [i \in 1 .. n |-> SwapPairs(own, 0)[i]]
          BY <5>3
        <5>6. QED
          BY <5>1, <5>4, <5>5 DEF n
      <4>5. QED
        BY <4>3, <4>4
    <3>8. QED
      BY <3>2, <3>6, <3>7
  <2>2. d = [c \in 1 .. k |-> d[c]]
    BY <1>2
  <2>3. laid = d
    BY <2>1, <2>2
  <2>4. Track = FlattenSeq(laid)
    BY <1>1, <1>6 DEF Track, count
  <2>5. QED
    BY <2>3, <2>4 DEF d
<1>7. QED
  BY <1>4, <1>5, <1>6

-----------------------------------------------------------------------------
\* The stream replay-transcode writes is one of NutMuxer's.

\* Once decided, what is transcoded how stays.
LEMMA Unchanging ==
  ASSUME Steady
  PROVE  /\ movie' = movie /\ options' = options /\ Chunks' = Chunks
         /\ HaveVideo' = HaveVideo /\ Route' = Route
         /\ at # "main" => audio' = audio
<1>1. movie' = movie /\ options' = options
  BY DEF Steady, inputVars
<1>2. HaveVideo' = HaveVideo
  BY <1>1 DEF HaveVideo, SoundOnly, video, Decompressor
<1>3. Route' = Route
  BY <1>1, <1>2 DEF Route, video
<1>4. Chunks' = Chunks
  BY <1>1 DEF Chunks
<1>5. QED
  BY <1>1, <1>2, <1>3, <1>4 DEF Steady

\* A sample frame has samples.
LEMMA ChannelsPositive ==
  ASSUME movie \in Movies
  PROVE  SinkChannels \in Nat \ {0}
BY MovieParts DEF SinkChannels

\* What is decoded for a chunk is a sequence of whole samples.
LEMMA ChunkSoundSeq ==
  ASSUME movie \in Movies, chunk \in 1 .. Chunks
  PROVE  /\ ChunkSound \in Seq(Sample)
         /\ SampleFrames(ChunkSound) \in Nat
         /\ SampleFrames(ChunkSound) = Len(ChunkSound) \div SinkChannels
         /\ ChunkSound = Part(movie, audio, chunk)
<1>1. SoundFields(movie) /\ Len(movie.sounds) = Chunks /\ <<>> \in Seq(Sample)
  BY MovieParts DEF SoundFields
<1>2. Part(movie, audio, chunk) \in Seq(Sample)
  BY <1>1, DecodeAppends
<1>3. ChunkSound = Part(movie, audio, chunk)
  BY DEF ChunkSound, Part
<1>4. Len(ChunkSound) \in Nat
  BY <1>2, <1>3
<1> HIDE DEF SampleFrames
<1>5. SampleFrames(ChunkSound) = Len(ChunkSound) \div SinkChannels
  BY DEF SampleFrames
<1>6. Len(ChunkSound) \div SinkChannels \in Nat
  BY <1>4, ChannelsPositive
<1>7. QED
  BY <1>2, <1>3, <1>5, <1>6

\* The two clocks stay numbers.
LEMMA SinkTyped ==
  ASSUME Placed, [Next]_vars
  PROVE  sink' \in [video_pts : Nat, audio_pts : Nat]
<1>1. StreamStep
  BY NextStreams
<1>2. sink \in [video_pts : Nat, audio_pts : Nat]
  BY DEF Placed
<1>3. CASE Silent
  BY <1>2, <1>3 DEF Silent
<1>4. CASE Opened
  BY <1>2, <1>4 DEF Opened
<1>5. CASE PictureOut
  BY <1>2, <1>5 DEF PictureOut
<1>6. CASE SoundOut
  <2>1. movie \in Movies /\ chunk \in 1 .. Chunks
    BY <1>6 DEF Placed, SoundOut
  <2>2. SampleFrames(ChunkSound) \in Nat
    BY <2>1, ChunkSoundSeq
  <2>3. sink' = [sink EXCEPT !.audio_pts = @ + SampleFrames(ChunkSound)]
    BY <1>6 DEF SoundOut
  <2> HIDE DEF ChunkSound, SampleFrames
  <2>4. QED
    BY <1>2, <2>2, <2>3
<1>7. QED
  BY <1>1, <1>3, <1>4, <1>5, <1>6 DEF StreamStep

\* The places a step may leave for, and with which chunk.
Onward ==
  /\ at' \in {"sound", "chunk", "unwrap", "frames"} => chunk' \in 1 .. Chunks
  /\ at' \notin {"main", "open"} /\ (at' = "video" => chunk' = 1)
  /\ at' = "unwrap" => Route = "module"
  /\ at' = "frames" /\ Route = "pass" =>
       data' \in Seq(Nat) /\ pos' \in 0 .. Len(data')

\* The end of a chunk leads to the next or to the end.
LEMMA NextChunkOnward ==
  ASSUME NextChunk, chunk \in 1 .. Chunks, Chunks \in Nat
  PROVE  Onward
BY DEF NextChunk, Onward

\* A picture leaves the program in its chunk.
LEMMA ShowFrameOnward ==
  ASSUME Placed, ShowFrame
  PROVE  Onward
<1>1. at = "frames" /\ at' = at /\ chunk' = chunk
  BY DEF ShowFrame, PassFrame, Esc122Frame, Esc130Frame, Esc100Frame,
     Esc124Frame, TcaFrame, Type23Frame, ModuleFrame, Show, OtherThanWalk
<1>2. CASE PassFrame
  <2>1. data \in Seq(Nat) /\ pos \in 0 .. Len(data)
    BY <1>2 DEF PassFrame, Placed
  <2>2. Frame.found /\ pos' = Frame.pos /\ data' = data
    BY <1>2 DEF PassFrame, OtherThanWalk
  <2>3. pos' \in 0 .. Len(data)
    BY <2>1, <2>2, FoundFrame DEF Frame
  <2>4. QED
    BY <1>1, <2>1, <2>2, <2>3 DEF Onward, Placed
<1>3. CASE ~ PassFrame
  <2>1. Route # "pass"
    BY <1>3 DEF ShowFrame, Esc122Frame, Esc130Frame, Esc100Frame,
       Esc124Frame, TcaFrame, Type23Frame, ModuleFrame
  <2>2. QED
    BY <1>1, <2>1 DEF Onward, Placed
<1>4. QED
  BY <1>2, <1>3

\* So does every step after main has decided.
LEMMA StepOnward ==
  ASSUME Placed, Step, ~ Decide
  PROVE  Onward
<1>1. ASSUME NEW code, Exit(code) PROVE Onward
  BY <1>1 DEF Exit, Onward
<1>2. movie.videos \in Seq(Seq(Nat)) /\ Chunks \in Nat \ {0}
  BY MovieParts DEF Placed
<1>3. at \in {"sound", "chunk", "unwrap", "frames"} => chunk \in 1 .. Chunks
  BY DEF Placed
<1>4. CASE Refuse \/ Nothing \/ Close
  BY <1>1, <1>4 DEF Refuse, Nothing, Close, DieIf
<1>5. CASE OpenNut
  BY <1>5 DEF OpenNut, Onward, Placed
<1>6. CASE WriteWav
  BY <1>6 DEF WriteWav, Onward, Placed
<1>7. CASE StartVideo
  BY <1>2, <1>7 DEF StartVideo, Onward, Placed
<1>8. CASE EmitSound
  BY <1>2, <1>3, <1>8 DEF EmitSound, AfterSound, UpFront, Onward
<1>9. CASE SkipChunk
  BY <1>2, <1>3, <1>9, NextChunkOnward DEF SkipChunk
<1>10. CASE EnterChunk
  <2>1. chunk \in 1 .. Chunks /\ at' = "frames" /\ chunk' = chunk
    BY <1>3, <1>10 DEF EnterChunk
  <2>2. data' = movie.videos[chunk] /\ pos' = 0
    BY <1>10 DEF EnterChunk
  <2>3. movie.videos[chunk] \in Seq(Nat)
    BY <1>2, <2>1, ElementOfSeq DEF Chunks
  <2>4. QED
    BY <2>1, <2>2, <2>3 DEF Onward
<1>11. CASE EnterModuleChunk
  BY <1>3, <1>11 DEF EnterModuleChunk, Onward
<1>12. CASE EnterWrappedChunk
  BY <1>3, <1>12 DEF EnterWrappedChunk, Onward
<1>13. CASE UnwrapFrame
  BY <1>3, <1>13 DEF UnwrapFrame, Onward, Placed
<1>14. CASE LoadUnwrapped
  <2>1. Route = "module" /\ at = "unwrap" /\ at' = "frames" /\ chunk' = chunk
    BY <1>14 DEF LoadUnwrapped, Placed
  <2>2. QED
    BY <1>3, <2>1 DEF Onward
<1>15. CASE ShowFrame
  BY <1>15, ShowFrameOnward
<1>16. CASE ModuleShort
  BY <1>2, <1>3, <1>16, NextChunkOnward DEF ModuleShort
<1>17. CASE EndChunk
  BY <1>2, <1>3, <1>17, NextChunkOnward DEF EndChunk
<1>18. CASE EndFilm
  BY <1>18 DEF EndFilm, Onward
<1>19. CASE Die
  <2>1. Exit("exit 1")
    BY <1>19 DEF Die, DieIf
  <2>2. QED
    BY <1>1, <2>1
<1>20. QED
  BY <1>4, <1>5, <1>6, <1>7, <1>8, <1>9, <1>10, <1>11, <1>12, <1>13, <1>14,
     <1>15, <1>16, <1>17, <1>18, <1>19 DEF Step

\* The program starts where Placed says
LEMMA PlacedInit ==
  ASSUME Init
  PROVE  Placed
BY DEF Init, Placed, MuxClosed

\* and every step keeps to it.
LEMMA PlacedNext ==
  ASSUME Placed, [Next]_vars
  PROVE  Placed'
<1>1. Steady /\ sink' \in [video_pts : Nat, audio_pts : Nat]
  BY NextStreams, SinkTyped
<1>2. movie' \in Movies /\ Route' = Route /\ Chunks' = Chunks
  BY <1>1, Unchanging DEF Placed
<1>3. CASE Decide
  <2>1. at = "main" /\ at' = "open" /\ UNCHANGED <<file, sink, chunk>>
    BY <1>3 DEF Decide, outVars, muxVars
  <2>2. QED
    BY <1>1, <1>2, <2>1 DEF Placed
<1>4. ASSUME Onward PROVE Placed'
  BY <1>1, <1>2, <1>4 DEF Onward, Placed
<1>5. CASE Step /\ ~ Decide
  BY <1>4, <1>5, StepOnward
<1>6. CASE Fail
  <2>1. Onward
    BY <1>6 DEF Fail, Exit, Onward
  <2>2. QED
    BY <1>4, <2>1
<1>7. CASE UNCHANGED vars
  BY <1>1, <1>2, <1>7 DEF vars, inputVars, walkVars, outVars, muxVars, Placed
<1>8. QED
  BY <1>3, <1>5, <1>6, <1>7 DEF Next

\* The stream replay-transcode writes is one the muxer's callers may write:
\* its times and lengths are numbers and it is opened once.
THEOREM TranscodeMuxes == Spec => MuxSpec
<1>1. Init => MuxClosed
  BY DEF Init
<1>2. Placed /\ [Next]_vars => [MuxNext]_muxVars
  <2> SUFFICES ASSUME Placed, [Next]_vars PROVE [MuxNext]_muxVars
    OBVIOUS
  <2>1. StreamStep
    BY NextStreams
  <2>2. sink.video_pts \in Nat /\ sink.audio_pts \in Nat
    BY DEF Placed
  <2>3. CASE Silent
    BY <2>3 DEF Silent
  <2>4. CASE Opened
    <3>1. file = <<>>
      BY <2>4 DEF Opened, Placed
    <3>2. QED
      BY <2>4, <3>1 DEF Opened, MuxNext
  <2>5. CASE PictureOut
    <3>1. PICK shown : \E length \in Nat :
            WriteFrame(VideoStream, sink.video_pts, shown, length)
      BY <2>5 DEF PictureOut
    <3>2. PICK length \in Nat :
            WriteFrame(VideoStream, sink.video_pts, shown, length)
      BY <3>1
    <3>3. VideoStream \in Nat
      BY DEF VideoStream
    <3>4. QED
      BY <2>2, <3>2, <3>3 DEF MuxNext
  <2>6. CASE SoundOut
    <3>1. WriteFrame(AudioStream, sink.audio_pts, ChunkSound,
              2 * Len(ChunkSound))
      BY <2>6 DEF SoundOut
    <3>2. ChunkSound \in Seq(Sample)
      BY <2>6, ChunkSoundSeq DEF SoundOut, Placed
    <3>3. 2 * Len(ChunkSound) \in Nat
      BY <3>2
    <3>4. AudioStream \in Nat
      BY DEF AudioStream
    <3>5. QED
      BY <2>2, <3>1, <3>3, <3>4 DEF MuxNext
  <2>7. QED
    BY <2>1, <2>3, <2>4, <2>5, <2>6 DEF StreamStep
<1>3. QED
  BY <1>1, <1>2, PlacedInit, PlacedNext, PTL DEF Spec, MuxSpec

\* Whatever movie is transcoded with whatever options, a reader that lands
\* anywhere in the stream finds its way.
THEOREM StreamSeekable == Spec => []Resync
  BY TranscodeMuxes, SeekableAnywhere, PTL

-----------------------------------------------------------------------------
\* The clocks count what is written.

\* Headers and syncpoints are no frames.
LEMMA ChosenNone ==
  ASSUME NEW S, NEW f \in Seq(S), NEW have, NEW pictures,
         \A i \in 1 .. Len(f) : f[i].kind # "frame"
  PROVE  Chosen(f, have, pictures) = <<>>
<1> DEFINE g == [i \in 0 .. Len(f) |-> <<>>]
<1>1. Len(f) \in Nat /\ <<>> \in Seq(S)
  OBVIOUS
<1>2. g \in [0 .. Len(f) -> Seq(S)] /\ g[0] = <<>> /\ g[Len(f)] = <<>>
  BY <1>1
<1>3. \A i \in 1 .. Len(f) : g[i] = <<>> /\ g[i - 1] = <<>>
  BY <1>1
<1>4. \A i \in 1 .. Len(f) : ~ Mine(f[i], have, pictures)
  BY DEF Mine
<1> HIDE DEF g
<1>5. Collects(g, f, S, have, pictures)
  BY <1>2, <1>3, <1>4 DEF Collects
<1>6. QED
  BY <1>2, <1>5, ChosenCollects

PictureClock(V, now) ==
  /\ IsSequence(V)
  /\ now = Len(V)
  /\ \A n \in DOMAIN V : V[n].pts = n - 1

\* The clock of the pictures survives a frame.
LEMMA PictureAppend ==
  ASSUME NEW V, NEW now, PictureClock(V, now), NEW x, x.pts = now
  PROVE  PictureClock(Append(V, x), now + 1)
<1>1. PICK S : V \in Seq(S)
  BY DEF PictureClock, IsSequence
<1> DEFINE W == Append(V, x)
           k == Len(V)
<1>2. V \in Seq(S \cup {x}) /\ x \in S \cup {x}
  BY <1>1
<1>3. /\ W \in Seq(S \cup {x}) /\ Len(W) = k + 1 /\ W[k + 1] = x
      /\ \A i \in 1 .. k : W[i] = V[i]
  BY <1>2, AppendProperties
<1>4. k \in Nat /\ DOMAIN V = 1 .. k /\ DOMAIN W = 1 .. k + 1 /\ now = k
  BY <1>2, <1>3 DEF PictureClock
<1> HIDE DEF W, k
<1>5. \A n \in 1 .. k + 1 : W[n].pts = n - 1
  <2>1. SUFFICES ASSUME NEW n \in 1 .. k + 1 PROVE W[n].pts = n - 1
    OBVIOUS
  <2>2. CASE n = k + 1
    BY <1>3, <1>4, <2>2
  <2>3. CASE n # k + 1
    <3>1. n \in 1 .. k
      BY <1>4, <2>3
    <3>2. QED
      BY <1>3, <1>4, <3>1 DEF PictureClock
  <2>4. QED
    BY <2>2, <2>3
<1>6. IsSequence(W)
  BY <1>3 DEF IsSequence
<1>7. PictureClock(W, now + 1)
  BY <1>3, <1>4, <1>5, <1>6 DEF PictureClock
<1>8. QED
  BY <1>7 DEF W

Ticks(f, have, C, clocks) ==
  /\ IsSequence(f)
  /\ PictureClock(Chosen(f, have, TRUE), clocks.video_pts)
  /\ SoundClock(Chosen(f, have, FALSE), C, clocks.audio_pts)

\* Both clocks are right when nothing is written,
LEMMA ClocksStart ==
  ASSUME NEW C \in Nat \ {0}
  PROVE  PictureClock(<<>>, 0) /\ SoundClock(<<>>, C, 0)
<1>1. /\ <<>> \in Seq(Sample) /\ Len(<<>>) = 0 /\ DOMAIN <<>> = {}
  OBVIOUS
<1>2. IsSequence(<<>>)
  BY <1>1 DEF IsSequence
<1>3. Data(<<>>) = <<>>
  BY <1>1 DEF Data
<1>4. Len(FlattenSeq(Data(<<>>))) = 0
  BY <1>1, <1>3, FlattenNothing
<1>5. Lags(0, 0, 1, C) /\ Exact(0, 0, C)
  BY DEF Lags, Exact
<1>6. PictureClock(<<>>, 0)
  BY <1>1, <1>2 DEF PictureClock
<1>7. SoundClock(<<>>, C, 0)
  <2>1. Len(<<>>) + 1 = 1
    BY <1>1
  <2>2. QED
    BY <1>1, <1>2, <1>4, <1>5, <2>1 DEF SoundClock
<1>8. QED
  BY <1>6, <1>7

\* and when nothing but headers is.
LEMMA TicksStart ==
  ASSUME NEW S, NEW f \in Seq(S), \A i \in 1 .. Len(f) : f[i].kind # "frame",
         NEW have, NEW C \in Nat \ {0},
         NEW clocks, clocks = [video_pts |-> 0, audio_pts |-> 0]
  PROVE  Ticks(f, have, C, clocks)
<1>1. Chosen(f, have, TRUE) = <<>> /\ Chosen(f, have, FALSE) = <<>>
  BY ChosenNone
<1>2. IsSequence(f)
  BY DEF IsSequence
<1>3. PictureClock(<<>>, 0) /\ SoundClock(<<>>, C, 0)
  BY ClocksStart
<1>4. clocks.video_pts = 0 /\ clocks.audio_pts = 0
  OBVIOUS
<1>5. QED
  BY <1>1, <1>2, <1>3, <1>4 DEF Ticks

\* A frame written is the last of its stream; a syncpoint is of neither.
Wrote(f, e, frame) ==
  \A have, pictures :
    Chosen(e, have, pictures) =
      IF Mine(frame, have, pictures)
              THEN Append(Chosen(f, have, pictures), frame)
      ELSE Chosen(f, have, pictures)

\* WriteFrame puts one frame behind the file, a syncpoint before it or not,
\* and so adds that frame to what is chosen of its stream.
LEMMA FrameWritten ==
  ASSUME NEW stream, NEW pts, NEW d, NEW length, IsSequence(file),
         WriteFrame(stream, pts, d, length)
  PROVE  /\ IsSequence(file')
         /\ \E frame : /\ frame.kind = "frame" /\ frame.stream = stream
                       /\ frame.pts = pts /\ frame.data = d
                       /\ Wrote(file, file', frame)
<1>1. PICK S : file \in Seq(S)
  BY DEF IsSequence
<1>2. PICK sync, frame :
        /\ frame.kind = "frame" /\ frame.stream = stream
        /\ frame.pts = pts /\ frame.data = d
        /\ sync.kind = "syncpoint"
        /\ file' = file \o (IF SyncDue THEN <<sync, frame>> ELSE <<frame>>)
  <2> DEFINE framePos == IF SyncDue THEN file_pos + SyncLen(stream, pts)
            ELSE file_pos
             frame0 == FramePacket(framePos, FrameLen(stream, pts, length),
                                   stream, pts, d)
             sync0 == SyncPacket(file_pos, SyncLen(stream, pts), stream, pts,
                                 BackPointer)
  <2>1. file' = file \o (IF SyncDue THEN <<sync0, frame0>> ELSE <<frame0>>)
    BY DEF WriteFrame
  <2>2. /\ frame0.kind = "frame" /\ frame0.stream = stream
        /\ frame0.pts = pts /\ frame0.data = d
        /\ sync0.kind = "syncpoint"
    BY DEF FramePacket, SyncPacket
  <2> HIDE DEF frame0, sync0
  <2>3. QED
    BY <2>1, <2>2
<1> DEFINE T == S \cup {sync, frame}
<1>3. file \in Seq(T) /\ sync \in T /\ frame \in T
  BY <1>1
<1> HIDE DEF T
<1>4. Append(file, frame) \in Seq(T) /\ Append(file, sync) \in Seq(T)
      /\ Append(Append(file, sync), frame) \in Seq(T)
  BY <1>3
<1>5. file' = IF SyncDue THEN Append(Append(file, sync), frame)
              ELSE Append(file, frame)
  <2>1. file \o <<frame>> = Append(file, frame)
    BY <1>3, AppendIsConcat
  <2>2. file \o <<sync, frame>> = Append(Append(file, sync), frame)
    BY <1>3
  <2>3. QED
    BY <1>2, <2>1, <2>2
<1>6. \A have, pictures : ~ Mine(sync, have, pictures)
  BY <1>2 DEF Mine
<1>7. ASSUME NEW have, NEW pictures
      PROVE  Chosen(file', have, pictures) =
               IF Mine(frame, have, pictures)
                       THEN Append(Chosen(file, have, pictures), frame)
               ELSE Chosen(file, have, pictures)
  <2>1. Chosen(Append(file, frame), have, pictures) =
          IF Mine(frame, have, pictures)
                  THEN Append(Chosen(file, have, pictures), frame)
          ELSE Chosen(file, have, pictures)
    BY <1>3, ChosenAppend
  <2>2. Chosen(Append(file, sync), have, pictures)
            = Chosen(file, have, pictures)
    BY <1>3, <1>6, ChosenAppend
  <2> DEFINE half == Append(file, sync)
  <2>3. half \in Seq(T)
    BY <1>4
  <2> HIDE DEF half
  <2>4. Chosen(Append(half, frame), have, pictures) =
          IF Mine(frame, have, pictures)
                  THEN Append(Chosen(half, have, pictures), frame)
          ELSE Chosen(half, have, pictures)
    BY <1>3, <2>3, ChosenAppend
  <2>5. QED
    BY <1>5, <2>1, <2>2, <2>4 DEF half
<1>8. Wrote(file, file', frame)
  BY <1>7 DEF Wrote
<1>9. file' \in Seq(T)
  BY <1>4, <1>5
<1>10. QED
  BY <1>2, <1>8, <1>9 DEF IsSequence

Counted == Ticks(file, HaveVideo, SinkChannels, sink)

\* Before the stream is open nothing is counted.
LEMMA CountedAtOnce ==
  ASSUME Placed, at \in {"main", "open"}
  PROVE  Counted
<1>1. file = <<>> /\ sink = [video_pts |-> 0, audio_pts |-> 0]
          /\ movie \in Movies
  BY DEF Placed
<1>2. file \in Seq({}) /\ \A i \in 1 .. Len(file) : file[i].kind # "frame"
  BY <1>1
<1>3. SinkChannels \in Nat \ {0}
  BY <1>1, ChannelsPositive
<1> HIDE DEF SinkChannels, HaveVideo
<1>4. QED
  BY <1>1, <1>2, <1>3, TicksStart DEF Counted

\* The clocks stay right over a picture,
LEMMA CountedPicture ==
  ASSUME Placed, Counted, PictureOut
  PROVE  Ticks(file', HaveVideo, SinkChannels, sink')
<1>1. PICK shown : \E length \in Nat :
        WriteFrame(VideoStream, sink.video_pts, shown, length)
  BY DEF PictureOut
<1>2. PICK length \in Nat :
          WriteFrame(VideoStream, sink.video_pts, shown, length)
  BY <1>1
<1>3. IsSequence(file)
  BY DEF Counted, Ticks
<1>4. /\ IsSequence(file')
      /\ \E frame : /\ frame.kind = "frame" /\ frame.stream = VideoStream
                    /\ frame.pts = sink.video_pts /\ frame.data = shown
                    /\ Wrote(file, file', frame)
  BY <1>2, <1>3, FrameWritten
<1>5. PICK frame : /\ frame.kind = "frame" /\ frame.stream = VideoStream
                   /\ frame.pts = sink.video_pts
                   /\ Wrote(file, file', frame)
  BY <1>4
<1>6. HaveVideo /\ sink' = [sink EXCEPT !.video_pts = @ + 1]
      /\ sink \in [video_pts : Nat, audio_pts : Nat]
  BY DEF PictureOut, Placed
<1>7. sink'.video_pts = sink.video_pts + 1 /\ sink'.audio_pts = sink.audio_pts
  BY <1>6
<1>8. Mine(frame, HaveVideo, TRUE) /\ ~ Mine(frame, HaveVideo, FALSE)
  BY <1>5, <1>6 DEF Mine
<1>9. /\ Chosen(file', HaveVideo, TRUE)
          = Append(Chosen(file, HaveVideo, TRUE), frame)
      /\ Chosen(file', HaveVideo, FALSE) = Chosen(file, HaveVideo, FALSE)
  BY <1>5, <1>8 DEF Wrote
<1>10. PictureClock(Append(Chosen(file, HaveVideo, TRUE), frame),
          sink.video_pts + 1)
  BY <1>5, PictureAppend DEF Counted, Ticks
<1> HIDE DEF HaveVideo, SinkChannels
<1>11. QED
  BY <1>4, <1>7, <1>9, <1>10 DEF Counted, Ticks

\* over a chunk's sound,
LEMMA CountedSound ==
  ASSUME Placed, Counted, SoundOut
  PROVE  Ticks(file', HaveVideo, SinkChannels, sink')
<1>1. WriteFrame(AudioStream, sink.audio_pts, ChunkSound, 2 * Len(ChunkSound))
  BY DEF SoundOut
<1>2. /\ ChunkSound \in Seq(Sample)
      /\ SampleFrames(ChunkSound) = Len(ChunkSound) \div SinkChannels
      /\ SinkChannels \in Nat \ {0}
  BY ChunkSoundSeq, ChannelsPositive DEF SoundOut, Placed
<1> DEFINE pcm == ChunkSound
           C == SinkChannels
           steps == SampleFrames(ChunkSound)
<1>3. sink' = [sink EXCEPT !.audio_pts = @ + steps]
      /\ sink \in [video_pts : Nat, audio_pts : Nat]
  BY DEF SoundOut, Placed
<1> HIDE DEF pcm, steps, C
<1>4. sink'.video_pts = sink.video_pts
          /\ sink'.audio_pts = sink.audio_pts + steps
  BY <1>3
<1>5. IsSequence(file)
  BY DEF Counted, Ticks
<1>6. /\ IsSequence(file')
      /\ \E frame : /\ frame.kind = "frame" /\ frame.stream = AudioStream
                    /\ frame.pts = sink.audio_pts /\ frame.data = pcm
                    /\ Wrote(file, file', frame)
  BY <1>1, <1>5, FrameWritten DEF pcm
<1>7. PICK frame : /\ frame.kind = "frame" /\ frame.stream = AudioStream
                   /\ frame.pts = sink.audio_pts /\ frame.data = pcm
                   /\ Wrote(file, file', frame)
  BY <1>6
<1>8. ~ Mine(frame, HaveVideo, TRUE) /\ Mine(frame, HaveVideo, FALSE)
  BY <1>7 DEF Mine, AudioStream, VideoStream
<1>9. /\ Chosen(file', HaveVideo, TRUE) = Chosen(file, HaveVideo, TRUE)
      /\ Chosen(file', HaveVideo, FALSE)
              = Append(Chosen(file, HaveVideo, FALSE), frame)
  BY <1>7, <1>8 DEF Wrote
<1>10. /\ SoundClock(Chosen(file, HaveVideo, FALSE), C, sink.audio_pts)
       /\ PictureClock(Chosen(file, HaveVideo, TRUE), sink.video_pts)
  BY DEF Counted, Ticks, C
<1>11. C \in Nat \ {0} /\ pcm \in Seq(Sample) /\ steps = Len(pcm) \div C
  BY <1>2 DEF C, pcm, steps
<1> DEFINE A == Chosen(file, HaveVideo, FALSE)
           now == sink.audio_pts
<1>12. SoundClock(A, C, now) /\ frame.pts = now /\ frame.data = pcm
  BY <1>7, <1>10
<1> HIDE DEF A, now
<1>13. SoundClock(Append(A, frame), C, now + Len(frame.data) \div C)
  BY <1>11, <1>12, ClockAppend
<1>14. SoundClock(Append(A, frame), C, sink'.audio_pts)
  BY <1>4, <1>11, <1>12, <1>13 DEF now
<1>15. QED
  BY <1>4, <1>6, <1>9, <1>10, <1>14 DEF Ticks, A, C

\* over the opening,
LEMMA CountedOpened ==
  ASSUME Placed, Opened
  PROVE  Ticks(file', HaveVideo, SinkChannels, sink')
<1>1. PICK streams \in Nat : OpenMux(streams)
  BY DEF Opened
<1> DEFINE S == {HeaderAt(i) : i \in 1 .. streams + 2}
<1>2. file' = [i \in 1 .. streams + 2 |-> HeaderAt(i)]
  BY <1>1 DEF OpenMux
<1>3. file' \in Seq(S)
  BY <1>2
<1>4. \A i \in 1 .. Len(file') : file'[i].kind # "frame"
  <2>1. Len(file') = streams + 2
    BY <1>2
  <2>2. \A i \in 1 .. streams + 2 :
            HeaderAt(i).kind \in {"id", "main", "stream"}
    BY DEF HeaderAt, Packet
  <2>3. QED
    BY <1>2, <2>1, <2>2
<1>5. sink' = [video_pts |-> 0, audio_pts |-> 0]
  BY DEF Opened, Placed
<1>6. SinkChannels \in Nat \ {0}
  BY ChannelsPositive DEF Placed
<1> HIDE DEF S, SinkChannels, HaveVideo
<1>7. QED
  BY <1>3, <1>4, <1>5, <1>6, TicksStart

\* and so over every step.
LEMMA CountedNext ==
  ASSUME Placed, Placed', Counted, [Next]_vars
  PROVE  Counted'
<1>1. StreamStep /\ Steady
  BY NextStreams
<1>2. CASE at = "main"
  <2>1. CASE at' \in {"main", "open"}
    <3>1. file' = <<>> /\ sink' = [video_pts |-> 0, audio_pts |-> 0]
              /\ movie' \in Movies
      BY <2>1 DEF Placed
    <3>2. file' \in Seq({})
              /\ \A i \in 1 .. Len(file') : file'[i].kind # "frame"
      BY <3>1
    <3>3. SinkChannels' \in Nat \ {0}
      BY <3>1, MovieAssumption DEF SinkChannels
    <3> HIDE DEF SinkChannels, HaveVideo
    <3>4. QED
      BY <3>1, <3>2, <3>3, TicksStart DEF Counted
  <2>2. CASE at' \notin {"main", "open"}
    <3>1. audio' = audio
      BY <1>2, <2>2 DEF Next, Step, Decide, Refuse, Nothing, DieIf, Exit,
         OpenNut, WriteWav, StartVideo, EmitSound, SkipChunk, EnterChunk,
         EnterModuleChunk, EnterWrappedChunk, UnwrapFrame, LoadUnwrapped,
         ShowFrame, PassFrame, Esc122Frame, Esc130Frame, Esc100Frame,
         Esc124Frame, TcaFrame, Type23Frame, ModuleFrame, ModuleShort,
         EndChunk, EndFilm, Die, Close, Fail, vars
    <3>2. Silent
      BY <1>1, <1>2 DEF StreamStep, Opened, PictureOut, SoundOut
    <3>3. SinkChannels' = SinkChannels /\ HaveVideo' = HaveVideo
      BY <1>1, <3>1, Unchanging DEF SinkChannels
    <3>4. file' = file /\ sink' = sink
      BY <3>2 DEF Silent, muxVars
    <3> HIDE DEF SinkChannels, HaveVideo
    <3>5. QED
      BY <3>3, <3>4 DEF Counted
  <2>3. QED
    BY <2>1, <2>2
<1>3. CASE at # "main"
  <2>1. HaveVideo' = HaveVideo /\ SinkChannels' = SinkChannels
    BY <1>1, <1>3, Unchanging DEF SinkChannels
  <2>2. Ticks(file', HaveVideo, SinkChannels, sink')
    <3>1. CASE Silent
      <4>1. file' = file /\ sink' = sink
        BY <3>1 DEF Silent, muxVars
      <4> HIDE DEF SinkChannels, HaveVideo
      <4>2. QED
        BY <4>1 DEF Counted
    <3>2. CASE Opened
      BY <3>2, CountedOpened
    <3>3. CASE PictureOut
      BY <3>3, CountedPicture
    <3>4. CASE SoundOut
      BY <3>4, CountedSound
    <3>5. QED
      BY <1>1, <3>1, <3>2, <3>3, <3>4 DEF StreamStep
  <2> HIDE DEF SinkChannels, HaveVideo
  <2>3. QED
    BY <2>1, <2>2 DEF Counted
<1>4. QED
  BY <1>2, <1>3

\* Counted is the property, told of the chosen frames.
LEMMA CountedClocks ==
  ASSUME Placed, Counted
  PROVE  Clocks
<1> DEFINE V == VideoFrames
           A == AudioFrames
           C == SinkChannels
<1>1. V = Chosen(file, HaveVideo, TRUE) /\ A = Chosen(file, HaveVideo, FALSE)
  BY WrittenIsChosen DEF VideoFrames, AudioFrames
<1>2. PictureClock(V, sink.video_pts) /\ SoundClock(A, C, sink.audio_pts)
  BY <1>1 DEF Counted, Ticks
<1>3. \A n \in DOMAIN VideoFrames : VideoFrames[n].pts = n - 1
  BY <1>2 DEF PictureClock
<1>4. WholeSampleFrames <=> Uncut(A, C)
  BY DEF WholeSampleFrames, Uncut
<1>5. \A n : SamplesBefore(n) = Ahead(A, n)
  BY DEF SamplesBefore, Ahead
<1> HIDE DEF SinkChannels
<1>6. \A n \in DOMAIN AudioFrames :
        /\ Lags(AudioFrames[n].pts, SamplesBefore(n), n, SinkChannels)
        /\ WholeSampleFrames
                => Exact(AudioFrames[n].pts, SamplesBefore(n), SinkChannels)
  BY <1>2, <1>4, <1>5 DEF SoundClock
<1> HIDE DEF A, C, V
<1>7. QED
  BY <1>3, <1>6 DEF Clocks, Lags, Exact

\* The pts of a packet is what was written of its stream before it, whatever
\* the movie and however its sound was cut: sink_video_frame and
\* sink_chunk_audio count what they write.
THEOREM ClocksCount == Spec => []Clocks
<1>1. Init => Placed /\ Counted
  <2> SUFFICES ASSUME Init PROVE Placed /\ Counted
    OBVIOUS
  <2>1. Placed /\ at = "main"
    BY PlacedInit DEF Init
  <2>2. QED
    BY <2>1, CountedAtOnce
<1>2. Placed /\ Counted /\ [Next]_vars => Placed' /\ Counted'
  BY PlacedNext, CountedNext
<1>3. Placed /\ Counted => Clocks
  BY CountedClocks
<1>4. QED
  BY <1>1, <1>2, <1>3, PTL DEF Spec

-----------------------------------------------------------------------------
\* The sound is whole.

\* The sound in the stream.
Muxed == FlattenSeq(Data(Chosen(file, HaveVideo, FALSE)))

\* How many chunks' sound has been written, told by where the program is.
Emitted(n) ==
  /\ n \in 0 .. Chunks
  /\ at \in {"main", "open", "video"} => n = 0
  /\ at = "sound" => n = chunk - 1
  /\ at \in {"chunk", "unwrap"} => n = chunk /\ Route # "type23"
  /\ at = "frames" => n = IF Route = "type23" THEN Chunks ELSE chunk
  /\ at = "close" => n = Chunks
  /\ at = "done" /\ status = "exit 0" => n = Chunks

Running == at # "done" => status = "running"

StreamSound ==
  options.nut /\ DoAudio =>
    \E n \in Nat : Emitted(n) /\ Muxed = SoFar(movie, audio, n)

TrackWritten ==
  at \in {"video", "sound", "chunk", "unwrap", "frames", "close"}
    \/ status = "exit 0"

WavSound ==
  ~ options.nut /\ DoAudio /\ TrackWritten
          => wav.pcm = DecodeAudio(movie, audio)

SoundKept == Running /\ StreamSound /\ WavSound

\* What is no sound leaves the sound in the stream as it was.
LEMMA MuxedSame ==
  ASSUME Placed, Counted, Steady, Silent \/ Opened \/ PictureOut
  PROVE  Muxed' = Muxed
<1>1. HaveVideo' = HaveVideo
  BY Unchanging
<1>2. CASE Silent
  <2>1. file' = file
    BY <1>2 DEF Silent, muxVars
  <2> HIDE DEF HaveVideo
  <2>2. QED
    BY <1>1, <2>1 DEF Muxed
<1>3. CASE Opened
  <2>1. file = <<>>
    BY <1>3 DEF Opened, Placed
  <2>2. Chosen(file, HaveVideo, FALSE) = <<>>
    <3>1. file \in Seq({}) /\ \A i \in 1 .. Len(file) : file[i].kind # "frame"
      BY <2>1
    <3>2. QED
      BY <3>1, ChosenNone
  <2>3. PICK streams \in Nat : OpenMux(streams)
    BY <1>3 DEF Opened
  <2> DEFINE S == {HeaderAt(i) : i \in 1 .. streams + 2}
  <2>4. file' = [i \in 1 .. streams + 2 |-> HeaderAt(i)]
    BY <2>3 DEF OpenMux
  <2>5. file' \in Seq(S) /\ Len(file') = streams + 2
    BY <2>4
  <2>6. \A i \in 1 .. streams + 2 : HeaderAt(i).kind # "frame"
    BY DEF HeaderAt, Packet
  <2>7. \A i \in 1 .. Len(file') : file'[i].kind # "frame"
    BY <2>4, <2>5, <2>6
  <2> HIDE DEF S, HaveVideo
  <2>8. Chosen(file', HaveVideo, FALSE) = <<>>
    BY <2>5, <2>7, ChosenNone
  <2>9. QED
    BY <1>1, <2>2, <2>8 DEF Muxed
<1>4. CASE PictureOut
  <2>1. PICK shown : \E length \in Nat :
          WriteFrame(VideoStream, sink.video_pts, shown, length)
    BY <1>4 DEF PictureOut
  <2>2. PICK length \in Nat :
            WriteFrame(VideoStream, sink.video_pts, shown, length)
    BY <2>1
  <2>3. IsSequence(file)
    BY DEF Counted, Ticks
  <2>4. PICK frame : /\ frame.kind = "frame" /\ frame.stream = VideoStream
                     /\ Wrote(file, file', frame)
    BY <2>2, <2>3, FrameWritten
  <2>5. HaveVideo
    BY <1>4 DEF PictureOut
  <2>6. ~ Mine(frame, HaveVideo, FALSE)
    BY <2>4, <2>5 DEF Mine
  <2>7. Chosen(file', HaveVideo, FALSE) = Chosen(file, HaveVideo, FALSE)
    BY <2>4, <2>6 DEF Wrote
  <2> HIDE DEF HaveVideo
  <2>8. QED
    BY <1>1, <2>7 DEF Muxed
<1>5. QED
  BY <1>2, <1>3, <1>4

\* A chunk's sound is put behind it.
LEMMA MuxedMore ==
  ASSUME Placed, Counted, Steady, SoundOut
  PROVE  Muxed' = Muxed \o ChunkSound
<1>1. WriteFrame(AudioStream, sink.audio_pts, ChunkSound, 2 * Len(ChunkSound))
  BY DEF SoundOut
<1>2. ChunkSound \in Seq(Sample)
  BY ChunkSoundSeq DEF SoundOut, Placed
<1> DEFINE pcm == ChunkSound
           A == Chosen(file, HaveVideo, FALSE)
<1>3. IsSequence(file) /\ SoundClock(A, SinkChannels, sink.audio_pts)
  BY DEF Counted, Ticks
<1>4. PICK frame : /\ frame.kind = "frame" /\ frame.stream = AudioStream
                   /\ frame.data = ChunkSound
                   /\ Wrote(file, file', frame)
  BY <1>1, <1>3, FrameWritten
<1>5. Mine(frame, HaveVideo, FALSE)
  BY <1>4 DEF Mine, AudioStream, VideoStream
<1>6. Chosen(file', HaveVideo, FALSE) = Append(A, frame)
  BY <1>4, <1>5 DEF Wrote
<1>7. HaveVideo' = HaveVideo
  BY Unchanging
<1> HIDE DEF A, pcm
<1>8. IsSequence(A) /\ \A n \in DOMAIN A : A[n].data \in Seq(Sample)
  BY <1>3 DEF SoundClock
<1>9. frame.data = pcm /\ pcm \in Seq(Sample)
  BY <1>2, <1>4 DEF pcm
<1>10. FlattenSeq(Data(Append(A, frame))) = FlattenSeq(Data(A)) \o frame.data
  BY <1>8, <1>9, DataAppends
<1> HIDE DEF HaveVideo
<1>11. QED
  BY <1>6, <1>7, <1>9, <1>10 DEF Muxed, A, pcm

\* The film route is type 500's, whose movies have one chunk.
LEMMA FilmIsOneChunk ==
  ASSUME movie \in Movies, Route = "tca"
  PROVE  Chunks = 1
<1>1. Info(movie.video_codec).route = "tca"
  BY DEF Route, video
<1>2. movie.video_codec = 500
  BY <1>1 DEF Info, EscapeRoute
<1>3. QED
  BY <1>2, MovieParts

\* The end of a chunk whose sound was written.
LEMMA EmittedOnward ==
  ASSUME NEW n \in Nat, Emitted(n), NextChunk, chunk \in 1 .. Chunks,
         n = chunk, Chunks' = Chunks, Chunks \in Nat
  PROVE  Emitted(n)'
<1>1. n \in 0 .. Chunks'
  OBVIOUS
<1>2. CASE chunk < Chunks
  <2>1. at' = "sound" /\ chunk' = chunk + 1
    BY <1>2 DEF NextChunk
  <2>2. n = chunk' - 1
    BY <2>1
  <2>3. QED
    BY <1>1, <2>1, <2>2 DEF Emitted
<1>3. CASE ~ (chunk < Chunks)
  <2>1. at' = "close"
    BY <1>3 DEF NextChunk
  <2>2. n = Chunks'
    BY <1>3
  <2>3. QED
    BY <1>1, <2>1, <2>2 DEF Emitted
<1>4. QED
  BY <1>2, <1>3

\* Only EmitSound changes the number, the other steps move on with it.
LEMMA EmittedKept ==
  ASSUME NEW n \in Nat, Emitted(n), Placed, Step, ~ EmitSound,
         at # "main", options.nut, Running
  PROVE  Emitted(n)'
<1>1. Steady
  BY StepStreams
<1>2. Chunks' = Chunks /\ Route' = Route
  BY <1>1, Unchanging
<1>3. Chunks \in Nat \ {0} /\ n \in 0 .. Chunks
  BY MovieParts DEF Placed, Emitted
<1>4. at \in {"sound", "chunk", "unwrap", "frames"} => chunk \in 1 .. Chunks
  BY DEF Placed
<1>5. ASSUME NEW code, Exit(code), code = "exit 0" => at = "close"
      PROVE  Emitted(n)'
  BY <1>2, <1>3, <1>5 DEF Exit, Emitted
<1>6. ~ Decide /\ ~ Refuse /\ ~ Nothing /\ ~ WriteWav
  BY DEF Decide, Refuse, Nothing, WriteWav
<1>7. CASE OpenNut
  BY <1>2, <1>3, <1>7 DEF OpenNut, Emitted
<1>8. CASE StartVideo
  BY <1>2, <1>3, <1>8 DEF StartVideo, Emitted, Placed
<1>9. CASE SkipChunk
  BY <1>2, <1>3, <1>4, <1>9, EmittedOnward DEF SkipChunk, Emitted
<1>10. CASE EnterChunk
  BY <1>2, <1>3, <1>10 DEF EnterChunk, Emitted
<1>11. CASE EnterModuleChunk
  BY <1>2, <1>3, <1>11 DEF EnterModuleChunk, Emitted
<1>12. CASE EnterWrappedChunk
  BY <1>2, <1>3, <1>12 DEF EnterWrappedChunk, Emitted
<1>13. CASE UnwrapFrame
  BY <1>2, <1>3, <1>13 DEF UnwrapFrame, Emitted
<1>14. CASE LoadUnwrapped
  BY <1>2, <1>3, <1>14 DEF LoadUnwrapped, Emitted
<1>15. CASE ShowFrame
  <2>1. at = "frames" /\ at' = at /\ chunk' = chunk
    BY <1>15 DEF ShowFrame, PassFrame, Esc122Frame, Esc130Frame, Esc100Frame,
       Esc124Frame, TcaFrame, Type23Frame, ModuleFrame, Show, OtherThanWalk
  <2>2. QED
    BY <1>2, <2>1 DEF Emitted
<1>16. CASE ModuleShort
  <2>1. at = "frames" /\ Route = "module" /\ NextChunk
    BY <1>16 DEF ModuleShort
  <2>2. n = chunk
    BY <2>1 DEF Emitted
  <2>3. QED
    BY <1>2, <1>3, <1>4, <2>1, <2>2, EmittedOnward
<1>17. CASE EndChunk
  <2>1. at = "frames" /\ Route # "type23" /\ NextChunk
    BY <1>17 DEF EndChunk, Walked
  <2>2. n = chunk
    BY <2>1 DEF Emitted
  <2>3. QED
    BY <1>2, <1>3, <1>4, <2>1, <2>2, EmittedOnward
<1>18. CASE EndFilm
  <2>1. at = "frames" /\ at' = "close" /\ Route \in {"tca", "type23"}
    BY <1>18 DEF EndFilm, FilmOver
  <2>2. n = Chunks
    BY <1>4, <2>1, FilmIsOneChunk DEF Emitted, Placed
  <2>3. QED
    BY <1>2, <1>3, <2>1, <2>2 DEF Emitted
<1>19. CASE Die
  <2>1. Exit("exit 1")
    BY <1>19 DEF Die, DieIf
  <2>2. QED
    BY <1>5, <2>1
<1>20. CASE Close
  BY <1>5, <1>20 DEF Close
<1>21. QED
  BY <1>6, <1>7, <1>8, <1>9, <1>10, <1>11, <1>12, <1>13, <1>14, <1>15, <1>16,
     <1>17, <1>18, <1>19, <1>20 DEF Step

\* EmitSound adds the chunk at hand.
LEMMA EmittedMore ==
  ASSUME NEW n \in Nat, Emitted(n), Placed, EmitSound, NEW k, k = chunk
  PROVE  k \in 1 .. Chunks /\ n = k - 1 /\ Emitted(k)'
<1>1. Steady
  BY StepStreams DEF Step
<1>2. Chunks' = Chunks /\ Route' = Route
  BY <1>1, Unchanging
<1>3. Chunks \in Nat \ {0} /\ at = "sound" /\ chunk \in 1 .. Chunks
  BY MovieParts DEF Placed, EmitSound
<1>4. n = k - 1
  BY <1>3 DEF Emitted
<1>5. AfterSound
  BY DEF EmitSound
<1>6. k \in 0 .. Chunks' /\ k \in Nat
  BY <1>2, <1>3
<1>7. SUFFICES Emitted(k)'
  BY <1>3, <1>4
<1>8. CASE Route \in UpFront /\ chunk < Chunks
  <2>1. at' = "sound" /\ chunk' = chunk + 1
    BY <1>5, <1>8 DEF AfterSound
  <2>2. k = chunk' - 1
    BY <1>6, <2>1
  <2>3. QED
    BY <1>6, <2>1, <2>2 DEF Emitted
<1>9. CASE ~ (Route \in UpFront /\ chunk < Chunks)
  <2>1. Route \in UpFront => chunk = Chunks
    BY <1>3, <1>9
  <2>2. CASE Route \in {"sound", "type23"}
    <3>1. at' = (IF Route = "sound" THEN "close" ELSE "frames") /\ k = Chunks'
      BY <1>2, <1>5, <1>9, <2>1, <2>2 DEF AfterSound, UpFront
    <3>2. QED
      BY <1>2, <1>6, <2>2, <3>1 DEF Emitted
  <2>3. CASE Route \notin {"sound", "type23"}
    <3>1. at' = (IF Route = "tca" THEN "frames" ELSE "chunk") /\ chunk' = chunk
      BY <1>5, <1>9, <2>3 DEF AfterSound
    <3>2. QED
      BY <1>2, <1>6, <2>3, <3>1 DEF Emitted
  <2>4. QED
    BY <2>2, <2>3
<1>10. QED
  BY <1>8, <1>9

\* Where sound is written, another step can only give up.
LEMMA OnlyEmitSounds ==
  ASSUME Step, ~ EmitSound, at = "sound"
  PROVE  Exit("exit 1")
BY DEF Step, Decide, Refuse, Nothing, OpenNut, WriteWav, StartVideo, SkipChunk,
   EnterChunk, EnterModuleChunk, EnterWrappedChunk, UnwrapFrame, LoadUnwrapped,
   ShowFrame, PassFrame, Esc122Frame, Esc130Frame, Esc100Frame, Esc124Frame,
   TcaFrame, Type23Frame, ModuleFrame, ModuleShort, EndChunk, EndFilm, Close,
   Die, DieIf

\* A step that is not the exit leaves the program running.
LEMMA RunningStep ==
  ASSUME Step, Running
  PROVE  Running'
<1>1. ASSUME NEW code, Exit(code) PROVE Running'
  BY <1>1 DEF Exit, Running
<1>2. CASE Refuse \/ Nothing \/ Close \/ Die
  BY <1>1, <1>2 DEF Refuse, Nothing, Close, Die, DieIf
<1>3. CASE ~ (Refuse \/ Nothing \/ Close \/ Die)
  <2>1. at # "done" /\ status' = status
    BY <1>3 DEF Step, Decide, OpenNut, WriteWav, StartVideo, EmitSound,
       SkipChunk, EnterChunk, EnterModuleChunk, EnterWrappedChunk,
       UnwrapFrame, LoadUnwrapped, ShowFrame, PassFrame, Esc122Frame,
       Esc130Frame, Esc100Frame, Esc124Frame, TcaFrame, Type23Frame,
       ModuleFrame, Show, OtherThanWalk, ModuleShort, EndChunk, EndFilm
  <2>2. QED
    BY <2>1 DEF Running
<1>4. QED
  BY <1>2, <1>3

\* Only WriteWav writes the track.
LEMMA WavStep ==
  ASSUME Placed, Step, Running, WavSound, movie' = movie, options' = options,
         at # "main" => audio' = audio
  PROVE  WavSound'
<1>1. CASE WriteWav
  <2>1. SUFFICES ASSUME DoAudio'
                 PROVE  wav'.pcm = DecodeAudio(movie', audio')
    BY DEF WavSound
  <2>2. DoAudio /\ audio' = audio
    BY <1>1, <2>1 DEF WriteWav, DoAudio
  <2>3. wav' = [written |-> TRUE,
                pcm |-> DecodeAudio(movie, audio),
                channels |-> IF movie.sound.channels = 0 THEN 1
                             ELSE movie.sound.channels]
    BY <1>1, <2>2 DEF WriteWav
  <2>4. wav'.pcm = DecodeAudio(movie, audio)
    BY <2>3
  <2>5. QED
    BY <2>2, <2>4
<1>2. CASE at = "main"
  <2>1. CASE Decide
    BY <2>1 DEF Decide, Running, WavSound, TrackWritten
  <2>2. CASE ~ Decide
    <3>1. at = "main" /\ (Refuse \/ Nothing)
      BY <1>2, <2>2 DEF Step, OpenNut, WriteWav, StartVideo, EmitSound,
         SkipChunk, EnterChunk, EnterModuleChunk, EnterWrappedChunk,
         UnwrapFrame, LoadUnwrapped, ShowFrame, PassFrame, Esc122Frame,
         Esc130Frame, Esc100Frame, Esc124Frame, TcaFrame, Type23Frame,
         ModuleFrame, ModuleShort, EndChunk, EndFilm, Die, Close
    <3>2. audio' = "none"
      BY <3>1 DEF Refuse, Nothing, DieIf, Exit, Placed
    <3>3. QED
      BY <3>2 DEF WavSound, DoAudio, CanDecode
  <2>3. QED
    BY <2>1, <2>2
<1>3. CASE ~ WriteWav /\ at # "main"
  <2>1. audio' = audio /\ wav' = wav
    BY <1>3 DEF Step, Decide, Refuse, Nothing, OpenNut, StartVideo, EmitSound,
       SkipChunk, EnterChunk, EnterModuleChunk, EnterWrappedChunk,
       UnwrapFrame, LoadUnwrapped, ShowFrame, PassFrame, Esc122Frame,
       Esc130Frame, Esc100Frame, Esc124Frame, TcaFrame, Type23Frame,
       ModuleFrame, Show, OtherThanWalk, ModuleShort, EndChunk, EndFilm, Die,
       DieIf, Exit, Close
  <2>2. ~ options.nut /\ TrackWritten' => TrackWritten
    BY <1>3 DEF TrackWritten, Running, Step, Decide, Refuse, Nothing, OpenNut,
       StartVideo, EmitSound, SkipChunk, EnterChunk, EnterModuleChunk,
       EnterWrappedChunk, UnwrapFrame, LoadUnwrapped, ShowFrame, PassFrame,
       Esc122Frame, Esc130Frame, Esc100Frame, Esc124Frame, TcaFrame,
       Type23Frame, ModuleFrame, Show, OtherThanWalk, ModuleShort, EndChunk,
       EndFilm, Die, DieIf, Exit, Close
  <2>3. QED
    BY <2>1, <2>2 DEF WavSound, DoAudio
<1>4. QED
  BY <1>1, <1>2, <1>3

\* With the number of chunks goes the sound of these chunks.
LEMMA StreamSoundStep ==
  ASSUME Placed, Counted, Step, Running, StreamSound
  PROVE  StreamSound'
<1>1. StreamStep /\ Steady
  BY StepStreams
<1>2. SoundFields(movie) /\ Len(movie.sounds) = Chunks /\ Chunks \in Nat \ {0}
  BY MovieParts DEF Placed, SoundFields
<1>3. movie' = movie /\ options' = options /\ Chunks' = Chunks
      /\ (at # "main" => audio' = audio)
  BY <1>1, Unchanging
<1>4. SUFFICES ASSUME options.nut, DoAudio'
               PROVE  \E n \in Nat : Emitted(n)'
                       /\ Muxed' = SoFar(movie', audio', n)
  BY <1>3 DEF StreamSound
<1>5. CASE at = "main"
  <2>1. CASE Decide
    <3>1. at = "main" /\ at' = "open" /\ file' = file /\ file = <<>>
      BY <2>1 DEF Decide, outVars, muxVars, Placed
    <3>2. Emitted(0)'
      BY <1>2, <1>3, <3>1 DEF Emitted
    <3>3. SoundFields(movie')
      BY <1>2, <1>3
    <3>4. SoFar(movie', audio', 0) = <<>>
      BY <3>3, SoFarGrows
    <3>5. Muxed' = <<>>
      <4>1. file' \in Seq({})
                /\ \A i \in 1 .. Len(file') : file'[i].kind # "frame"
        BY <3>1
      <4> HIDE DEF HaveVideo
      <4>2. Chosen(file', HaveVideo', FALSE) = <<>>
        BY <4>1, ChosenNone
      <4>3. Data(<<>>) = <<>>
        BY DEF Data
      <4>4. QED
        BY <4>2, <4>3, FlattenNothing DEF Muxed
    <3>6. QED
      BY <3>2, <3>4, <3>5
  <2>2. CASE ~ Decide
    <3>1. Refuse \/ Nothing \/ Die
      BY <1>5, <2>2 DEF Step, OpenNut, WriteWav, StartVideo, EmitSound,
         SkipChunk,
         EnterChunk, EnterModuleChunk, EnterWrappedChunk, UnwrapFrame,
         LoadUnwrapped, ShowFrame, PassFrame, Esc122Frame, Esc130Frame,
         Esc100Frame, Esc124Frame, TcaFrame, Type23Frame, ModuleFrame,
         ModuleShort, EndChunk, EndFilm, Close
    <3>2. audio' = audio
      BY <3>1 DEF Refuse, Nothing, Die, DieIf, Exit
    <3>3. audio' = "none"
      BY <1>5, <3>2 DEF Placed
    <3>4. QED
      BY <1>4, <3>3 DEF DoAudio, CanDecode
  <2>3. QED
    BY <2>1, <2>2
<1>6. CASE at # "main"
  <2>1. audio' = audio /\ DoAudio
    BY <1>3, <1>4, <1>6 DEF DoAudio
  <2>2. PICK n \in Nat : Emitted(n) /\ Muxed = SoFar(movie, audio, n)
    BY <1>4, <2>1 DEF StreamSound
  <2>3. CASE ~ EmitSound
    <3>1. Emitted(n)'
      BY <1>4, <1>6, <2>2, <2>3, EmittedKept
    <3>2. Silent \/ Opened \/ PictureOut
      <4>1. CASE at # "sound"
        BY <1>1, <4>1 DEF StreamStep, SoundOut
      <4>2. CASE at = "sound"
        BY <2>3, <4>2, OnlyEmitSounds DEF Exit, Silent, outVars
      <4>3. QED
        BY <4>1, <4>2
    <3>3. Muxed' = Muxed
      BY <1>1, <3>2, MuxedSame
    <3>4. QED
      BY <1>3, <2>1, <2>2, <3>1, <3>3
  <2>4. CASE EmitSound
    <3>1. PICK k : k = chunk
      OBVIOUS
    <3>2. k \in 1 .. Chunks /\ n = k - 1 /\ Emitted(k)'
      BY <2>2, <2>4, <3>1, EmittedMore
    <3>3. ChunkSound = Part(movie, audio, k) /\ ChunkSound \in Seq(Sample)
      BY <3>1, <3>2, ChunkSoundSeq DEF Placed
    <3>4. SoFar(movie, audio, k) = Muxed \o ChunkSound /\ Muxed \in Seq(Sample)
      <4>1. k \in 1 .. Len(movie.sounds) /\ k - 1 \in 0 .. Len(movie.sounds)
        BY <1>2, <3>2
      <4>2. SoFar(movie, audio, k)
              = SoFar(movie, audio, k - 1) \o Part(movie, audio, k)
            /\ SoFar(movie, audio, k - 1) \in Seq(Sample)
        BY <1>2, <4>1, SoFarGrows
      <4>3. QED
        BY <2>2, <3>2, <3>3, <4>2
    <3>5. Muxed' = Muxed \o ChunkSound
      <4>1. CASE SoundOut
        BY <1>1, <4>1, MuxedMore
      <4>2. CASE ~ SoundOut
        <5>1. Silent
          BY <2>4, <4>2 DEF EmitSound, SinkChunkAudio, SoundOut, Silent, outVars
        <5>2. ChunkSound = <<>>
          BY <1>4, <2>1, <2>4, <4>2 DEF EmitSound, SinkChunkAudio, SoundOut
        <5>3. Muxed' = Muxed
          BY <1>1, <5>1, MuxedSame
        <5>4. QED
          BY <3>4, <5>2, <5>3, ConcatEmptySeq
      <4>3. QED
        BY <4>1, <4>2
    <3>6. k \in Nat
      BY <1>2, <3>2
    <3>7. QED
      BY <1>3, <2>1, <3>2, <3>4, <3>5, <3>6
  <2>5. QED
    BY <2>3, <2>4
<1>7. QED
  BY <1>5, <1>6

\* Every step keeps the sound as SoundKept says.
LEMMA SoundKeptNext ==
  ASSUME Placed, Counted, SoundKept, [Next]_vars
  PROVE  SoundKept'
<1>1. Running /\ StreamSound /\ WavSound /\ Steady
  BY NextStreams DEF SoundKept
<1>2. Chunks' = Chunks /\ movie' = movie /\ options' = options
      /\ (at # "main" => audio' = audio)
  BY <1>1, Unchanging
<1>3. CASE Step
  <2>1. StreamSound'
    BY <1>1, <1>3, StreamSoundStep
  <2>2. Running' /\ WavSound'
    BY <1>1, <1>2, <1>3, RunningStep, WavStep
  <2>3. QED
    BY <2>1, <2>2 DEF SoundKept
<1>4. CASE Fail
  <2>1. at \notin {"main", "done"} /\ Exit("exit 1")
    BY <1>4 DEF Fail
  <2>2. audio' = audio /\ file' = file /\ chunk' = chunk /\ at' = "done"
        /\ status' = "exit 1"
    BY <2>1 DEF Exit, outVars, muxVars
  <2>3. Running' /\ WavSound'
    BY <2>2 DEF Running, WavSound, TrackWritten
  <2>4. StreamSound'
    <3>1. SUFFICES ASSUME options.nut, DoAudio'
                   PROVE  \E n \in Nat : Emitted(n)'
                           /\ Muxed' = SoFar(movie', audio', n)
      BY <1>2 DEF StreamSound
    <3>2. DoAudio
      BY <2>2, <3>1 DEF DoAudio
    <3>3. PICK n \in Nat : Emitted(n) /\ Muxed = SoFar(movie, audio, n)
      BY <1>1, <3>1, <3>2 DEF StreamSound
    <3>4. Emitted(n)'
      BY <1>2, <2>2, <3>3 DEF Emitted
    <3>5. Silent
      BY <2>1 DEF Exit, Silent, outVars
    <3>6. Muxed' = Muxed
      BY <1>1, <3>5, MuxedSame
    <3>7. QED
      BY <1>2, <2>2, <3>3, <3>4, <3>6
  <2>5. QED
    BY <2>3, <2>4 DEF SoundKept
<1>5. CASE UNCHANGED vars
  <2>1. UNCHANGED <<audio, at, chunk, status, wav>> /\ Silent
    BY <1>5 DEF vars, outVars, Silent
  <2>2. Muxed' = Muxed
    BY <1>1, <2>1, MuxedSame
  <2>3. Route' = Route
    BY <1>1, Unchanging
  <2>4. Running' /\ WavSound'
    BY <1>1, <1>2, <2>1 DEF Running, WavSound, TrackWritten, DoAudio
  <2>5. StreamSound'
    BY <1>1, <1>2, <2>1, <2>2, <2>3 DEF StreamSound, Emitted, DoAudio
  <2>6. QED
    BY <2>4, <2>5 DEF SoundKept
<1>6. QED
  BY <1>3, <1>4, <1>5 DEF Next

\* Nothing is promised before main has decided.
LEMMA SoundKeptInit ==
  ASSUME Init
  PROVE  SoundKept
<1>1. at = "main" /\ status = "running" /\ audio = "none"
  BY DEF Init
<1>2. QED
  BY <1>1 DEF SoundKept, Running, StreamSound, WavSound, TrackWritten, DoAudio,
     CanDecode

\* and SoundKept is the property.
LEMMA SoundKeptWhole ==
  ASSUME Placed, Counted, SoundKept
  PROVE  SoundIsWhole
<1>1. SoundFields(movie) /\ Len(movie.sounds) = Chunks /\ Chunks \in Nat
  BY MovieParts DEF Placed, SoundFields
<1>2. Track = FlattenSeq(Parts(movie, audio))
  BY TrackFlattens DEF Placed
<1>3. CASE options.nut
  <2>1. SUFFICES ASSUME DoAudio
                 PROVE  (status = "exit 0" => Muxed = Track)
                         /\ IsPrefix(Muxed, Track)
    <3>1. Heard = Muxed
      <4>1. AudioFrames = Chosen(file, HaveVideo, FALSE)
        BY WrittenIsChosen DEF AudioFrames
      <4> HIDE DEF HaveVideo, AudioFrames
      <4>2. QED
        BY <1>3, <4>1 DEF Heard, Muxed
    <3> HIDE DEF Heard, Track, Muxed
    <3>2. QED
      BY <1>3, <3>1 DEF SoundIsWhole
  <2>2. PICK n \in Nat : Emitted(n) /\ Muxed = SoFar(movie, audio, n)
    BY <1>3, <2>1 DEF SoundKept, StreamSound
  <2>3. n \in 0 .. Len(movie.sounds)
    BY <1>1, <2>2 DEF Emitted
  <2>4. IsPrefix(Muxed, Track)
    BY <1>1, <1>2, <2>2, <2>3, SoFarPrefix
  <2>5. ASSUME status = "exit 0" PROVE Muxed = Track
    <3>1. at = "done"
      BY <2>5 DEF SoundKept, Running
    <3>2. n = Len(movie.sounds)
      BY <1>1, <2>2, <2>5, <3>1 DEF Emitted
    <3>3. QED
      BY <1>1, <1>2, <2>2, <3>2, SoFarGrows
  <2>6. QED
    BY <2>4, <2>5
<1>4. CASE ~ options.nut
  <2>1. ASSUME status = "exit 0", DoAudio PROVE wav.pcm = Track
    <3>1. wav.pcm = DecodeAudio(movie, audio)
      BY <1>4, <2>1 DEF SoundKept, WavSound, TrackWritten
    <3>2. DecodeAudio(movie, audio) = FlattenSeq(Parts(movie, audio))
      BY <1>1, DecodeFlattens
    <3> HIDE DEF Track
    <3>3. QED
      BY <1>2, <3>1, <3>2
  <2>2. Heard = wav.pcm
    BY <1>4 DEF Heard
  <2> HIDE DEF Heard, Track
  <2>3. QED
    BY <1>4, <2>1, <2>2 DEF SoundIsWhole
<1>5. QED
  BY <1>3, <1>4

\* Every route, format, chunking and channel order: what a run that exits 0
\* wrote is every sample of the track once and in order, and a NUT stream cut
\* short anywhere holds a beginning of it: decode_chunk_audio chunk by chunk
\* and decode_audio at once say the same.
THEOREM SoundAlwaysWhole == Spec => []SoundIsWhole
<1>1. Init => Placed /\ Counted /\ SoundKept
  <2> SUFFICES ASSUME Init PROVE Placed /\ Counted /\ SoundKept
    OBVIOUS
  <2>1. Placed /\ at = "main"
    BY PlacedInit DEF Init
  <2>2. QED
    BY <2>1, CountedAtOnce, SoundKeptInit
<1>2. Placed /\ Counted /\ SoundKept /\ [Next]_vars
        => Placed' /\ Counted' /\ SoundKept'
  BY PlacedNext, CountedNext, SoundKeptNext
<1>3. Placed /\ Counted /\ SoundKept => SoundIsWhole
  BY SoundKeptWhole
<1>4. QED
  BY <1>1, <1>2, <1>3, PTL DEF Spec

-----------------------------------------------------------------------------
\* The pictures a movie promises.

\* The first k of a sequence.
LEMMA Beginning ==
  ASSUME NEW S, NEW s \in Seq(S), NEW k \in 0 .. Len(s)
  PROVE  /\ SubSeq(s, 1, k) \in Seq(S) /\ Len(SubSeq(s, 1, k)) = k
         /\ \A i \in 1 .. k : SubSeq(s, 1, k)[i] = s[i] /\ s[i] \in S
         /\ SubSeq(s, 1, 0) = <<>> /\ SubSeq(s, 1, Len(s)) = s
         /\ k < Len(s) =>
              SubSeq(s, 1, k + 1) = Append(SubSeq(s, 1, k), s[k + 1])
<1>1. Len(s) \in Nat /\ 1 \in Int /\ k \in Int /\ k \in Nat /\ k <= Len(s)
  OBVIOUS
<1>2. \A i \in 1 .. k : s[i] \in S
  BY <1>1, ElementOfSeq
<1>3. /\ SubSeq(s, 1, k) \in Seq(S)
      /\ Len(SubSeq(s, 1, k)) = IF 1 <= k THEN k - 1 + 1 ELSE 0
      /\ \A i \in 1 .. k - 1 + 1 : SubSeq(s, 1, k)[i] = s[1 + i - 1]
  BY <1>1, <1>2, SubSeqProperties
<1>4. /\ Len(SubSeq(s, 1, k)) = k
      /\ \A i \in 1 .. k : SubSeq(s, 1, k)[i] = s[i]
  BY <1>1, <1>3
<1>5. SubSeq(s, 1, 0) = <<>> /\ SubSeq(s, 1, Len(s)) = s
  BY SubSeqEmpty, SubSeqFull
<1>6. ASSUME k < Len(s)
      PROVE  SubSeq(s, 1, k + 1) = Append(SubSeq(s, 1, k), s[k + 1])
  <2>1. 1 \in 1 .. Len(s) /\ k + 1 \in 1 .. Len(s) /\ (k + 1) - 1 = k
    BY <1>1, <1>6
  <2>2. SubSeq(s, 1, k + 1) = SubSeq(s, 1, k) \o <<s[k + 1]>>
    BY <2>1, SubSeqRecursiveSecond
  <2>3. s[k + 1] \in S
    BY <2>1, ElementOfSeq
  <2>4. QED
    BY <1>3, <2>2, <2>3, AppendIsConcat
<1>7. QED
  BY <1>2, <1>3, <1>4, <1>5, <1>6

\* Before stops at the first bad tag.
LEMMA BeforeEnds ==
  ASSUME NEW S, NEW tags \in Seq(S), NEW bad
  PROVE  /\ Len(Before(tags, bad)) \in 0 .. Len(tags)
         /\ Before(tags, bad) = SubSeq(tags, 1, Len(Before(tags, bad)))
         /\ \A i \in 1 .. Len(Before(tags, bad)) : tags[i] \notin bad
         /\ Len(Before(tags, bad)) < Len(tags) =>
              tags[Len(Before(tags, bad)) + 1] \in bad
<1> DEFINE n == Len(tags)
           Clean(j) == \A i \in 1 .. j : tags[i] \notin bad
           T == {j \in 0 .. n : Clean(j)}
           R == {n - j : j \in T}
<1>1. n \in Nat /\ 0 \in T
  OBVIOUS
<1>2. R \in SUBSET Nat /\ n - 0 \in R
  BY <1>1
<1> HIDE DEF R
<1>3. PICK r \in R : \A q \in R : r <= q
  BY <1>2, LeastNat
<1>4. PICK k \in T : r = n - k
  BY <1>3 DEF R
<1>5. \A j \in T : j \in 0 .. n /\ k >= j
  <2>1. SUFFICES ASSUME NEW j \in T PROVE k >= j
    OBVIOUS
  <2>2. n - j \in R
    BY DEF R
  <2>3. r <= n - j
    BY <1>3, <2>2
  <2>4. QED
    BY <1>1, <1>4, <2>3
<1>6. \E m \in T : \A j \in T : m >= j
  BY <1>5
<1>7. Max(T) \in T /\ \A j \in T : Max(T) >= j
  BY <1>6 DEF Max
<1> DEFINE m == Max(T)
<1>8. m \in 0 .. n /\ Clean(m) /\ \A j \in T : m >= j
  BY <1>7
<1>9. Before(tags, bad) = SubSeq(tags, 1, m)
  BY DEF Before
<1> HIDE DEF m
<1>10. Len(Before(tags, bad)) = m
  BY <1>8, <1>9, Beginning
<1>11. ASSUME m < n PROVE tags[m + 1] \in bad
  <2>1. m + 1 \notin T /\ m + 1 \in 0 .. n
    BY <1>1, <1>8, <1>11
  <2>2. PICK i \in 1 .. m + 1 : tags[i] \in bad
    BY <2>1
  <2>3. i \in 1 .. m \/ i = m + 1
    BY <1>8
  <2>4. QED
    BY <1>8, <2>2, <2>3
<1>12. QED
  BY <1>8, <1>9, <1>10, <1>11

Tag == Nat \ {0}

\* What the layout says of the movie at hand.
LEMMA LaidParts ==
  ASSUME movie \in Movies
  PROVE  /\ movie.laid \in Seq(Seq(Tag)) /\ Len(movie.laid) = Chunks
         /\ movie.frames_per_chunk \in Nat
         /\ \A c \in 1 .. Chunks :
              movie.laid[c] \in Seq(Tag) /\ ChunkLaid(movie, c)
<1>1. /\ movie.laid \in Seq(Seq(Tag)) /\ Len(movie.laid) = Chunks
      /\ movie.frames_per_chunk \in Nat
      /\ \A c \in 1 .. Chunks : ChunkLaid(movie, c)
  BY MoviesAreLaid DEF Chunks, Tag
<1>2. \A c \in 1 .. Chunks : movie.laid[c] \in Seq(Tag)
  BY <1>1, ElementOfSeq
<1>3. QED
  BY <1>1, <1>2

Bad == {Damaged, Torn}

\* The decompressor is asked for the header's number of frames.
Counts == Route = "module" /\ ~ video.wrapper

Fit(c) == Len(Usable[c])

\* A chunk is good for its frames up to the first that is damaged or torn, or
\* to the number asked for.
LEMMA UsableIs ==
  ASSUME movie \in Movies, NEW c \in 1 .. Chunks
  PROVE  /\ Fit(c) \in 0 .. Len(movie.laid[c])
         /\ Usable[c] = SubSeq(movie.laid[c], 1, Fit(c))
         /\ Usable[c] \in Seq(Tag)
         /\ \A i \in 1 .. Fit(c) :
              Usable[c][i] = movie.laid[c][i] /\ movie.laid[c][i] \notin Bad
         /\ Fit(c) < Len(movie.laid[c]) =>
              \/ movie.laid[c][Fit(c) + 1] \in Bad
              \/ Counts /\ Fit(c) = movie.frames_per_chunk
         /\ Counts => Fit(c) <= movie.frames_per_chunk
<1> DEFINE tags == movie.laid[c]
           n == Len(tags)
           fpc == movie.frames_per_chunk
           asked == Asked(tags)
           a == IF Counts THEN Min({n, fpc}) ELSE n
<1>1. tags \in Seq(Tag) /\ n \in Nat /\ fpc \in Nat
  BY LaidParts
<1>2. Min({n, fpc}) \in {n, fpc} /\ Min({n, fpc}) <= n /\ Min({n, fpc}) <= fpc
  <2>1. \E x \in {n, fpc} : \A y \in {n, fpc} : x <= y
    BY <1>1
  <2>2. Min({n, fpc}) \in {n, fpc} /\ \A y \in {n, fpc} : Min({n, fpc}) <= y
    BY <2>1 DEF Min
  <2>3. QED
    BY <2>2
<1>3. a \in 0 .. n /\ (a < n => Counts /\ a = fpc) /\ (Counts => a <= fpc)
  BY <1>1, <1>2
<1>4. asked = SubSeq(tags, 1, a)
  <2>1. SubSeq(tags, 1, n) = tags
    BY <1>1, Beginning
  <2>2. QED
    BY <2>1 DEF Asked, Counts
<1> HIDE DEF a
<1>5. /\ asked \in Seq(Tag) /\ Len(asked) = a
      /\ \A i \in 1 .. a : asked[i] = tags[i]
  BY <1>1, <1>3, <1>4, Beginning
<1>6. Usable[c] = Before(asked, Bad)
  BY DEF Usable, Whole, Bad
<1> DEFINE k == Len(Before(asked, Bad))
<1> HIDE DEF asked
<1>7. /\ k \in 0 .. a /\ Usable[c] = SubSeq(asked, 1, k)
      /\ \A i \in 1 .. k : asked[i] \notin Bad
      /\ k < a => asked[k + 1] \in Bad
  BY <1>5, <1>6, BeforeEnds
<1>8. Fit(c) = k
  BY <1>6 DEF Fit
<1> HIDE DEF k
<1>9. /\ k \in 0 .. n /\ \A i \in 1 .. k : i \in 1 .. a
      /\ k < a => k + 1 \in 1 .. a
  BY <1>1, <1>3, <1>7
<1>10. /\ SubSeq(asked, 1, k) \in Seq(Tag)
       /\ \A i \in 1 .. k : SubSeq(asked, 1, k)[i] = tags[i]
       /\ Len(SubSeq(asked, 1, k)) = k
  BY <1>5, <1>7, <1>9, Beginning
<1>11. SubSeq(asked, 1, k) = SubSeq(tags, 1, k)
  <2>1. /\ SubSeq(tags, 1, k) \in Seq(Tag) /\ Len(SubSeq(tags, 1, k)) = k
        /\ \A i \in 1 .. k : SubSeq(tags, 1, k)[i] = tags[i]
    BY <1>1, <1>9, Beginning
  <2>2. QED
    BY <1>10, <2>1, SeqEqual
<1>12. k < n => tags[k + 1] \in Bad \/ (Counts /\ k = fpc)
  BY <1>3, <1>5, <1>7, <1>9
<1>13. Counts => k <= fpc
  BY <1>1, <1>3, <1>7
<1>14. QED
  BY <1>5, <1>7, <1>8, <1>9, <1>10, <1>11, <1>12, <1>13

UpTo(d, n) == FlattenSeq(SubSeq(d, 1, n))

\* Sequences joined one by one: each goes behind those before it.
LEMMA JoinedGrows ==
  ASSUME NEW S, NEW d \in Seq(Seq(S))
  PROVE  /\ UpTo(d, 0) = <<>>
         /\ \A n \in 0 .. Len(d) : UpTo(d, n) \in Seq(S)
         /\ \A n \in 1 .. Len(d) : UpTo(d, n) = UpTo(d, n - 1) \o d[n]
<1> DEFINE k == Len(d)
<1>1. k \in Nat /\ \A n \in 1 .. k : d[n] \in Seq(S)
  BY ElementOfSeq
<1>2. \A n \in 0 .. k : SubSeq(d, 1, n) \in Seq(Seq(S))
  BY Beginning
<1>3. <<>> \in Seq(S) /\ SubSeq(d, 1, 0) = <<>>
  BY <1>1, SubSeqEmpty
<1>4. \A n \in 0 .. k : UpTo(d, n) \in Seq(S)
  BY <1>2, <1>3, FlattenAppend DEF UpTo
<1>5. UpTo(d, 0) = <<>>
  BY <1>3, FlattenNothing DEF UpTo
<1>6. ASSUME NEW n \in 1 .. k
      PROVE  UpTo(d, n) = UpTo(d, n - 1) \o d[n]
  <2>1. n - 1 \in 0 .. Len(d) /\ n - 1 < Len(d) /\ (n - 1) + 1 = n
    BY <1>1
  <2>2. SubSeq(d, 1, (n - 1) + 1)
          = Append(SubSeq(d, 1, n - 1), d[(n - 1) + 1])
    BY <2>1, Beginning
  <2>3. SubSeq(d, 1, n) = Append(SubSeq(d, 1, n - 1), d[n])
    BY <2>1, <2>2
  <2>4. SubSeq(d, 1, n - 1) \in Seq(Seq(S)) /\ d[n] \in Seq(S)
    BY <1>1, <1>2, <2>1
  <2>5. QED
    BY <2>3, <2>4, FlattenAppend DEF UpTo
<1>7. QED
  BY <1>4, <1>5, <1>6

\* What was joined stays the beginning.
LEMMA JoinedBegins ==
  ASSUME NEW S, NEW d \in Seq(Seq(S)), NEW n \in 0 .. Len(d)
  PROVE  /\ Len(UpTo(d, n)) \in 0 .. Len(UpTo(d, Len(d)))
         /\ \A i \in 1 .. Len(UpTo(d, n)) :
              UpTo(d, Len(d))[i] = UpTo(d, n)[i]
         /\ UpTo(d, n) = SubSeq(UpTo(d, Len(d)), 1, Len(UpTo(d, n)))
<1> DEFINE k == Len(d)
           s == UpTo(d, n)
           Starts(t) == Len(s) <= Len(t) /\ \A i \in 1 .. Len(s) : t[i] = s[i]
           Fails == {j \in n .. k : ~ Starts(UpTo(d, j))}
<1>1. /\ k \in Nat /\ n \in Nat /\ n <= k
      /\ \A j \in 0 .. k : UpTo(d, j) \in Seq(S)
      /\ \A j \in 1 .. k : UpTo(d, j) = UpTo(d, j - 1) \o d[j]
      /\ \A j \in 1 .. k : d[j] \in Seq(S)
  <2>1. \A j \in 1 .. k : d[j] \in Seq(S)
    BY ElementOfSeq
  <2>2. k \in Nat /\ n \in Nat /\ n <= k
    OBVIOUS
  <2>3. QED
    BY <2>1, <2>2, JoinedGrows
<1>2. s \in Seq(S) /\ Len(s) \in Nat
  BY <1>1
<1> HIDE DEF s
<1>3. Starts(s)
  BY <1>2
<1>4. ASSUME NEW t \in Seq(S), NEW x \in Seq(S), Starts(t)
      PROVE  Starts(t \o x)
  <2>1. /\ Len(t \o x) = Len(t) + Len(x) /\ Len(t) \in Nat /\ Len(x) \in Nat
        /\ \A i \in 1 .. Len(t) + Len(x) :
             (t \o x)[i] = IF i <= Len(t) THEN t[i] ELSE x[i - Len(t)]
    BY ConcatProperties
  <2> DEFINE u == t \o x
  <2> HIDE DEF u
  <2>2. Len(s) <= Len(u)
    BY <1>2, <1>4, <2>1 DEF u
  <2>3. \A i \in 1 .. Len(s) : i \in 1 .. Len(t) + Len(x) /\ i <= Len(t)
    BY <1>2, <1>4, <2>1
  <2>4. \A i \in 1 .. Len(s) : u[i] = t[i] /\ t[i] = s[i]
    BY <1>4, <2>1, <2>3 DEF u
  <2>5. QED
    BY <2>2, <2>4 DEF u
<1>5. Fails = {}
  <2>1. SUFFICES ASSUME Fails # {} PROVE FALSE
    OBVIOUS
  <2>2. Fails \in SUBSET Nat
    BY <1>1
  <2>3. PICK j \in Fails : \A l \in Fails : j <= l
    BY <2>1, <2>2, LeastNat
  <2>4. j # n
    BY <1>3, <2>3 DEF s
  <2>5. j \in 1 .. k /\ j - 1 \in n .. k /\ j - 1 \in 0 .. k /\ ~ (j <= j - 1)
    BY <1>1, <2>3, <2>4
  <2>6. Starts(UpTo(d, j - 1))
    BY <2>3, <2>5
  <2>7. /\ UpTo(d, j - 1) \in Seq(S) /\ d[j] \in Seq(S)
        /\ UpTo(d, j) = UpTo(d, j - 1) \o d[j]
    BY <1>1, <2>5
  <2> HIDE DEF Starts
  <2>8. Starts(UpTo(d, j))
    BY <1>4, <2>6, <2>7
  <2>9. QED
    BY <2>3, <2>8
<1>6. Starts(UpTo(d, k))
  BY <1>1, <1>5
<1> DEFINE all == UpTo(d, k)
<1>7. all \in Seq(S) /\ Len(s) \in 0 .. Len(all)
      /\ \A i \in 1 .. Len(s) : all[i] = s[i]
  BY <1>1, <1>2, <1>6
<1> HIDE DEF all
<1>8. s = SubSeq(all, 1, Len(s))
  <2>1. /\ SubSeq(all, 1, Len(s)) \in Seq(S)
        /\ Len(SubSeq(all, 1, Len(s))) = Len(s)
        /\ \A i \in 1 .. Len(s) : SubSeq(all, 1, Len(s))[i] = all[i]
    BY <1>7, Beginning
  <2>2. QED
    BY <1>2, <1>7, <2>1, SeqEqual
<1>9. QED
  BY <1>7, <1>8 DEF s, all

\* All of a movie's tags, the first k of them, and how many there are in its
\* first c chunks.
All == AllTags(Chunks)
First(k) == SubSeq(All, 1, k)
Done(c) == Len(AllTags(c))

\* The tags of a chunk follow those of the chunks before it.
LEMMA TagsLie ==
  ASSUME movie \in Movies
  PROVE  /\ All \in Seq(Tag) /\ Chunks \in Nat \ {0}
         /\ Done(0) = 0 /\ Done(Chunks) = Len(All)
         /\ \A c \in 0 .. Chunks : /\ Done(c) \in 0 .. Len(All)
                                   /\ AllTags(c) = First(Done(c))
         /\ \A c \in 1 .. Chunks :
              /\ Fit(c) \in Nat
              /\ Done(c) = Done(c - 1) + Fit(c)
              /\ \A i \in 1 .. Fit(c) : All[Done(c - 1) + i] = movie.laid[c][i]
<1> DEFINE k == Chunks
<1>1. k \in Nat \ {0}
  BY MovieParts
<1>2. \A c \in 1 .. k : /\ Usable[c] \in Seq(Tag) /\ Fit(c) \in Nat
                        /\ \A i \in 1 .. Fit(c) : Usable[c][i] = movie.laid[c][i]
  BY UsableIs
<1>3. Usable = [c \in 1 .. k |-> Usable[c]]
  BY DEF Usable
<1> DEFINE d == Usable
<1> HIDE DEF Usable, k
<1>4. d \in Seq(Seq(Tag)) /\ Len(d) = k
  BY <1>1, <1>2, <1>3
<1>5. /\ UpTo(d, 0) = <<>>
      /\ \A n \in 0 .. k : UpTo(d, n) \in Seq(Tag)
      /\ \A n \in 1 .. k : UpTo(d, n) = UpTo(d, n - 1) \o d[n]
  BY <1>4, JoinedGrows
<1>6. \A n \in 0 .. k :
         /\ Len(UpTo(d, n)) \in 0 .. Len(UpTo(d, k))
         /\ \A i \in 1 .. Len(UpTo(d, n)) : UpTo(d, k)[i] = UpTo(d, n)[i]
         /\ UpTo(d, n) = SubSeq(UpTo(d, k), 1, Len(UpTo(d, n)))
  BY <1>4, JoinedBegins
<1>7. \A n : AllTags(n) = UpTo(d, n)
  BY DEF AllTags, UpTo
<1>8. All = UpTo(d, k)
  BY <1>7 DEF All, k
<1>9. All \in Seq(Tag) /\ Done(0) = 0 /\ Done(k) = Len(All)
  BY <1>1, <1>5, <1>7, <1>8 DEF Done
<1>10. \A c \in 0 .. k : /\ Done(c) \in 0 .. Len(All)
                         /\ AllTags(c) = First(Done(c))
  BY <1>6, <1>7, <1>8 DEF Done, First
<1>11. ASSUME NEW c \in 1 .. k
       PROVE  /\ Fit(c) \in Nat
              /\ Done(c) = Done(c - 1) + Fit(c)
              /\ \A i \in 1 .. Fit(c) : All[Done(c - 1) + i] = movie.laid[c][i]
  <2> DEFINE s == UpTo(d, c - 1)
             t == UpTo(d, c)
  <2>1. c - 1 \in 0 .. k /\ c \in 0 .. k
    BY <1>1
  <2>2. s \in Seq(Tag) /\ d[c] \in Seq(Tag) /\ t = s \o d[c]
    BY <1>2, <1>5, <2>1
  <2>3. Done(c - 1) = Len(s) /\ Done(c) = Len(t) /\ Fit(c) = Len(d[c])
    BY <1>7 DEF Done, Fit
  <2>4. \A i \in 1 .. Len(t) : All[i] = t[i]
    BY <1>6, <1>8, <2>1
  <2> HIDE DEF s, t
  <2>5. /\ Len(t) = Len(s) + Len(d[c])
        /\ \A i \in 1 .. Len(s) + Len(d[c]) :
             t[i] = IF i <= Len(s) THEN s[i] ELSE d[c][i - Len(s)]
    BY <2>2, ConcatProperties
  <2>6. Len(s) \in Nat /\ Len(d[c]) \in Nat
    BY <2>2
  <2>7. ASSUME NEW i \in 1 .. Fit(c)
        PROVE  All[Done(c - 1) + i] = movie.laid[c][i]
    <3>1. /\ Len(s) + i \in 1 .. Len(s) + Len(d[c]) /\ ~ (Len(s) + i <= Len(s))
          /\ (Len(s) + i) - Len(s) = i
      BY <2>3, <2>6
    <3>2. t[Len(s) + i] = d[c][i]
      BY <2>5, <3>1
    <3>3. All[Len(s) + i] = t[Len(s) + i]
      BY <2>4, <2>5, <3>1
    <3>4. d[c][i] = movie.laid[c][i]
      BY <1>2, <2>3
    <3>5. QED
      BY <2>3, <3>2, <3>3, <3>4
  <2>8. QED
    BY <2>3, <2>5, <2>6, <2>7
<1>12. QED
  BY <1>1, <1>9, <1>10, <1>11 DEF k

\* What is promised stays.
LEMMA LaidSame ==
  ASSUME Steady
  PROVE  /\ Usable' = Usable /\ Promised' = Promised /\ All' = All
         /\ Filled' = Filled
         /\ \A c : AllTags(c)' = AllTags(c)
<1>1. movie' = movie /\ options' = options /\ Route' = Route /\ Chunks' = Chunks
  BY Unchanging
<1>2. Usable' = Usable
  BY <1>1, Zenon DEF Usable, Asked, video, Whole, Before
<1>3. \A c : AllTags(c)' = AllTags(c)
  BY <1>2, Zenon DEF AllTags
<1>4. Histories' = Histories
  BY <1>1, <1>3, Zenon DEF Histories
<1>5. Filled' = Filled
  BY <1>1, Zenon DEF Filled
<1>6. \A s : PerChunk(s)' = PerChunk(s)
  BY <1>3, Zenon DEF PerChunk
<1>7. All' = All
  BY <1>1, <1>3, Zenon DEF All
<1>8. Promised' = Promised
  BY <1>1, <1>3, <1>4, <1>5, <1>6, Zenon DEF Promised
<1>9. QED
  BY <1>2, <1>3, <1>5, <1>7, <1>8

\* The pictures in the stream.
Streamed == Data(Chosen(file, HaveVideo, TRUE))

LEMMA ShownIs == Shown = IF options.nut THEN Streamed ELSE raw_out
<1>1. VideoFrames = Chosen(file, HaveVideo, TRUE)
  BY WrittenIsChosen DEF VideoFrames
<1> HIDE DEF HaveVideo
<1>2. QED
  BY <1>1 DEF Shown, Streamed

\* What is no picture leaves the pictures as they were.
LEMMA ShownSame ==
  ASSUME Placed, Counted, Steady, raw_out' = raw_out,
         Silent \/ Opened \/ SoundOut
  PROVE  Shown' = Shown
<1>1. HaveVideo' = HaveVideo /\ options' = options
  BY Unchanging
<1>2. Shown' = IF options.nut THEN Streamed' ELSE raw_out'
  <2>1. (Shown = IF options.nut THEN Streamed ELSE raw_out)'
    BY ShownIs, PTL
  <2>2. QED
    BY <1>1, <2>1
<1>3. SUFFICES Streamed' = Streamed
  BY <1>2, ShownIs
<1>4. CASE Silent
  <2>1. file' = file
    BY <1>4 DEF Silent, muxVars
  <2> HIDE DEF HaveVideo
  <2>2. QED
    BY <1>1, <2>1 DEF Streamed
<1>5. CASE Opened
  <2>1. file = <<>>
    BY <1>5 DEF Opened, Placed
  <2>2. file \in Seq({}) /\ \A i \in 1 .. Len(file) : file[i].kind # "frame"
    BY <2>1
  <2>3. Chosen(file, HaveVideo, TRUE) = <<>>
    BY <2>2, ChosenNone
  <2>4. PICK streams \in Nat : OpenMux(streams)
    BY <1>5 DEF Opened
  <2> DEFINE S == {HeaderAt(i) : i \in 1 .. streams + 2}
  <2>5. file' = [i \in 1 .. streams + 2 |-> HeaderAt(i)]
    BY <2>4 DEF OpenMux
  <2>6. file' \in Seq(S) /\ Len(file') = streams + 2
    BY <2>5
  <2>7. \A i \in 1 .. streams + 2 : HeaderAt(i).kind # "frame"
    BY DEF HeaderAt, Packet
  <2>8. \A i \in 1 .. Len(file') : file'[i].kind # "frame"
    BY <2>5, <2>6, <2>7
  <2> HIDE DEF S, HaveVideo
  <2>9. Chosen(file', HaveVideo, TRUE) = <<>>
    BY <2>6, <2>8, ChosenNone
  <2>10. QED
    BY <1>1, <2>3, <2>9 DEF Streamed
<1>6. CASE SoundOut
  <2>1. WriteFrame(AudioStream, sink.audio_pts, ChunkSound,
                   2 * Len(ChunkSound))
    BY <1>6 DEF SoundOut
  <2>2. IsSequence(file)
    BY DEF Counted, Ticks
  <2>3. PICK frame : /\ frame.kind = "frame" /\ frame.stream = AudioStream
                     /\ Wrote(file, file', frame)
    BY <2>1, <2>2, FrameWritten
  <2>4. ~ Mine(frame, HaveVideo, TRUE)
    BY <2>3 DEF Mine, AudioStream, VideoStream
  <2>5. Chosen(file', HaveVideo, TRUE) = Chosen(file, HaveVideo, TRUE)
    BY <2>3, <2>4 DEF Wrote
  <2> HIDE DEF HaveVideo
  <2>6. QED
    BY <1>1, <2>5 DEF Streamed
<1>7. QED
  BY <1>4, <1>5, <1>6

\* A frame's data is put behind those of the frames before it.
LEMMA DataMore ==
  ASSUME NEW A, IsSequence(A), NEW x
  PROVE  Data(Append(A, x)) = Append(Data(A), x.data)
<1> DEFINE B == Append(A, x)
           k == Len(A)
           d == Data(A)
<1>1. PICK S : A \in Seq(S)
  BY DEF IsSequence
<1>2. A \in Seq(S \cup {x}) /\ x \in S \cup {x}
  BY <1>1
<1>3. /\ B \in Seq(S \cup {x}) /\ Len(B) = k + 1 /\ B[k + 1] = x
      /\ \A i \in 1 .. k : B[i] = A[i]
  BY <1>2, AppendProperties
<1>4. k \in Nat /\ DOMAIN A = 1 .. k /\ DOMAIN B = 1 .. k + 1
  BY <1>2, <1>3
<1> HIDE DEF B, k
<1>5. d = [i \in 1 .. k |-> A[i].data]
  BY <1>4 DEF Data
<1> DEFINE T == {A[i].data : i \in 1 .. k} \cup {x.data}
<1>6. d \in Seq(T) /\ Len(d) = k /\ x.data \in T
  BY <1>4, <1>5
<1> HIDE DEF T
<1>7. Data(B) = [i \in 1 .. k + 1 |-> B[i].data]
  BY <1>4 DEF Data
<1>8. /\ Append(d, x.data) \in Seq(T)
      /\ Len(Append(d, x.data)) = k + 1
      /\ Append(d, x.data)[k + 1] = x.data
      /\ \A i \in 1 .. k : Append(d, x.data)[i] = d[i]
  BY <1>6, AppendProperties
<1>9. \A i \in 1 .. k + 1 : B[i].data = Append(d, x.data)[i]
  <2>1. SUFFICES ASSUME NEW i \in 1 .. k + 1
                 PROVE  B[i].data = Append(d, x.data)[i]
    OBVIOUS
  <2>2. CASE i = k + 1
    BY <1>3, <1>8, <2>2
  <2>3. CASE i # k + 1
    <3>1. i \in 1 .. k
      BY <1>4, <2>3
    <3>2. QED
      BY <1>3, <1>5, <1>8, <3>1
  <2>4. QED
    BY <2>2, <2>3
<1>10. Append(d, x.data) = [i \in 1 .. k + 1 |-> Append(d, x.data)[i]]
  BY <1>8
<1>11. QED
  BY <1>7, <1>9, <1>10 DEF B

\* sink_video_frame puts its picture behind those shown.
LEMMA ShownMore ==
  ASSUME Counted, Steady, HaveVideo, NEW shown, NEW length,
         SinkVideoFrame(shown, length)
  PROVE  Shown' = Append(Shown, shown)
<1>1. HaveVideo' = HaveVideo /\ options' = options
  BY Unchanging
<1>2. Shown' = IF options.nut THEN Streamed' ELSE raw_out'
  <2>1. (Shown = IF options.nut THEN Streamed ELSE raw_out)'
    BY ShownIs, PTL
  <2>2. QED
    BY <1>1, <2>1
<1>3. CASE ~ options.nut
  BY <1>2, <1>3, ShownIs DEF SinkVideoFrame
<1>4. CASE options.nut
  <2> DEFINE V == Chosen(file, HaveVideo, TRUE)
  <2>1. WriteFrame(VideoStream, sink.video_pts, shown, length)
    BY <1>4 DEF SinkVideoFrame
  <2>2. IsSequence(file) /\ IsSequence(V)
    BY DEF Counted, Ticks, PictureClock
  <2>3. PICK frame : /\ frame.kind = "frame" /\ frame.stream = VideoStream
                     /\ frame.data = shown /\ Wrote(file, file', frame)
    BY <2>1, <2>2, FrameWritten
  <2>4. Mine(frame, HaveVideo, TRUE)
    BY <2>3 DEF Mine
  <2>5. Chosen(file', HaveVideo, TRUE) = Append(V, frame)
    BY <2>3, <2>4 DEF Wrote
  <2> HIDE DEF V
  <2>6. Data(Append(V, frame)) = Append(Data(V), shown)
    BY <2>2, <2>3, DataMore
  <2> HIDE DEF HaveVideo
  <2>7. Streamed' = Append(Streamed, shown)
    BY <1>1, <2>5, <2>6 DEF Streamed, V
  <2>8. QED
    BY <1>2, <1>4, <2>7, ShownIs
<1>5. QED
  BY <1>3, <1>4

-----------------------------------------------------------------------------

\* The chunks with video, one by one.
FilledParts ==
  [c \in 1 .. Chunks |-> IF movie.videos[c] = <<>> THEN <<>> ELSE <<c>>]

\* Chunks whose frames are shown one by one, and those shown as one picture.
ByFrame == Route \notin {"sound", "esc122", "esc130"}
ByHistory == ByFrame /\ Route \notin {"pass", "type23"}

\* How many pictures the first c chunks promise.
Due(c) ==
  CASE Route = "sound"  -> 0
    [] Route = "esc122" -> Len(UpTo(FilledParts, c))
    [] Route = "esc130" -> c
    [] OTHER            -> Done(c)

\* The picture promised with frame i of chunk c.
Picture(c, i) ==
  CASE Route = "pass"   -> FrameBytes(movie.laid[c][i])
    [] Route = "type23" -> <<movie.laid[c][i]>>
    [] OTHER            -> First(Done(c - 1) + i)

\* For a type 122 movie: a picture for every chunk with video.
LEMMA FilledLie ==
  ASSUME movie \in Movies
  PROVE  /\ Filled = UpTo(FilledParts, Chunks) /\ Filled \in Seq(Nat)
         /\ UpTo(FilledParts, 0) = <<>>
         /\ \A c \in 0 .. Chunks :
              Len(UpTo(FilledParts, c)) \in 0 .. Len(Filled)
         /\ \A c \in 1 .. Chunks :
              LET before == Len(UpTo(FilledParts, c - 1))
                  now    == Len(UpTo(FilledParts, c))
              IN  IF movie.videos[c] = <<>> THEN now = before
                  ELSE now = before + 1 /\ Filled[now] = c
<1> DEFINE d == FilledParts
           k == Chunks
<1>1. k \in Nat \ {0}
  BY MovieParts
<1>2. \A c \in 1 .. k : /\ d[c] = IF movie.videos[c] = <<>> THEN <<>> ELSE <<c>>
                        /\ <<>> \in Seq(Nat) /\ <<c>> \in Seq(Nat)
  BY <1>1 DEF FilledParts
<1>3. d \in Seq(Seq(Nat)) /\ Len(d) = k
  <2>1. d = [c \in 1 .. k |-> d[c]]
    BY DEF FilledParts
  <2>2. \A c \in 1 .. k : d[c] \in Seq(Nat)
    BY <1>2
  <2> HIDE DEF d
  <2>3. QED
    BY <1>1, <2>1, <2>2
<1>4. SubSeq(d, 1, k) = d /\ Filled = FlattenSeq(d)
  BY <1>3, SubSeqFull DEF Filled, FilledParts
<1>5. Filled = UpTo(d, k)
  BY <1>4 DEF UpTo
<1> HIDE DEF d, k
<1>6. /\ UpTo(d, 0) = <<>>
      /\ \A n \in 0 .. k : UpTo(d, n) \in Seq(Nat)
      /\ \A n \in 1 .. k : UpTo(d, n) = UpTo(d, n - 1) \o d[n]
  BY <1>3, JoinedGrows
<1>7. \A n \in 0 .. k :
         /\ Len(UpTo(d, n)) \in 0 .. Len(UpTo(d, k))
         /\ \A i \in 1 .. Len(UpTo(d, n)) : UpTo(d, k)[i] = UpTo(d, n)[i]
  BY <1>3, JoinedBegins
<1>8. ASSUME NEW c \in 1 .. k
      PROVE  IF movie.videos[c] = <<>>
             THEN Len(UpTo(d, c)) = Len(UpTo(d, c - 1))
             ELSE /\ Len(UpTo(d, c)) = Len(UpTo(d, c - 1)) + 1
                  /\ Filled[Len(UpTo(d, c))] = c
  <2> DEFINE s == UpTo(d, c - 1)
             t == UpTo(d, c)
  <2>1. c - 1 \in 0 .. k /\ c \in 0 .. k
    BY <1>1
  <2>2. s \in Seq(Nat) /\ t = s \o d[c]
    BY <1>6, <2>1
  <2>3. CASE movie.videos[c] = <<>>
    <3>1. d[c] = <<>>
      BY <1>2, <2>3
    <3>2. t = s
      BY <2>2, <3>1, ConcatEmptySeq
    <3>3. QED
      BY <2>3, <3>2
  <2>4. CASE movie.videos[c] # <<>>
    <3>1. d[c] = <<c>> /\ c \in Nat
      <4>1. d[c] = <<c>>
        BY <1>2, <2>4
      <4>2. c \in Nat
        BY <1>1
      <4>3. QED
        BY <4>1, <4>2
    <3>2. t = Append(s, c)
      BY <2>2, <3>1, AppendIsConcat
    <3>3. Len(t) = Len(s) + 1 /\ t[Len(t)] = c /\ Len(s) \in Nat
      BY <2>2, <3>1, <3>2
    <3>4. Len(t) \in 1 .. Len(t)
      BY <3>3
    <3>5. UpTo(d, k)[Len(t)] = t[Len(t)]
      BY <1>7, <2>1, <3>4
    <3>6. QED
      BY <1>5, <2>4, <3>3, <3>5
  <2>5. QED
    BY <2>3, <2>4
<1>9. Filled \in Seq(Nat)
  BY <1>1, <1>5, <1>6
<1>10. QED
  BY <1>5, <1>6, <1>7, <1>8, <1>9 DEF d, k

\* What is promised, route by route.
LEMMA PromisedIs ==
  ASSUME movie \in Movies
  PROVE  /\ Route = "sound" => Promised = <<>>
         /\ Route = "esc122" =>
              Promised = [n \in 1 .. Len(Filled) |-> AllTags(Filled[n])]
         /\ Route = "esc130" => Promised = [c \in 1 .. Chunks |-> AllTags(c)]
         /\ Route = "pass" =>
              Promised = [n \in 1 .. Len(All) |-> FrameBytes(All[n])]
         /\ Route = "type23" => Promised = [n \in 1 .. Len(All) |-> <<All[n]>>]
         /\ ByHistory => Promised = [n \in 1 .. Len(All) |-> First(n)]
<1>1. All \in Seq(Tag) /\ Filled \in Seq(Nat) /\ Chunks \in Nat
  BY TagsLie, FilledLie
<1>2. DOMAIN All = 1 .. Len(All) /\ DOMAIN Filled = 1 .. Len(Filled)
  BY <1>1
<1>3. AllTags(Chunks) = All
  BY DEF All
<1> HIDE DEF Filled, All
<1>4. Route = "esc130" => Promised = [c \in 1 .. Chunks |-> AllTags(c)]
  <2> DEFINE s == [c \in 1 .. Chunks |-> c]
  <2>1. DOMAIN s = 1 .. Chunks /\ \A c \in 1 .. Chunks : s[c] = c
    OBVIOUS
  <2> HIDE DEF s
  <2>2. PerChunk(s) = [c \in 1 .. Chunks |-> AllTags(c)]
    BY <2>1 DEF PerChunk
  <2>3. Route = "esc130" => Promised = PerChunk(s)
    BY DEF Promised, s
  <2>4. QED
    BY <2>2, <2>3
<1>5. Route = "esc122" =>
        Promised = [n \in 1 .. Len(Filled) |-> AllTags(Filled[n])]
  BY <1>2 DEF Promised, PerChunk
<1>6. ByHistory => Promised = [n \in 1 .. Len(All) |-> First(n)]
  <2>1. Histories = [n \in 1 .. Len(All) |-> First(n)]
    BY <1>3 DEF Histories, First
  <2>2. ByHistory => Promised = Histories
    BY DEF ByHistory, ByFrame, Promised
  <2>3. QED
    BY <2>1, <2>2
<1>7. Route = "pass" =>
        Promised = [n \in 1 .. Len(All) |-> FrameBytes(All[n])]
  BY <1>2, <1>3 DEF Promised
<1>8. Route = "type23" => Promised = [n \in 1 .. Len(All) |-> <<All[n]>>]
  BY <1>2, <1>3 DEF Promised
<1>9. Route = "sound" => Promised = <<>>
  BY DEF Promised
<1>10. QED
  BY <1>4, <1>5, <1>6, <1>7, <1>8, <1>9

\* How the promise is made up of what the chunks are due.
LEMMA DueIs ==
  ASSUME movie \in Movies
  PROVE  /\ IsSequence(Promised) /\ Len(Promised) \in Nat
         /\ Due(0) = 0 /\ Due(Chunks) = Len(Promised)
         /\ \A c \in 0 .. Chunks : Due(c) \in 0 .. Len(Promised)
         /\ ByFrame => \A c \in 1 .. Chunks :
              /\ Fit(c) \in Nat /\ Due(c) = Due(c - 1) + Fit(c)
              /\ \A i \in 1 .. Fit(c) : Promised[Due(c - 1) + i] = Picture(c, i)
         /\ Route \in {"esc122", "esc130"} => \A c \in 1 .. Chunks :
              IF Route = "esc122" /\ movie.videos[c] = <<>>
              THEN Due(c) = Due(c - 1)
              ELSE Due(c) = Due(c - 1) + 1 /\ Promised[Due(c)] = AllTags(c)
<1> DEFINE G == /\ IsSequence(Promised) /\ Len(Promised) \in Nat
                /\ Due(0) = 0 /\ Due(Chunks) = Len(Promised)
                /\ \A c \in 0 .. Chunks : Due(c) \in 0 .. Len(Promised)
<1>1. Chunks \in Nat \ {0}
  BY MovieParts
<1>2. CASE Route = "sound"
  <2>1. Promised = <<>> /\ \A c : Due(c) = 0
    BY <1>2, PromisedIs DEF Due
  <2>2. IsSequence(Promised) /\ Len(Promised) = 0
    <3>1. <<>> \in Seq({})
      OBVIOUS
    <3>2. QED
      BY <2>1, <3>1 DEF IsSequence
  <2>3. ~ ByFrame
    BY <1>2 DEF ByFrame
  <2> HIDE DEF Promised, Due
  <2>4. QED
    BY <1>2, <2>1, <2>2, <2>3
<1>3. CASE Route = "esc122"
  <2>1. \A c : Due(c) = Len(UpTo(FilledParts, c))
    BY <1>3 DEF Due
  <2>2. Promised = [n \in 1 .. Len(Filled) |-> AllTags(Filled[n])]
    BY <1>3, PromisedIs
  <2>3. Filled = UpTo(FilledParts, Chunks) /\ Filled \in Seq(Nat)
        /\ UpTo(FilledParts, 0) = <<>>
        /\ \A c \in 0 .. Chunks :
              Len(UpTo(FilledParts, c)) \in 0 .. Len(Filled)
    BY FilledLie
  <2>4. \A c \in 1 .. Chunks :
              IF movie.videos[c] = <<>> THEN Due(c) = Due(c - 1)
              ELSE Due(c) = Due(c - 1) + 1 /\ Filled[Due(c)] = c
    BY <2>1, FilledLie
  <2> DEFINE n == Len(Filled)
             P == Promised
  <2>5. n \in Nat
    BY <2>3
  <2> HIDE DEF n, Due, Filled, Promised
  <2>6. P = [j \in 1 .. n |-> AllTags(Filled[j])]
    BY <2>2 DEF n
  <2> HIDE DEF P
  <2>7. P \in Seq({AllTags(Filled[j]) : j \in 1 .. n}) /\ Len(P) = n
    BY <2>5, <2>6
  <2>8. G
    BY <2>1, <2>3, <2>5, <2>7 DEF IsSequence, P, n
  <2>9. ASSUME NEW c \in 1 .. Chunks
        PROVE  IF movie.videos[c] = <<>> THEN Due(c) = Due(c - 1)
               ELSE Due(c) = Due(c - 1) + 1 /\ P[Due(c)] = AllTags(c)
    <3>1. CASE movie.videos[c] = <<>>
      BY <2>4, <3>1
    <3>2. CASE movie.videos[c] # <<>>
      <4>1. Due(c) = Due(c - 1) + 1 /\ Filled[Due(c)] = c
        BY <2>4, <3>2
      <4>2. c \in 0 .. Chunks /\ c - 1 \in 0 .. Chunks
        BY <1>1
      <4>3. Due(c) \in 0 .. n /\ Due(c - 1) \in 0 .. n
        BY <2>1, <2>3, <4>2 DEF n
      <4>4. Due(c) \in 1 .. n
        BY <2>5, <4>1, <4>3
      <4>5. P[Due(c)] = AllTags(c)
        BY <2>6, <4>1, <4>4
      <4>6. QED
        BY <3>2, <4>1, <4>5
    <3>3. QED
      BY <3>1, <3>2
  <2>10. ~ ByFrame
    BY <1>3 DEF ByFrame
  <2>11. QED
    BY <1>3, <2>8, <2>9, <2>10 DEF P
<1>4. CASE Route = "esc130"
  <2>1. \A c : Due(c) = c
    BY <1>4 DEF Due
  <2>2. Promised = [c \in 1 .. Chunks |-> AllTags(c)]
    BY <1>4, PromisedIs
  <2> DEFINE k == Chunks
             P == Promised
  <2> HIDE DEF Due, Promised, k
  <2>3. P = [c \in 1 .. k |-> AllTags(c)] /\ k \in Nat
    BY <1>1, <2>2 DEF k
  <2> HIDE DEF P
  <2>4. P \in Seq({AllTags(c) : c \in 1 .. k}) /\ Len(P) = k
        /\ \A c \in 1 .. k : P[c] = AllTags(c)
    BY <2>3
  <2>5. G
    BY <2>1, <2>3, <2>4 DEF IsSequence, P, k
  <2>6. \A c \in 1 .. k : c = (c - 1) + 1
    BY <2>3
  <2>7. ~ ByFrame
    BY <1>4 DEF ByFrame
  <2>8. QED
    BY <1>4, <2>1, <2>4, <2>5, <2>6, <2>7 DEF P, k
<1>5. CASE Route \notin {"sound", "esc122", "esc130"}
  <2>1. \A c : Due(c) = Done(c)
    BY <1>5 DEF Due
  <2> DEFINE n == Len(All)
             P == Promised
             k == Chunks
             Pic(j) == CASE Route = "pass"   -> FrameBytes(All[j])
                         [] Route = "type23" -> <<All[j]>>
                         [] OTHER            -> First(j)
  <2>2. P = [j \in 1 .. n |-> Pic(j)]
    <3> HIDE DEF Promised
    <3>1. CASE Route = "pass"
      BY <3>1, PromisedIs
    <3>2. CASE Route = "type23"
      BY <3>2, PromisedIs
    <3>3. CASE Route \notin {"pass", "type23"}
      <4>1. ByHistory
        BY <1>5, <3>3 DEF ByHistory, ByFrame
      <4>2. QED
        BY <3>3, <4>1, PromisedIs
    <3>4. QED
      BY <3>1, <3>2, <3>3
  <2>3. /\ All \in Seq(Tag) /\ Done(0) = 0 /\ Done(k) = n
        /\ \A c \in 0 .. k : Done(c) \in 0 .. n
        /\ \A c \in 1 .. k :
              /\ Fit(c) \in Nat
              /\ Done(c) = Done(c - 1) + Fit(c)
              /\ \A i \in 1 .. Fit(c) : All[Done(c - 1) + i] = movie.laid[c][i]
    BY TagsLie
  <2>4. n \in Nat
    BY <2>3
  <2> HIDE DEF n, P, k, Due, Promised, All
  <2>5. \A c \in 1 .. k : \A i \in 1 .. Fit(c) :
          Pic(Done(c - 1) + i) = Picture(c, i)
    BY <2>3 DEF Picture
  <2> HIDE DEF Pic
  <2>6. P \in Seq({Pic(j) : j \in 1 .. n}) /\ Len(P) = n
        /\ \A j \in 1 .. n : P[j] = Pic(j)
    BY <2>2, <2>4
  <2>7. G
    BY <2>1, <2>3, <2>4, <2>6 DEF IsSequence, P, k
  <2>8. ASSUME NEW c \in 1 .. k, NEW i \in 1 .. Fit(c)
        PROVE  P[Due(c - 1) + i] = Picture(c, i)
    <3>1. c - 1 \in 0 .. k /\ c \in 0 .. k
      BY <1>1 DEF k
    <3>2. Done(c - 1) \in 0 .. n /\ Done(c) \in 0 .. n /\ Fit(c) \in Nat
          /\ Done(c) = Done(c - 1) + Fit(c)
      BY <2>3, <3>1
    <3>3. Done(c - 1) + i \in 1 .. n
      BY <2>4, <3>2
    <3>4. QED
      BY <2>1, <2>5, <2>6, <3>3
  <2>9. QED
    BY <1>5, <2>1, <2>3, <2>7, <2>8 DEF P, k
<1>6. QED
  BY <1>2, <1>3, <1>4, <1>5

-----------------------------------------------------------------------------
\* The frames of a chunk, as the walks find them.

\* A codec frame starts with its tag.
LEMMA FrameBytesIs ==
  ASSUME NEW tag \in Tag
  PROVE  /\ FrameBytes(tag) \in Seq(Nat) /\ Len(FrameBytes(tag)) \in {1, 3}
         /\ FrameBytes(tag)[1] = tag
         /\ tag % 2 = 0 => Len(FrameBytes(tag)) = 3
<1>1. tag \in Nat
  BY DEF Tag
<1>2. CASE tag % 2 = 1
  <2>1. FrameBytes(tag) = <<tag>>
    BY <1>2 DEF FrameBytes
  <2>2. QED
    BY <1>1, <1>2, <2>1
<1>3. CASE tag % 2 # 1
  <2>1. FrameBytes(tag) = <<tag, 0, 0>>
    BY <1>3 DEF FrameBytes
  <2>2. QED
    BY <1>1, <2>1
<1>4. QED
  BY <1>2, <1>3

\* Where a frame is spelled its tag is found.
LEMMA SpansTag ==
  ASSUME NEW d \in Seq(Nat), NEW tag \in Tag, NEW from \in Nat, NEW to \in Nat,
         Spans(d, tag, from, to), to <= Len(d)
  PROVE  /\ from < to /\ TagAt(d, from) = tag
         /\ to = from + Len(FrameBytes(tag)) /\ FrameEnd(d, from) = to
<1>1. to = from + Len(FrameBytes(tag)) /\ Bytes(d, from, to - from) = FrameBytes(tag)
  BY DEF Spans
<1>2. Len(FrameBytes(tag)) \in {1, 3} /\ FrameBytes(tag)[1] = tag
  BY FrameBytesIs
<1> DEFINE n == Len(FrameBytes(tag))
<1>3. n \in {1, 3} /\ to = from + n /\ from + 1 \in Int /\ from + (to - from) = to
  BY <1>1, <1>2
<1>4. SubSeq(d, from + 1, to) = FrameBytes(tag)
  BY <1>1, <1>3 DEF Bytes
<1> HIDE DEF n
<1>5. \A j \in from + 1 .. to : d[j] \in Nat
  <2>1. \A j \in from + 1 .. to : j \in 1 .. Len(d)
    OBVIOUS
  <2>2. QED
    BY <2>1, ElementOfSeq
<1>6. \A j \in 1 .. to - (from + 1) + 1 :
        SubSeq(d, from + 1, to)[j] = d[(from + 1) + j - 1]
  BY <1>3, <1>5, SubSeqProperties
<1>7. 1 \in 1 .. to - (from + 1) + 1 /\ (from + 1) + 1 - 1 = from + 1
      /\ from < to /\ from < Len(d)
  BY <1>3
<1>8. d[from + 1] = tag
  BY <1>2, <1>4, <1>6, <1>7
<1>9. TagAt(d, from) = tag /\ tag # 0
  BY <1>7, <1>8 DEF TagAt, Tag
<1>10. FrameEnd(d, from) = to
  BY <1>1, <1>9 DEF FrameEnd
<1>11. QED
  BY <1>1, <1>7, <1>9, <1>10

\* The cuts are places in the chunk, one behind the other.
LEMMA CutsAre ==
  ASSUME NEW d \in Seq(Nat), NEW tags \in Seq(Tag), NEW as, NEW p,
         Spells(as, d, tags, p), NEW i \in 0 .. Len(tags)
  PROVE  /\ p[i] \in Nat /\ p[i] <= Len(d) /\ Len(d) \in Nat
         /\ p[0] = 0 /\ p[Len(tags)] = Len(d)
         /\ i < Len(tags) => /\ i + 1 \in 0 .. Len(tags)
                             /\ tags[i + 1] \in Tag
                             /\ p[i + 1] \in Nat /\ p[i + 1] <= Len(d)
                             /\ FrameAt(as, d, tags[i + 1], p[i], p[i + 1])
<1>1. Len(tags) \in Nat /\ Len(d) \in Nat
  OBVIOUS
<1>2. p \in [0 .. Len(tags) -> 0 .. Len(d)] /\ p[0] = 0 /\ p[Len(tags)] = Len(d)
      /\ \A j \in 1 .. Len(tags) : FrameAt(as, d, tags[j], p[j - 1], p[j])
  BY DEF Spells
<1>3. p[i] \in Nat /\ p[i] <= Len(d)
  BY <1>1, <1>2
<1>4. ASSUME i < Len(tags)
      PROVE  /\ i + 1 \in 0 .. Len(tags)
             /\ tags[i + 1] \in Tag
             /\ p[i + 1] \in Nat /\ p[i + 1] <= Len(d)
             /\ FrameAt(as, d, tags[i + 1], p[i], p[i + 1])
  <2>1. i + 1 \in 1 .. Len(tags) /\ i + 1 \in 0 .. Len(tags) /\ (i + 1) - 1 = i
    BY <1>1, <1>4
  <2>2. p[i + 1] \in 0 .. Len(d)
    BY <1>2, <2>1
  <2>3. tags[i + 1] \in Tag
    BY <2>1, ElementOfSeq
  <2>4. FrameAt(as, d, tags[i + 1], p[i], p[i + 1])
    BY <1>2, <2>1
  <2>5. QED
    BY <1>1, <2>1, <2>2, <2>3, <2>4
<1>5. QED
  BY <1>1, <1>2, <1>3, <1>4

\* A payload of bare frames: what the decompressor reads at a cut.
LEMMA PlainWalk ==
  ASSUME NEW d \in Seq(Nat), NEW tags \in Seq(Tag), NEW p,
         Spells("plain", d, tags, p), NEW i \in 0 .. Len(tags)
  PROVE  IF i < Len(tags)
         THEN TagAt(d, p[i]) = tags[i + 1] /\ FrameEnd(d, p[i]) = p[i + 1]
              /\ p[i] < p[i + 1] /\ p[i + 1] <= Len(d)
         ELSE TagAt(d, p[i]) = 0 /\ FrameEnd(d, p[i]) > Len(d)
<1>1. CASE i < Len(tags)
  <2>1. /\ p[i] \in Nat /\ p[i + 1] \in Nat /\ p[i + 1] <= Len(d)
        /\ tags[i + 1] \in Tag
        /\ Spans(d, tags[i + 1], p[i], p[i + 1])
    BY <1>1, CutsAre DEF FrameAt
  <2>2. QED
    BY <1>1, <2>1, SpansTag
<1>2. CASE ~ (i < Len(tags))
  <2>1. p[i] = Len(d) /\ Len(d) \in Nat
    BY <1>2, CutsAre
  <2>2. TagAt(d, p[i]) = 0
    BY <2>1 DEF TagAt
  <2>3. FrameEnd(d, p[i]) = Len(d) + 1
    BY <2>1, <2>2 DEF FrameEnd
  <2>4. QED
    BY <1>2, <2>1, <2>2, <2>3
<1>3. QED
  BY <1>1, <1>2

\* A word of a chunk is a number.
LEMMA WordNat ==
  ASSUME NEW d \in Seq(Nat), NEW p \in Nat, p + 4 <= Len(d)
  PROVE  Word(d, p) \in Nat
<1>1. \A i \in 1 .. 4 : p + i \in 1 .. Len(d)
  OBVIOUS
<1>2. \A i \in 1 .. 4 : d[p + i] \in Nat
  BY <1>1, ElementOfSeq
<1> DEFINE b1 == d[p + 1]
           b2 == d[p + 2]
           b3 == d[p + 3]
           b4 == d[p + 4]
<1>3. b1 \in Nat /\ b2 \in Nat /\ b3 \in Nat /\ b4 \in Nat
  BY <1>2
<1>4. Word(d, p) = b1 + 256 * b2 + 65536 * b3 + 16777216 * b4
  BY DEF Word
<1> HIDE DEF b1, b2, b3, b4
<1>5. QED
  BY <1>3, <1>4

\* Escape 100 and 102: a frame, and the end of the chunk,
LEMMA Esc100At ==
  ASSUME data \in Seq(Nat), pos \in Nat, NEW to \in Nat, to <= Len(data),
         NEW tag \in Tag, FrameAt("esc100", data, tag, pos, to)
  PROVE  IF tag # Damaged
         THEN Esc100Used # 0 /\ TagAt(data, pos) = tag /\ pos + Esc100Used = to
         ELSE Esc100Used = 0
<1> DEFINE n == Len(data)
           more == IF tag % 2 = 0 THEN 8 ELSE 4
<1>0. CASE HeaderCut(data, tag, pos, to)
  <2> DEFINE first == data[pos + 1]
  <2>1. tag = Damaged /\ pos + 8 > Len(data) /\ pos < Len(data) /\ first % 2 = 0
    BY <1>0 DEF HeaderCut
  <2>2. TagAt(data, pos) = first
    BY <2>1 DEF TagAt
  <2> HIDE DEF first
  <2>3. Esc100Used = 0
    BY <2>1, <2>2 DEF Esc100Used
  <2>4. QED
    BY <2>1, <2>3
<1> SUFFICES ASSUME ~ HeaderCut(data, tag, pos, to)
             PROVE  IF tag # Damaged
                    THEN /\ Esc100Used # 0 /\ TagAt(data, pos) = tag
                         /\ pos + Esc100Used = to
                    ELSE Esc100Used = 0
  BY <1>0
<1>1. to = pos + more /\ data[pos + 1] = tag
  BY DEF FrameAt
<1>2. more \in {4, 8} /\ more = 4 + (IF tag % 2 = 0 THEN 4 ELSE 0) /\ n \in Nat
  BY DEF Tag
<1> HIDE DEF n, more
<1>3. pos < n /\ ~ (pos + 4 > n)
  BY <1>1, <1>2 DEF n
<1>4. TagAt(data, pos) = tag /\ tag # 0
  BY <1>1, <1>3 DEF TagAt, Tag, n
<1>5. Esc100Used = IF tag = Damaged THEN 0 ELSE more
  BY <1>1, <1>2, <1>3, <1>4 DEF Esc100Used, n
<1>6. QED
  BY <1>1, <1>2, <1>4, <1>5

LEMMA Esc100End ==
  ASSUME pos \in Nat, pos = Len(data)
  PROVE  Esc100Used = 0
<1>1. pos + 4 > Len(data)
  OBVIOUS
<1>2. QED
  BY <1>1 DEF Esc100Used

LEMMA Esc100Walk ==
  ASSUME data \in Seq(Nat), NEW tags \in Seq(Tag), NEW p,
         Spells("esc100", data, tags, p), NEW i \in 0 .. Len(tags), pos = p[i]
  PROVE  IF i < Len(tags) /\ tags[i + 1] # Damaged
         THEN /\ Esc100Used # 0 /\ TagAt(data, pos) = tags[i + 1]
              /\ pos + Esc100Used = p[i + 1]
         ELSE Esc100Used = 0
<1>1. CASE i < Len(tags)
  <2> DEFINE tag == tags[i + 1]
             to == p[i + 1]
  <2>1. /\ pos \in Nat /\ to \in Nat /\ to <= Len(data) /\ tag \in Tag
        /\ FrameAt("esc100", data, tag, pos, to)
    BY <1>1, CutsAre
  <2> HIDE DEF tag, to
  <2>2. IF tag # Damaged
       THEN Esc100Used # 0 /\ TagAt(data, pos) = tag /\ pos + Esc100Used = to
       ELSE Esc100Used = 0
    BY <2>1, Esc100At
  <2>3. QED
    BY <1>1, <2>2 DEF tag, to
<1>2. CASE ~ (i < Len(tags))
  <2>1. pos = Len(data) /\ Len(data) \in Nat
    BY <1>2, CutsAre
  <2>2. QED
    BY <1>2, <2>1, Esc100End
<1>3. QED
  BY <1>1, <1>2

\* Escape 124,
LEMMA Esc124At ==
  ASSUME data \in Seq(Nat), pos \in Nat, NEW to \in Nat, to <= Len(data),
         NEW tag \in Tag, FrameAt("esc124", data, tag, pos, to)
  PROVE  IF tag # Damaged
         THEN Esc124Fits /\ TagAt(data, pos) = tag /\ pos + Esc124Size = to
         ELSE ~ Esc124Fits
<1> DEFINE n == Len(data)
           w == Word(data, pos + 4)
<1>1. /\ to >= pos + 8 /\ data[pos + 1] = tag /\ n \in Nat
      /\ IF tag = Damaged THEN w < 8 ELSE w = to - pos
  BY DEF FrameAt
<1>2. pos < n /\ ~ (pos + 8 > n) /\ pos + 4 \in Nat /\ (pos + 4) + 4 <= n
  BY <1>1
<1>3. w \in Nat
  BY <1>2, WordNat
<1> HIDE DEF n, w
<1>4. TagAt(data, pos) = tag
  BY <1>1, <1>2 DEF TagAt, n
<1>5. Esc124Size = w
  BY <1>2 DEF Esc124Size, n, w
<1>6. Esc124Fits <=> w >= 8 /\ pos + w <= n
  BY <1>5 DEF Esc124Fits, n
<1>7. tag = Damaged => ~ (w >= 8)
  BY <1>1, <1>3
<1>8. tag # Damaged => w >= 8 /\ pos + w = to /\ pos + w <= n
  BY <1>1, <1>3 DEF n
<1>9. QED
  BY <1>4, <1>5, <1>6, <1>7, <1>8

LEMMA Esc124End ==
  ASSUME pos \in Nat, pos = Len(data)
  PROVE  ~ Esc124Fits
<1>1. pos + 8 > Len(data)
  OBVIOUS
<1>2. Esc124Size = 0
  BY <1>1 DEF Esc124Size
<1>3. QED
  BY <1>2 DEF Esc124Fits

LEMMA Esc124Walk ==
  ASSUME data \in Seq(Nat), NEW tags \in Seq(Tag), NEW p,
         Spells("esc124", data, tags, p), NEW i \in 0 .. Len(tags), pos = p[i]
  PROVE  IF i < Len(tags) /\ tags[i + 1] # Damaged
         THEN /\ Esc124Fits /\ TagAt(data, pos) = tags[i + 1]
              /\ pos + Esc124Size = p[i + 1]
         ELSE ~ Esc124Fits
<1>1. CASE i < Len(tags)
  <2> DEFINE tag == tags[i + 1]
             to == p[i + 1]
  <2>1. /\ pos \in Nat /\ to \in Nat /\ to <= Len(data) /\ tag \in Tag
        /\ FrameAt("esc124", data, tag, pos, to)
    BY <1>1, CutsAre
  <2> HIDE DEF tag, to
  <2>2. IF tag # Damaged
       THEN Esc124Fits /\ TagAt(data, pos) = tag /\ pos + Esc124Size = to
       ELSE ~ Esc124Fits
    BY <2>1, Esc124At
  <2>3. QED
    BY <1>1, <2>2 DEF tag, to
<1>2. CASE ~ (i < Len(tags))
  <2>1. pos = Len(data) /\ Len(data) \in Nat
    BY <1>2, CutsAre
  <2>2. QED
    BY <1>2, <2>1, Esc124End
<1>3. QED
  BY <1>1, <1>2

\* and Iota's film.
LEMMA TcaAt ==
  ASSUME data \in Seq(Nat), pos \in Nat, NEW to \in Nat, to <= Len(data),
         NEW tag \in Tag, FrameAt("tca", data, tag, pos, to)
  PROVE  /\ TcaLength # 0 /\ TagAt(data, pos + 4) = tag /\ pos + TcaLength = to
         /\ TcaBad <=> tag = Damaged
<1> DEFINE n == Len(data)
           w == Word(data, pos)
<1>1. /\ to >= pos + 8 /\ data[pos + 5] = tag /\ n \in Nat /\ w = to - pos
  BY DEF FrameAt
<1>2. pos + 4 < n /\ ~ (pos + 4 > n) /\ (pos + 4) + 1 = pos + 5 /\ to <= n
  BY <1>1
<1> HIDE DEF n, w
<1>3. TagAt(data, pos + 4) = tag
  BY <1>1, <1>2 DEF TagAt, n
<1>4. TcaLength = w
  BY <1>2 DEF TcaLength, n, w
<1>5. w # 0 /\ ~ (w < 8) /\ ~ (w > n - pos) /\ pos + w = to
  BY <1>1, <1>2
<1>6. TcaBad <=> tag = Damaged
  BY <1>3, <1>4, <1>5 DEF TcaBad, n
<1>7. QED
  BY <1>3, <1>4, <1>5, <1>6

LEMMA TcaEnd ==
  ASSUME pos \in Nat, pos = Len(data)
  PROVE  TcaLength = 0
<1>1. pos + 4 > Len(data)
  OBVIOUS
<1>2. QED
  BY <1>1 DEF TcaLength

LEMMA TcaWalk ==
  ASSUME data \in Seq(Nat), NEW tags \in Seq(Tag), NEW p,
         Spells("tca", data, tags, p), NEW i \in 0 .. Len(tags), pos = p[i]
  PROVE  IF i < Len(tags)
         THEN /\ TcaLength # 0 /\ TagAt(data, pos + 4) = tags[i + 1]
              /\ pos + TcaLength = p[i + 1]
              /\ TcaBad <=> tags[i + 1] = Damaged
         ELSE TcaLength = 0
<1>1. CASE i < Len(tags)
  <2> DEFINE tag == tags[i + 1]
             to == p[i + 1]
  <2>1. /\ pos \in Nat /\ to \in Nat /\ to <= Len(data) /\ tag \in Tag
        /\ FrameAt("tca", data, tag, pos, to)
    BY <1>1, CutsAre
  <2> HIDE DEF tag, to
  <2>2. /\ TcaLength # 0 /\ TagAt(data, pos + 4) = tag
        /\ pos + TcaLength = to /\ (TcaBad <=> tag = Damaged)
    BY <2>1, TcaAt
  <2>3. QED
    BY <1>1, <2>2 DEF tag, to
<1>2. CASE ~ (i < Len(tags))
  <2>1. pos = Len(data) /\ Len(data) \in Nat
    BY <1>2, CutsAre
  <2>2. QED
    BY <1>2, <2>1, TcaEnd
<1>3. QED
  BY <1>1, <1>2

\* Whole words of padding between the end of a frame and the next wrapper.
Rests(d, from, to) ==
  /\ from \in Nat /\ from <= to /\ (to - from) % 4 = 0
  /\ \A j \in from + 1 .. to : d[j] = 0

\* The iterator's skip ends at the wrapper.
LEMMA SkipsRest ==
  ASSUME NEW d \in Seq(Nat), NEW from \in Nat, NEW to \in Nat, to <= Len(d),
         Rests(d, from, to), to + 4 <= Len(d) => Word(d, to) # 0
  PROVE  SkipZeros(d, from) = to
<1> DEFINE n == Len(d)
           T == {q \in from .. n : /\ (q - from) % 4 = 0
                                   /\ q + 4 <= n => Word(d, q) # 0}
<1>1. n \in Nat
  OBVIOUS
<1>2. to \in T
  BY <1>1 DEF Rests
<1>3. \A q \in T : to <= q
  <2>1. SUFFICES ASSUME NEW q \in T, q < to PROVE FALSE
    BY <1>1
  <2>2. q \in Nat /\ from <= q /\ (q - from) % 4 = 0 /\ (to - from) % 4 = 0
    BY <2>1 DEF Rests
  <2>3. q + 4 <= to
    BY <2>1, <2>2
  <2>4. \A j \in q + 1 .. q + 4 : d[j] = 0
    BY <2>2, <2>3 DEF Rests
  <2>5. d[q + 1] = 0 /\ d[q + 2] = 0 /\ d[q + 3] = 0 /\ d[q + 4] = 0
    BY <2>2, <2>4
  <2>6. Word(d, q) = 0
    BY <2>5 DEF Word
  <2>7. QED
    BY <1>1, <2>1, <2>2, <2>3, <2>6
<1>4. T \in SUBSET Nat
  BY <1>1
<1> HIDE DEF T
<1>5. Min(T) \in T /\ \A q \in T : Min(T) <= q
  <2>1. \E m \in T : \A q \in T : m <= q
    BY <1>2, <1>3
  <2>2. QED
    BY <2>1 DEF Min
<1>6. Min(T) = to
  <2>1. Min(T) \in Nat /\ Min(T) <= to /\ to <= Min(T)
    BY <1>2, <1>3, <1>4, <1>5
  <2>2. QED
    BY <2>1
<1>7. QED
  BY <1>6 DEF SkipZeros, T

Wrappers == {"moviefs", "videofs"}

\* At a wrapper the iterator finds its codec frame,
LEMMA WrapperFound ==
  ASSUME NEW d \in Seq(Nat), NEW kind \in Wrappers, NEW tag \in Tag,
         NEW at0 \in Nat, NEW to \in Nat, to <= Len(d),
         WrapperAt(kind, d, tag, at0, to), NEW from \in Nat, Rests(d, from, at0)
  PROVE  LET next == IterNext(d, kind, from)
         IN  /\ next.found /\ next.frame = FrameBytes(tag)
             /\ next.pos \in Nat /\ Rests(d, next.pos, to)
<1> DEFINE n == Len(d)
           len == Len(FrameBytes(tag))
           start == at0 + WrapHeader
           end == start + len
           over == Overhead(kind)
           w == Word(d, at0)
<1>1. n \in Nat /\ len \in {1, 3} /\ over \in {12, 28} /\ start = at0 + 16
  BY FrameBytesIs DEF Overhead, WrapHeader
<1>2. /\ end <= to /\ (to - end) % 4 = 0 /\ w = len + over
      /\ Spans(d, tag, start, end)
      /\ \A i \in end + 1 .. to : d[i] = 0
  BY DEF WrapperAt
<1>3. Bytes(d, start, end - start) = FrameBytes(tag)
  BY <1>2 DEF Spans
<1> HIDE DEF len, over, w, n, start
<1>4. /\ w # 0 /\ w - over = len /\ start \in Nat /\ end - start = len
      /\ end \in Nat /\ start <= n /\ len > 0 /\ end <= n /\ at0 <= n
  BY <1>1, <1>2 DEF n
<1> HIDE DEF end
<1>5. SkipZeros(d, from) = at0
  BY <1>4, SkipsRest DEF w, n
<1>6. IterNext(d, kind, from) = Wrapped(d, kind, at0)
  BY <1>5 DEF IterNext, Wrappers
<1>7. w - over = len /\ Bytes(d, start, w - over) = FrameBytes(tag)
      /\ start + (w - over) = end
  BY <1>1, <1>3, <1>4 DEF end
<1>8. Wrapped(d, kind, at0) =
        [found |-> TRUE, frame |-> FrameBytes(tag), pos |-> end]
  <2>1. Wrapped(d, kind, at0) =
          IF start <= n /\ w - over > 0 /\ start + (w - over) <= n
          THEN [found |-> TRUE, frame |-> Bytes(d, start, w - over),
                pos |-> start + (w - over)]
          ELSE NoFrame
    BY DEF Wrapped, start, w, over, n
  <2>2. QED
    BY <1>4, <1>7, <2>1
<1>9. Rests(d, end, to)
  BY <1>2, <1>4 DEF Rests
<1>10. QED
  BY <1>4, <1>6, <1>8, <1>9

\* at a torn one
LEMMA TornLost ==
  ASSUME NEW d \in Seq(Nat), NEW kind \in Wrappers,
         NEW at0 \in Nat, NEW to \in Nat, to <= Len(d),
         TornAt(kind, d, at0, to), NEW from \in Nat, Rests(d, from, at0)
  PROVE  ~ IterNext(d, kind, from).found
<1> DEFINE n == Len(d)
           start == at0 + WrapHeader
           over == Overhead(kind)
           w == Word(d, at0)
<1>1. n \in Nat /\ over \in {12, 28} /\ start = at0 + 16
  BY DEF Overhead, WrapHeader
<1>2. at0 + 4 <= to /\ w # 0 /\ (w <= over \/ start + w - over > n)
  BY DEF TornAt
<1>3. at0 + 4 <= n
  BY <1>1, <1>2
<1>4. w \in Nat
  BY <1>3, WordNat
<1> HIDE DEF n, over, w, start
<1>5. SkipZeros(d, from) = at0
  BY <1>1, <1>2, <1>3, SkipsRest DEF w, n
<1>6. IterNext(d, kind, from) = Wrapped(d, kind, at0)
  BY <1>5 DEF IterNext, Wrappers
<1>7. ~ (w - over > 0 /\ start + (w - over) <= n)
  BY <1>1, <1>2, <1>4
<1>8. Wrapped(d, kind, at0) =
          IF start <= n /\ w - over > 0 /\ start + (w - over) <= n
          THEN [found |-> TRUE, frame |-> Bytes(d, start, w - over),
                pos |-> start + (w - over)]
          ELSE NoFrame
  BY DEF Wrapped, start, w, over, n
<1>9. QED
  BY <1>6, <1>7, <1>8 DEF NoFrame

\* and behind the last one it finds nothing.
LEMMA WrapperEnd ==
  ASSUME NEW d \in Seq(Nat), NEW kind \in Wrappers,
         NEW from \in Nat, Rests(d, from, Len(d))
  PROVE  ~ IterNext(d, kind, from).found
<1> DEFINE n == Len(d)
<1>1. n \in Nat /\ ~ (n + 4 <= n) /\ ~ (n + WrapHeader <= n)
  BY DEF WrapHeader
<1>2. SkipZeros(d, from) = n
  BY <1>1, SkipsRest
<1>3. IterNext(d, kind, from) = Wrapped(d, kind, n)
  BY <1>2 DEF IterNext, Wrappers
<1>4. Wrapped(d, kind, n) = NoFrame
  BY <1>1 DEF Wrapped
<1>5. QED
  BY <1>3, <1>4 DEF NoFrame

\* A wrapped chunk, frame by frame.
LEMMA WrapperWalk ==
  ASSUME NEW d \in Seq(Nat), NEW kind \in Wrappers, NEW tags \in Seq(Tag),
         NEW p, Spells(kind, d, tags, p), NEW i \in 0 .. Len(tags),
         NEW from \in Nat, Rests(d, from, p[i])
  PROVE  LET next == IterNext(d, kind, from)
         IN  IF i < Len(tags) /\ tags[i + 1] # Torn
             THEN /\ next.found /\ next.frame = FrameBytes(tags[i + 1])
                  /\ next.pos \in Nat /\ Rests(d, next.pos, p[i + 1])
             ELSE ~ next.found
<1>1. CASE i < Len(tags)
  <2> DEFINE tag == tags[i + 1]
             to == p[i + 1]
             at0 == p[i]
  <2>1. /\ at0 \in Nat /\ to \in Nat /\ to <= Len(d) /\ tag \in Tag
        /\ FrameAt(kind, d, tag, at0, to) /\ Rests(d, from, at0)
    BY <1>1, CutsAre
  <2> HIDE DEF tag, to, at0
  <2>2. IF tag = Torn THEN TornAt(kind, d, at0, to)
        ELSE WrapperAt(kind, d, tag, at0, to)
    BY <2>1 DEF FrameAt, Wrappers
  <2>3. CASE tag = Torn
    <3>1. ~ IterNext(d, kind, from).found
      BY <2>1, <2>2, <2>3, TornLost
    <3>2. QED
      BY <2>3, <3>1 DEF tag
  <2>4. CASE tag # Torn
    <3>1. LET next == IterNext(d, kind, from)
          IN  /\ next.found /\ next.frame = FrameBytes(tag)
              /\ next.pos \in Nat /\ Rests(d, next.pos, to)
      BY <2>1, <2>2, <2>4, WrapperFound
    <3>2. QED
      BY <1>1, <2>4, <3>1 DEF tag, to
  <2>5. QED
    BY <2>3, <2>4
<1>2. CASE ~ (i < Len(tags))
  <2>1. p[i] = Len(d)
    BY <1>2, CutsAre
  <2>2. ~ IterNext(d, kind, from).found
    BY <2>1, WrapperEnd
  <2>3. QED
    BY <1>2, <2>2
<1>3. QED
  BY <1>1, <1>2

\* Codec frames put one behind the other: what the unwrapping makes of them.
LEMMA SpellsMore ==
  ASSUME NEW d \in Seq(Nat), NEW tags \in Seq(Tag), NEW p,
         Spells("plain", d, tags, p), NEW tag \in Tag
  PROVE  /\ d \o FrameBytes(tag) \in Seq(Nat)
         /\ \E q : Spells("plain", d \o FrameBytes(tag), Append(tags, tag), q)
<1> DEFINE n == Len(tags)
           len == Len(FrameBytes(tag))
           e == d \o FrameBytes(tag)
           more == Append(tags, tag)
           q == [i \in 0 .. n + 1 |-> IF i = n + 1 THEN Len(d) + len ELSE p[i]]
<1>1. /\ n \in Nat /\ Len(d) \in Nat /\ len \in {1, 3}
      /\ FrameBytes(tag) \in Seq(Nat)
  BY FrameBytesIs
<1>2. /\ e \in Seq(Nat) /\ Len(e) = Len(d) + len
      /\ \A j \in 1 .. Len(d) + len :
           e[j] = IF j <= Len(d) THEN d[j] ELSE FrameBytes(tag)[j - Len(d)]
  BY <1>1, ConcatProperties
<1>3. /\ more \in Seq(Tag) /\ Len(more) = n + 1 /\ more[n + 1] = tag
      /\ \A i \in 1 .. n : more[i] = tags[i]
  BY AppendProperties
<1>4. /\ p \in [0 .. n -> 0 .. Len(d)] /\ p[0] = 0 /\ p[n] = Len(d)
      /\ \A i \in 1 .. n : Spans(d, tags[i], p[i - 1], p[i])
  BY DEF Spells, FrameAt
<1> HIDE DEF e, more, len
<1>5. q \in [0 .. n + 1 -> 0 .. Len(e)]
  <2>1. SUFFICES ASSUME NEW i \in 0 .. n + 1 PROVE q[i] \in 0 .. Len(e)
    OBVIOUS
  <2>2. CASE i = n + 1
    BY <1>1, <1>2, <2>2
  <2>3. CASE i # n + 1
    <3>1. i \in 0 .. n /\ q[i] = p[i]
      BY <1>1, <2>3
    <3>2. p[i] \in 0 .. Len(d)
      BY <1>4, <3>1
    <3>3. QED
      BY <1>1, <1>2, <3>1, <3>2
  <2>4. QED
    BY <2>2, <2>3
<1>6. q[0] = 0 /\ q[n + 1] = Len(e) /\ q[n] = Len(d)
  BY <1>1, <1>2, <1>4
<1>7. \A i \in 0 .. n : q[i] = p[i]
  BY <1>1
<1> HIDE DEF q
<1>8. \A from \in Nat, to \in Nat : to <= Len(d) =>
        Bytes(e, from, to - from) = Bytes(d, from, to - from)
  <2>1. SUFFICES ASSUME NEW from \in Nat, NEW to \in Nat, to <= Len(d)
                 PROVE  Bytes(e, from, to - from) = Bytes(d, from, to - from)
    OBVIOUS
  <2>2. from + (to - from) = to /\ from + 1 \in Int /\ to \in Int
    OBVIOUS
  <2>3. \A j \in from + 1 .. to :
          j \in 1 .. Len(d) /\ j \in 1 .. Len(d) + len /\ j <= Len(d)
    BY <1>1, <2>1
  <2>4. \A j \in from + 1 .. to : e[j] = d[j] /\ d[j] \in Nat /\ e[j] \in Nat
    BY <1>2, <2>3, ElementOfSeq
  <2> DEFINE k == to - (from + 1) + 1
             s == SubSeq(e, from + 1, to)
             t == SubSeq(d, from + 1, to)
  <2>5. /\ s \in Seq(Nat) /\ t \in Seq(Nat)
        /\ Len(s) = (IF from + 1 <= to THEN k ELSE 0) /\ Len(t) = Len(s)
        /\ \A j \in 1 .. k : s[j] = e[(from + 1) + j - 1]
                             /\ t[j] = d[(from + 1) + j - 1]
    BY <2>2, <2>4, SubSeqProperties
  <2>6. \A j \in 1 .. Len(s) : j \in 1 .. k
                             /\ (from + 1) + j - 1 \in from + 1 .. to
    BY <2>2, <2>5
  <2> HIDE DEF s, t, k
  <2>7. \A j \in 1 .. Len(s) : s[j] = t[j]
    BY <2>4, <2>5, <2>6
  <2>8. s = t
    BY <2>5, <2>7, SeqEqual
  <2>9. QED
    BY <2>2, <2>8 DEF Bytes, s, t
<1>9. ASSUME NEW i \in 1 .. n + 1
      PROVE  Spans(e, more[i], q[i - 1], q[i])
  <2>1. CASE i = n + 1
    <3>1. q[i - 1] = Len(d) /\ q[i] = Len(d) + len /\ more[i] = tag
      BY <1>1, <1>2, <1>3, <1>6, <2>1
    <3>2. Bytes(e, Len(d), len) = FrameBytes(tag)
      <4> DEFINE s == SubSeq(e, Len(d) + 1, Len(d) + len)
                 k == (Len(d) + len) - (Len(d) + 1) + 1
      <4>1. Len(d) + 1 \in Int /\ Len(d) + len \in Int /\ k = len
            /\ Len(d) + 1 <= Len(d) + len
        BY <1>1
      <4>2. \A j \in Len(d) + 1 .. Len(d) + len : e[j] \in Nat
        <5>1. \A j \in Len(d) + 1 .. Len(d) + len : j \in 1 .. Len(e)
          BY <1>1, <1>2
        <5>2. QED
          BY <1>2, <5>1, ElementOfSeq
      <4>3. /\ s \in Seq(Nat) /\ Len(s) = k
            /\ \A j \in 1 .. k : s[j] = e[(Len(d) + 1) + j - 1]
        BY <4>1, <4>2, SubSeqProperties
      <4>4. \A j \in 1 .. len : /\ (Len(d) + 1) + j - 1 = Len(d) + j
                                /\ Len(d) + j \in 1 .. Len(d) + len
                                /\ ~ (Len(d) + j <= Len(d))
                                /\ (Len(d) + j) - Len(d) = j
        BY <1>1
      <4> HIDE DEF s, k
      <4>5. \A j \in 1 .. len : s[j] = FrameBytes(tag)[j]
        BY <1>2, <4>1, <4>3, <4>4
      <4>6. s = FrameBytes(tag)
        BY <1>1, <4>1, <4>3, <4>5, SeqEqual DEF len
      <4>7. QED
        BY <4>6 DEF Bytes, s
    <3>3. (Len(d) + len) - Len(d) = len
      BY <1>1
    <3>4. QED
      BY <3>1, <3>2, <3>3 DEF Spans, len
  <2>2. CASE i # n + 1
    <3>1. i \in 1 .. n /\ i - 1 \in 0 .. n /\ i \in 0 .. n
      BY <1>1, <2>2
    <3>2. Spans(d, tags[i], p[i - 1], p[i]) /\ more[i] = tags[i]
      BY <1>3, <1>4, <3>1
    <3>3. q[i - 1] = p[i - 1] /\ q[i] = p[i]
      BY <1>7, <3>1
    <3>4. p[i - 1] \in Nat /\ p[i] \in Nat /\ p[i] <= Len(d)
      <4>1. p[i - 1] \in 0 .. Len(d) /\ p[i] \in 0 .. Len(d)
        BY <1>4, <3>1
      <4>2. QED
        BY <1>1, <4>1
    <3>5. Bytes(e, p[i - 1], p[i] - p[i - 1]) = Bytes(d, p[i - 1], p[i] - p[i - 1])
      BY <1>8, <3>4
    <3>6. QED
      BY <3>2, <3>3, <3>5 DEF Spans
  <2>3. QED
    BY <2>1, <2>2
<1>10. Spells("plain", e, more, q)
  <2>1. \A i \in 1 .. n + 1 : FrameAt("plain", e, more[i], q[i - 1], q[i])
    BY <1>9 DEF FrameAt
  <2>2. QED
    BY <1>3, <1>5, <1>6, <2>1 DEF Spells
<1>11. QED
  BY <1>2, <1>10 DEF e, more

-----------------------------------------------------------------------------
\* How far the pictures are.

\* k pictures of those promised have been shown.
Told(k) == k \in 0 .. Len(Promised) /\ Shown = SubSeq(Promised, 1, k)

\* The decoder's picture is made of the first k tags.
Native == {"esc100", "esc122", "esc124", "esc130", "tca"}

Held(k) ==
  /\ Route \in Native => picture = First(k)
  /\ Route = "module" => memory[cur_prev] = First(k)

\* The sandbox has its two buffers.
Buffered ==
  memory = [b \in Buffers |-> memory[b]] /\ {cur_out, cur_prev} \subseteq Buffers

\* After the first c chunks, and after i frames of chunk c.
Had(c) == Told(Due(c)) /\ Held(Done(c))
Got(c, i) == Told(Due(c - 1) + i) /\ Held(Done(c - 1) + i)

\* What the decompressor is given of a chunk and how much it is asked for.
Payload(c) ==
  IF video.wrapper THEN Before(movie.laid[c], {Torn}) ELSE movie.laid[c]
Want(c) ==
  IF video.wrapper THEN Len(Payload(c)) ELSE movie.frames_per_chunk

\* All of it is told by the movie and the command line.
LEMMA PlanSame ==
  ASSUME Steady
  PROVE  /\ movie' = movie /\ options' = options /\ Route' = Route
         /\ HaveVideo' = HaveVideo /\ Chunks' = Chunks
         /\ Promised' = Promised /\ Usable' = Usable /\ video' = video
         /\ \A c : /\ Due(c)' = Due(c) /\ Done(c)' = Done(c) /\ Fit(c)' = Fit(c)
                   /\ First(c)' = First(c)
                   /\ Payload(c)' = Payload(c) /\ Want(c)' = Want(c)
<1>1. movie' = movie /\ options' = options /\ Route' = Route /\ Chunks' = Chunks
      /\ HaveVideo' = HaveVideo
  BY Unchanging
<1>2. /\ Usable' = Usable /\ Promised' = Promised /\ All' = All
      /\ \A c : AllTags(c)' = AllTags(c)
  BY LaidSame
<1>3. \A c : Done(c)' = Done(c)
  BY <1>2, Zenon DEF Done
<1>4. \A c : First(c)' = First(c)
  BY <1>2, Zenon DEF First
<1>5. \A c : Fit(c)' = Fit(c)
  BY <1>2, Zenon DEF Fit
<1>6. FilledParts' = FilledParts
  BY <1>1, Zenon DEF FilledParts
<1>7. \A c : Due(c)' = Due(c)
  BY <1>1, <1>3, <1>6, Zenon DEF Due, UpTo
<1>8. video' = video
  BY <1>1, Zenon DEF video
<1>9. \A c : Payload(c)' = Payload(c)
  BY <1>1, <1>8, Zenon DEF Payload, Before
<1>10. \A c : Want(c)' = Want(c)
  BY <1>1, <1>8, <1>9, Zenon DEF Want
<1>11. QED
  BY <1>1, <1>2, <1>3, <1>4, <1>5, <1>7, <1>8, <1>9, <1>10

\* One picture more,
LEMMA ToldMore ==
  ASSUME movie \in Movies, Steady, NEW k, Told(k), k < Len(Promised),
         Shown' = Append(Shown, Promised[k + 1])
  PROVE  Told(k + 1)'
<1>1. Promised' = Promised
  BY PlanSame
<1>2. PICK S : Promised \in Seq(S)
  BY DueIs DEF IsSequence
<1> DEFINE P == Promised
<1>3. P \in Seq(S) /\ Len(P) \in Nat /\ k \in 0 .. Len(P) /\ k < Len(P)
      /\ Shown = SubSeq(P, 1, k)
  BY <1>2 DEF Told
<1> HIDE DEF P
<1>4. SubSeq(P, 1, k + 1) = Append(SubSeq(P, 1, k), P[k + 1])
  BY <1>3, Beginning
<1>5. k + 1 \in 0 .. Len(P)
  BY <1>3
<1> HIDE DEF Shown, Promised
<1>6. Shown' = SubSeq(P, 1, k + 1) /\ P' = P
  BY <1>1, <1>3, <1>4 DEF P
<1>7. QED
  BY <1>5, <1>6 DEF Told, P

\* or none.
LEMMA ToldSame ==
  ASSUME Steady, NEW k, Told(k), Shown' = Shown
  PROVE  Told(k)'
<1>1. Promised' = Promised
  BY PlanSame
<1> HIDE DEF Shown, Promised
<1>2. QED
  BY <1>1 DEF Told

\* What Told says of PicturesAsLaid.
LEMMA ToldBegins ==
  ASSUME movie \in Movies, NEW k, Told(k)
  PROVE  IsPrefix(Shown, Promised) /\ (k = Len(Promised) => Shown = Promised)
<1>1. PICK S : Promised \in Seq(S)
  BY DueIs DEF IsSequence
<1> DEFINE P == Promised
           s == Shown
<1>2. P \in Seq(S) /\ k \in 0 .. Len(P) /\ s = SubSeq(P, 1, k)
  BY <1>1 DEF Told
<1> HIDE DEF P, s
<1>3. /\ s \in Seq(S) /\ Len(s) = k /\ SubSeq(s, 1, Len(s)) = s
      /\ SubSeq(P, 1, Len(P)) = P
  BY <1>2, Beginning, SubSeqFull
<1>4. IsPrefix(s, P)
  BY <1>2, <1>3 DEF IsPrefix
<1>5. QED
  BY <1>2, <1>3, <1>4 DEF P, s

\* The tag that comes next makes the picture that comes next.
LEMMA FirstMore ==
  ASSUME movie \in Movies, NEW c \in 1 .. Chunks, NEW i \in Nat, i < Fit(c)
  PROVE  First(Done(c - 1) + i + 1)
           = Append(First(Done(c - 1) + i), movie.laid[c][i + 1])
<1> DEFINE k == Done(c - 1) + i
           all == All
<1>1. c - 1 \in 0 .. Chunks /\ c \in 0 .. Chunks
  BY TagsLie
<1>2. /\ All \in Seq(Tag) /\ Done(c - 1) \in 0 .. Len(All)
      /\ Done(c) \in 0 .. Len(All) /\ Fit(c) \in Nat
      /\ Done(c) = Done(c - 1) + Fit(c)
      /\ \A j \in 1 .. Fit(c) : All[Done(c - 1) + j] = movie.laid[c][j]
  BY <1>1, TagsLie
<1>3. i + 1 \in 1 .. Fit(c) /\ k \in 0 .. Len(All) /\ k < Len(All)
      /\ Done(c - 1) + (i + 1) = k + 1 /\ Done(c - 1) + i + 1 = k + 1
  BY <1>2
<1>4. All[k + 1] = movie.laid[c][i + 1]
  BY <1>2, <1>3
<1> HIDE DEF k
<1>5. First(k + 1) = Append(First(k), All[k + 1])
  BY <1>2, <1>3, Beginning DEF First
<1>6. QED
  BY <1>3, <1>4, <1>5 DEF k

\* What is given to the decompressor: the usable frames, behind which there is
\* nothing, a damaged frame, or one that is not asked for.
LEMMA PayloadIs ==
  ASSUME movie \in Movies, Route = "module", NEW c \in 1 .. Chunks
  PROVE  /\ Payload(c) \in Seq(Tag) /\ Want(c) \in Nat /\ Fit(c) \in Nat
         /\ Fit(c) <= Want(c) /\ Fit(c) <= Len(Payload(c))
         /\ \A i \in 1 .. Len(Payload(c)) : Payload(c)[i] = movie.laid[c][i]
         /\ \A i \in 1 .. Fit(c) : movie.laid[c][i] # Damaged
         /\ Fit(c) < Want(c) /\ Fit(c) < Len(Payload(c)) =>
              movie.laid[c][Fit(c) + 1] = Damaged
<1> DEFINE tags == movie.laid[c]
           n == Len(tags)
           f == Fit(c)
<1>1. tags \in Seq(Tag) /\ n \in Nat /\ ChunkLaid(movie, c)
      /\ movie.frames_per_chunk \in Nat
  BY LaidParts
<1>2. /\ f \in 0 .. n
      /\ \A i \in 1 .. f : tags[i] \notin Bad
      /\ f < n => tags[f + 1] \in Bad \/ (Counts /\ f = movie.frames_per_chunk)
      /\ Counts => f <= movie.frames_per_chunk
  BY UsableIs
<1> HIDE DEF f, tags
<1>3. \A i \in 1 .. f : tags[i] # Damaged
  BY <1>2 DEF Bad
<1>4. CASE video.wrapper
  <2> DEFINE b == Payload(c)
             m == Len(Payload(c))
  <2>1. b = Before(tags, {Torn}) /\ Want(c) = m /\ ~ Counts
    BY <1>4 DEF Payload, Want, tags, Counts
  <2>2. /\ m \in 0 .. n /\ b = SubSeq(tags, 1, m)
        /\ \A i \in 1 .. m : tags[i] \notin {Torn}
        /\ m < n => tags[m + 1] \in {Torn}
    BY <1>1, <2>1, BeforeEnds
  <2> HIDE DEF b, m
  <2>3. b \in Seq(Tag) /\ \A i \in 1 .. m : b[i] = tags[i]
    <3>1. tags \in Seq(Tag) /\ m \in 0 .. Len(tags)
      BY <1>1, <2>2
    <3>2. /\ SubSeq(tags, 1, m) \in Seq(Tag)
          /\ \A i \in 1 .. m : SubSeq(tags, 1, m)[i] = tags[i]
      BY <3>1, Beginning
    <3>3. QED
      BY <2>2, <3>2
  <2> HIDE DEF n
  <2>4. f <= m
    <3>1. SUFFICES ASSUME ~ (f <= m) PROVE FALSE
      OBVIOUS
    <3>2. m < n /\ m + 1 \in 1 .. f
      BY <1>1, <1>2, <2>2, <3>1
    <3>3. tags[m + 1] = Torn
      BY <2>2, <3>2
    <3>4. QED
      BY <1>2, <3>2, <3>3 DEF Bad
  <2>5. ASSUME f < m PROVE tags[f + 1] = Damaged
    <3>1. f < n /\ f + 1 \in 1 .. m
      BY <1>1, <1>2, <2>2, <2>5
    <3>2. tags[f + 1] \in Bad /\ tags[f + 1] # Torn
      BY <1>2, <2>1, <2>2, <3>1
    <3>3. QED
      BY <3>2 DEF Bad
  <2>6. m \in Nat /\ f \in Nat
    <3>1. m \in 0 .. n /\ f \in 0 .. n /\ n \in Nat
      BY <1>1, <1>2, <2>2
    <3>2. QED
      BY <3>1
  <2>7. f <= Want(c) /\ (f < Want(c) /\ f < m => tags[f + 1] = Damaged)
    BY <2>1, <2>4, <2>5
  <2>8. QED
    BY <1>3, <2>1, <2>3, <2>4, <2>6, <2>7 DEF b, m, f, tags
<1>5. CASE ~ video.wrapper
  <2>1. Payload(c) = tags /\ Want(c) = movie.frames_per_chunk /\ Counts
    BY <1>5 DEF Payload, Want, tags, Counts
  <2>2. Info(movie.video_codec).route \in {"module", "unknown", "type23"}
    BY DEF Route, video
  <2>3. \A i \in 1 .. n : tags[i] # Torn
    BY <1>1, <1>5, <2>2 DEF ChunkLaid, Free, video, tags
  <2>4. ASSUME f < movie.frames_per_chunk, f < n PROVE tags[f + 1] = Damaged
    <3>1. f + 1 \in 1 .. n /\ f # movie.frames_per_chunk
      BY <1>1, <1>2, <2>4
    <3>2. QED
      BY <1>2, <2>3, <2>4, <3>1 DEF Bad
  <2>5. f <= movie.frames_per_chunk /\ f <= n /\ f \in Nat
    BY <1>1, <1>2, <2>1
  <2>6. QED
    BY <1>1, <1>3, <2>1, <2>4, <2>5 DEF f, tags, n
<1>6. QED
  BY <1>4, <1>5

\* A chunk in the sandbox after i of its frames.
InModule(c, i) ==
  /\ i <= Fit(c) /\ left = Want(c) - i
  /\ payload_loaded /\ source \in Seq(Nat)
  /\ \E p : Spells("plain", source, Payload(c), p) /\ pos = p[i]

\* The decompressor decodes the frames that are usable and no other.
LEMMA ModuleWalk ==
  ASSUME movie \in Movies, Route = "module", NEW c \in 1 .. Chunks,
         NEW i \in Nat, InModule(c, i)
  PROVE  IF i < Fit(c)
         THEN /\ left > 0 /\ Decodes(pos)
              /\ TagAt(source, pos) = movie.laid[c][i + 1]
              /\ \E p : Spells("plain", source, Payload(c), p)
                          /\ FrameEnd(source, pos) = p[i + 1]
         ELSE i = Fit(c) /\ (left > 0 => ~ Decodes(pos))
<1> DEFINE f == Fit(c)
           w == Want(c)
           tags == Payload(c)
           n == Len(tags)
           laid == movie.laid[c]
<1>1. /\ tags \in Seq(Tag) /\ w \in Nat /\ f \in Nat /\ f <= w /\ f <= n
      /\ \A j \in 1 .. n : tags[j] = laid[j]
      /\ \A j \in 1 .. f : laid[j] # Damaged
      /\ f < w /\ f < n => laid[f + 1] = Damaged
  BY PayloadIs
<1>2. i <= f /\ left = w - i /\ payload_loaded /\ source \in Seq(Nat)
  BY DEF InModule
<1>3. PICK p : Spells("plain", source, tags, p) /\ pos = p[i]
  BY DEF InModule
<1> HIDE DEF f, w, tags, laid
<1>4. n \in Nat /\ i \in 0 .. n
  BY <1>1, <1>2
<1>5. IF i < n
      THEN TagAt(source, pos) = tags[i + 1] /\ FrameEnd(source, pos) = p[i + 1]
           /\ pos < p[i + 1] /\ p[i + 1] <= Len(source)
      ELSE TagAt(source, pos) = 0 /\ FrameEnd(source, pos) > Len(source)
  BY <1>1, <1>2, <1>3, <1>4, PlainWalk
<1>6. CASE i < f
  <2>1. i < n /\ i + 1 \in 1 .. n /\ i + 1 \in 1 .. f
    BY <1>1, <1>4, <1>6
  <2>2. TagAt(source, pos) = laid[i + 1] /\ laid[i + 1] # Damaged
    BY <1>1, <1>5, <2>1
  <2>3. left > 0
    BY <1>1, <1>2, <1>6
  <2>4. pos \in Nat /\ p[i + 1] \in Nat /\ Len(source) \in Nat
    BY <1>1, <1>2, <1>3, <1>4, <2>1, CutsAre
  <2>5. Decodes(pos)
    <3>1. pos <= Len(source) /\ FrameEnd(source, pos) <= Len(source)
      BY <1>5, <2>1, <2>4
    <3>2. QED
      BY <1>2, <2>2, <3>1 DEF Decodes, Runs, Returns
  <2>6. FrameEnd(source, pos) = p[i + 1]
    BY <1>5, <2>1
  <2>7. QED
    BY <1>3, <1>6, <2>2, <2>3, <2>5, <2>6 DEF f, laid, tags
<1>7. CASE ~ (i < f)
  <2>1. i = f
    BY <1>1, <1>2, <1>7
  <2>2. ASSUME left > 0 PROVE ~ Decodes(pos)
    <3>1. f < w
      BY <1>1, <1>2, <2>1, <2>2
    <3>2. CASE f < n
      <4>1. i + 1 \in 1 .. n /\ laid[i + 1] = Damaged
        BY <1>1, <1>4, <2>1, <3>1, <3>2
      <4>2. TagAt(source, pos) = Damaged
        BY <1>1, <1>5, <2>1, <3>2, <4>1
      <4>3. QED
        BY <4>2 DEF Decodes, Returns
    <3>3. CASE ~ (f < n)
      <4>1. FrameEnd(source, pos) > Len(source)
        BY <1>5, <2>1, <3>3
      <4>2. FrameEnd(source, pos) = Len(source) + 1 \/ TRUE
        OBVIOUS
      <4>3. ~ (FrameEnd(source, pos) <= Len(source))
        <5>1. ~ (i < n)
          BY <2>1, <3>3
        <5>2. i = n
          BY <1>4, <5>1
        <5>3. pos = Len(source) /\ Len(source) \in Nat
          BY <1>1, <1>2, <1>3, <1>4, <5>2, CutsAre
        <5>4. TagAt(source, pos) = 0
          BY <1>5, <5>1
        <5>5. FrameEnd(source, pos) = Len(source) + 1
          BY <5>3, <5>4 DEF FrameEnd
        <5>6. QED
          BY <5>3, <5>5
      <4>4. QED
        BY <4>3 DEF Decodes
    <3>4. QED
      BY <3>2, <3>3
  <2>3. QED
    BY <1>7, <2>1, <2>2 DEF f
<1>8. QED
  BY <1>6, <1>7 DEF f

\* A chunk half unwrapped: i codec frames taken out of their wrappers.
Unwrapped(c, i) ==
  /\ video.wrapper /\ movie.videos[c] # <<>> /\ ~ PaletteMissing
  /\ left = i /\ i \in 0 .. Len(Payload(c))
  /\ pos \in Nat /\ Rests(Unpaletted, pos, movie.cuts[c][i])
  /\ data \in Seq(Nat)
  /\ \E q : Spells("plain", data, SubSeq(Payload(c), 1, i), q)

\* MovieFS wrappers are for decompressors only.
LEMMA WrapperIsModule ==
  ASSUME NEW x, Info(x).wrapper
  PROVE  Info(x).route = "module"
<1>1. x \in MovieFsCodecs
  BY DEF Info
<1>2. x \in {602, 608, 615, 626} \cup {604, 606, 607, 609, 613, 624}
             \cup {600, 622, 623, 614}
  BY <1>1 DEF MovieFsCodecs
<1>3. /\ x \notin {601, 603, 605, 610, 628, 629} \cup {901, 902}
      /\ x \notin {100, 102, 122, 124, 130, 500, 23}
  BY <1>2
<1>4. x \notin PassMovieFs \cup PassVideoFs
  BY <1>3 DEF PassMovieFs, PassVideoFs
<1>5. QED
  BY <1>1, <1>3, <1>4 DEF Info

\* What is unwrapped is spelled as its movie says.
LEMMA UnpalettedLaid ==
  ASSUME movie \in Movies, NEW c \in 1 .. Chunks, chunk = c, video.wrapper,
         movie.videos[c] # <<>>, ~ PaletteMissing
  PROVE  /\ Unpaletted \in Seq(Nat)
         /\ Spells("moviefs", Unpaletted, movie.laid[c], movie.cuts[c])
<1> DEFINE bytes == movie.videos[c]
<1>1. bytes \in Seq(Nat) /\ vbytes = Len(bytes) /\ Len(bytes) \in Nat
  <2>1. movie.videos \in Seq(Seq(Nat)) /\ c \in 1 .. Len(movie.videos)
    BY MovieParts DEF Chunks
  <2>2. bytes \in Seq(Nat)
    BY <2>1, ElementOfSeq
  <2>3. QED
    BY <2>2 DEF vbytes
<1>2. ChunkLaid(movie, c) /\ PalettePrefix \in Nat
  BY LaidParts, MoviesAreLaid
<1>3. video.palette => Marked(bytes)
  <2>1. ASSUME video.palette PROVE Marked(bytes)
    <3>1. ~ (Len(bytes) < PalettePrefix) /\ \A i \in 1 .. 4 : bytes[i] = Marker
      BY <1>1, <2>1 DEF PaletteMissing
    <3>2. PalettePrefix <= Len(bytes)
      BY <1>1, <1>2, <3>1
    <3>3. QED
      BY <3>1, <3>2 DEF Marked
  <2>2. QED
    BY <2>1
<1>4. Unpaletted = Stripped(movie, bytes)
  BY <1>1 DEF Unpaletted, Stripped, video
<1>5. Unpaletted \in Seq(Nat)
  <2>1. CASE video.palette
    <3>1. Unpaletted = SubSeq(bytes, PalettePrefix + 1, Len(bytes))
      <4>1. PalettePrefix + (Len(bytes) - PalettePrefix) = Len(bytes)
        BY <1>1, <1>2
      <4>2. QED
        BY <1>1, <2>1, <4>1 DEF Unpaletted, Bytes
    <3>2. \A j \in PalettePrefix + 1 .. Len(bytes) : j \in 1 .. Len(bytes)
      BY <1>1, <1>2
    <3>3. \A j \in PalettePrefix + 1 .. Len(bytes) : bytes[j] \in Nat
      BY <1>1, <3>2, ElementOfSeq
    <3>4. QED
      BY <1>1, <1>2, <3>1, <3>3, SubSeqProperties
  <2>2. CASE ~ video.palette
    BY <1>1, <2>2 DEF Unpaletted
  <2>3. QED
    BY <2>1, <2>2
<1>6. Spells("moviefs", Stripped(movie, bytes), movie.laid[c], movie.cuts[c])
  <2>1. Info(movie.video_codec).wrapper
        /\ Info(movie.video_codec).route = "module"
    BY WrapperIsModule DEF video
  <2>2. \/ movie.videos[c] = <<>>
        \/ ~ (Info(movie.video_codec).palette => Marked(movie.videos[c]))
        \/ Spells("moviefs", Stripped(movie, movie.videos[c]), movie.laid[c],
                  movie.cuts[c])
    BY <1>2, <2>1 DEF ChunkLaid
  <2>3. QED
    BY <1>3, <2>2 DEF video
<1>7. QED
  BY <1>4, <1>5, <1>6

\* The unwrapping finds the codec frames before the first torn wrapper.
LEMMA UnwrapWalk ==
  ASSUME movie \in Movies, Route = "module", NEW c \in 1 .. Chunks, chunk = c,
         NEW i \in Nat, Unwrapped(c, i)
  PROVE  IF i < Len(Payload(c))
         THEN /\ NextWrapped.found
              /\ NextWrapped.frame = FrameBytes(movie.laid[c][i + 1])
              /\ movie.laid[c][i + 1] \in Tag
              /\ NextWrapped.pos \in Nat
              /\ Rests(Unpaletted, NextWrapped.pos, movie.cuts[c][i + 1])
         ELSE ~ NextWrapped.found
<1> DEFINE tags == movie.laid[c]
           n == Len(tags)
           b == Payload(c)
           m == Len(b)
           d == Unpaletted
           p == movie.cuts[c]
<1>1. tags \in Seq(Tag) /\ n \in Nat
  BY LaidParts
<1>2. d \in Seq(Nat) /\ Spells("moviefs", d, tags, p)
  BY UnpalettedLaid DEF Unwrapped
<1>3. i \in 0 .. m /\ pos \in Nat /\ Rests(d, pos, p[i])
  BY DEF Unwrapped
<1>4. b = Before(tags, {Torn})
  BY DEF Payload, Unwrapped
<1>5. /\ m \in 0 .. n
      /\ \A j \in 1 .. m : tags[j] \notin {Torn}
      /\ m < n => tags[m + 1] \in {Torn}
  BY <1>1, <1>4, BeforeEnds
<1>6. NextWrapped = IterNext(d, "moviefs", pos)
  BY DEF NextWrapped
<1> HIDE DEF n, m, d, p, tags, b, NextWrapped
<1>7. i \in 0 .. n /\ i \in 0 .. Len(tags)
  BY <1>1, <1>3, <1>5 DEF n
<1>8. IF i < n /\ tags[i + 1] # Torn
      THEN /\ NextWrapped.found /\ NextWrapped.frame = FrameBytes(tags[i + 1])
           /\ NextWrapped.pos \in Nat /\ Rests(d, NextWrapped.pos, p[i + 1])
      ELSE ~ NextWrapped.found
  BY <1>1, <1>2, <1>3, <1>6, <1>7, WrapperWalk DEF n, Wrappers
<1>9. CASE i < m
  <2>1. i < n /\ i + 1 \in 1 .. m /\ i + 1 \in 1 .. n
    BY <1>1, <1>5, <1>7, <1>9
  <2>2. tags[i + 1] # Torn
    BY <1>5, <2>1
  <2>3. tags[i + 1] \in Tag
    BY <1>1, <2>1, ElementOfSeq DEF n
  <2>4. QED
    BY <1>8, <1>9, <2>1, <2>2, <2>3 DEF m, b, tags, d, p
<1>10. CASE ~ (i < m)
  <2>1. i = m
    BY <1>1, <1>3, <1>5, <1>10
  <2>2. ~ NextWrapped.found
    BY <1>5, <1>8, <2>1
  <2>3. QED
    BY <1>10, <2>2 DEF m, b
<1>11. QED
  BY <1>9, <1>10

-----------------------------------------------------------------------------
\* The routes at work on a chunk.

\* How the chunks of the movie at hand are laid out, by the route it takes.
LEMMA RouteLaid ==
  ASSUME movie \in Movies, NEW c \in 1 .. Chunks
  PROVE  /\ Route = "pass" =>
              /\ Free(movie.laid[c], {Damaged}) /\ video.wrap \in Wrappers
              /\ Spells(video.wrap, movie.videos[c], movie.laid[c], movie.cuts[c])
         /\ Route = "esc122" =>
              /\ Free(movie.laid[c], {Torn})
              /\ OneFrame(movie.videos[c], movie.laid[c], 0)
         /\ Route = "esc130" =>
              /\ Free(movie.laid[c], {Torn})
              /\ OneFrame(movie.videos[c], movie.laid[c], 16)
         /\ Route \in {"esc100", "esc124"} =>
              /\ Free(movie.laid[c], {Torn})
              /\ Spells(Route, movie.videos[c], movie.laid[c], movie.cuts[c])
         /\ Route = "tca" =>
              /\ Free(movie.laid[c], {Torn})
              /\ Spells("tca", movie.film.data, movie.laid[c], movie.cuts[c])
         /\ Route = "type23" =>
              /\ Free(movie.laid[c], {Torn, Damaged})
              /\ \A i \in 1 .. Len(movie.laid[c]) : movie.laid[c][i] % 2 = 0
              /\ Spells("plain", movie.videos[c], movie.laid[c], movie.cuts[c])
         /\ Route = "module" /\ ~ video.wrapper =>
              Spells("plain", movie.videos[c], movie.laid[c], movie.cuts[c])
<1> DEFINE info == Info(movie.video_codec)
<1>1. ChunkLaid(movie, c)
  BY LaidParts
<1>2. info.wrapper => info.route = "module"
  BY WrapperIsModule
<1>3. /\ Route \in {"pass", "esc122", "esc130", "esc100", "esc124", "tca", "type23"}
            => info.route = Route
      /\ Route = "module" =>
            info.route \in {"module", "unknown", "type23"}
      /\ info.wrapper = video.wrapper
  BY DEF Route, video
<1>4. Route = "pass" => video.wrap \in Wrappers
  BY DEF video, Info, Wrappers
<1>5. CASE Route = "pass"
  BY <1>1, <1>2, <1>3, <1>4, <1>5 DEF ChunkLaid, video
<1>6. CASE Route = "esc122"
  BY <1>1, <1>2, <1>3, <1>6 DEF ChunkLaid
<1>7. CASE Route = "esc130"
  BY <1>1, <1>2, <1>3, <1>7 DEF ChunkLaid
<1>8. CASE Route \in {"esc100", "esc124"}
  BY <1>1, <1>2, <1>3, <1>8 DEF ChunkLaid
<1>9. CASE Route = "tca"
  BY <1>1, <1>2, <1>3, <1>9 DEF ChunkLaid
<1>10. CASE Route = "type23"
  BY <1>1, <1>2, <1>3, <1>10 DEF ChunkLaid
<1>11. CASE Route = "module"
  BY <1>1, <1>2, <1>3, <1>11 DEF ChunkLaid
<1>12. QED
  BY <1>5, <1>6, <1>7, <1>8, <1>9, <1>10, <1>11

\* Routes that walk a chunk with `pos`.
Walking == {"pass", "esc100", "esc124", "tca"}

\* Chunk c after i of its pictures.
InFrames(c, i) ==
  /\ Route \in Walking =>
       /\ i <= Fit(c) /\ Got(c, i)
       /\ data = IF Route = "tca" THEN movie.film.data ELSE movie.videos[c]
       /\ pos \in Nat
       /\ IF Route = "pass" THEN Rests(data, pos, movie.cuts[c][i])
          ELSE pos = movie.cuts[c][i]
  /\ Route = "module" => Got(c, i) /\ InModule(c, i)
  /\ Route = "esc122" => /\ Had(c - 1 + i) /\ data = movie.videos[c]
                         /\ data # <<>>
                         /\ IF pos = 0 THEN i = 0 ELSE i = 1
  /\ Route = "esc130" => /\ Had(c - 1 + i) /\ data = movie.videos[c]
                         /\ i \in {0, 1} /\ left = i
  /\ Route = "type23" => Told(i) /\ pos = i

\* One of the chunk's pictures more.
LEMMA PictureTold ==
  ASSUME movie \in Movies, ByFrame, Steady, NEW c \in 1 .. Chunks, NEW i \in Nat,
         i < Fit(c), Told(Due(c - 1) + i),
         Shown' = Append(Shown, Picture(c, i + 1))
  PROVE  Told(Due(c - 1) + (i + 1))'
<1>1. /\ Chunks \in Nat /\ Fit(c) \in Nat /\ Due(c) = Due(c - 1) + Fit(c)
      /\ \A j \in 1 .. Fit(c) : Promised[Due(c - 1) + j] = Picture(c, j)
  BY DueIs, MovieParts
<1>2. Due(c - 1) \in 0 .. Len(Promised) /\ Due(c) \in 0 .. Len(Promised)
      /\ Len(Promised) \in Nat
  <2>1. c - 1 \in 0 .. Chunks /\ c \in 0 .. Chunks
    BY <1>1
  <2>2. QED
    BY <2>1, DueIs
<1> HIDE DEF Shown, Promised
<1>3. PICK k : k = Due(c - 1) + i
  OBVIOUS
<1>4. i + 1 \in 1 .. Fit(c) /\ k < Len(Promised) /\ k + 1 = Due(c - 1) + (i + 1)
  BY <1>1, <1>2, <1>3
<1>5. Promised[k + 1] = Picture(c, i + 1)
  BY <1>1, <1>3, <1>4
<1>6. Shown' = Append(Shown, Promised[k + 1])
  BY <1>5
<1>7. Told(k)
  BY <1>3
<1>8. Told(k + 1)'
  BY <1>4, <1>6, <1>7, ToldMore
<1>9. Due(c - 1)' = Due(c - 1)
  BY PlanSame
<1> HIDE DEF Due
<1>10. (k + 1)' = (Due(c - 1) + (i + 1))'
  BY <1>4, <1>9
<1>11. QED
  BY <1>8, <1>10, Zenon DEF Told

\* A frame that is not bad follows those that are usable.
LEMMA StillUsable ==
  ASSUME movie \in Movies, ~ Counts, NEW c \in 1 .. Chunks, NEW i \in Nat,
         i <= Fit(c)
  PROVE  /\ i \in 0 .. Len(movie.laid[c]) /\ movie.laid[c] \in Seq(Tag)
         /\ i < Len(movie.laid[c]) =>
              /\ i + 1 \in 1 .. Len(movie.laid[c])
              /\ movie.laid[c][i + 1] \in Tag
              /\ movie.laid[c][i + 1] \notin Bad <=> i < Fit(c)
         /\ i < Fit(c) => i < Len(movie.laid[c])
<1> DEFINE tags == movie.laid[c]
           n == Len(tags)
           f == Fit(c)
<1>1. tags \in Seq(Tag) /\ n \in Nat
  BY LaidParts
<1>2. /\ f \in 0 .. n /\ \A j \in 1 .. f : tags[j] \notin Bad
      /\ f < n => tags[f + 1] \in Bad
  BY UsableIs
<1> HIDE DEF f, tags
<1>3. i <= f /\ i \in 0 .. n
  BY <1>1, <1>2 DEF f
<1>4. ASSUME i < n
      PROVE  i + 1 \in 1 .. n /\ tags[i + 1] \in Tag
             /\ (tags[i + 1] \notin Bad <=> i < f)
  <2>1. i + 1 \in 1 .. n
    BY <1>1, <1>3, <1>4
  <2>2. tags[i + 1] \in Tag
    BY <1>1, <2>1, ElementOfSeq
  <2>3. CASE i < f
    <3>1. i + 1 \in 1 .. f
      BY <1>1, <1>2, <2>3
    <3>2. QED
      BY <1>2, <2>1, <2>2, <2>3, <3>1
  <2>4. CASE ~ (i < f)
    <3>1. i = f
      BY <1>2, <1>3, <2>4
    <3>2. QED
      BY <1>2, <1>4, <2>1, <2>2, <2>4, <3>1
  <2>5. QED
    BY <2>3, <2>4
<1>5. i < f => i < n
  BY <1>1, <1>2
<1>6. QED
  BY <1>1, <1>3, <1>4, <1>5 DEF f, tags

\* A native decoder's picture grows by the tag it was given.
LEMMA HeldMore ==
  ASSUME movie \in Movies, Steady, Route \in Native, NEW c \in 1 .. Chunks,
         NEW i \in Nat, i < Fit(c), Held(Done(c - 1) + i),
         picture' = Append(picture, movie.laid[c][i + 1])
  PROVE  /\ Held(Done(c - 1) + (i + 1))'
         /\ picture' = First(Done(c - 1) + (i + 1))
<1>1. picture = First(Done(c - 1) + i) /\ Route # "module"
  BY DEF Held, Native
<1>2. First(Done(c - 1) + i + 1)
           = Append(First(Done(c - 1) + i), movie.laid[c][i + 1])
  BY FirstMore
<1>3. Done(c - 1) \in Nat
  <2>1. c - 1 \in 0 .. Chunks
    BY MovieParts
  <2>2. QED
    BY <2>1, TagsLie
<1>4. Done(c - 1) + i + 1 = Done(c - 1) + (i + 1)
  BY <1>3
<1> HIDE DEF First, Done
<1>5. picture' = First(Done(c - 1) + (i + 1))
  BY <1>1, <1>2, <1>4
<1>6. PICK k : k = Done(c - 1) + (i + 1)
  OBVIOUS
<1>7. picture' = First(k)' /\ Route' = Route
  BY <1>5, <1>6, PlanSame
<1>8. (Done(c - 1) + (i + 1))' = k
  BY <1>6, PlanSame
<1>9. QED
  BY <1>1, <1>5, <1>7, <1>8 DEF Held

\* A native route's step, once its walk is known to have found a usable frame.
LEMMA NativeShows ==
  ASSUME Placed, Counted, Steady, Route \in Native \cap Walking,
         NEW c \in 1 .. Chunks, NEW i \in Nat, i < Fit(c), InFrames(c, i),
         NEW next, next = movie.cuts[c][i + 1], next \in Nat,
         Show(Apply(movie.laid[c][i + 1]), next)
  PROVE  InFrames(c, i + 1)'
<1>1. movie \in Movies /\ ByFrame /\ ByHistory /\ HaveVideo /\ ~ Counts
      /\ Route # "pass" /\ Route \notin {"module", "esc122", "esc130", "type23"}
  BY RouteHasVideo DEF Placed, Native, Walking, ByFrame, ByHistory, Counts
<1>2. i <= Fit(c) /\ Told(Due(c - 1) + i) /\ Held(Done(c - 1) + i)
      /\ data = (IF Route = "tca" THEN movie.film.data ELSE movie.videos[c])
  BY DEF InFrames, Got
<1>3. movie.laid[c][i + 1] \in Tag /\ movie.laid[c][i + 1] \notin Bad
  BY <1>1, <1>2, StillUsable
<1>4. Apply(movie.laid[c][i + 1]) = Append(picture, movie.laid[c][i + 1])
  BY <1>3 DEF Apply, Bad, Tag
<1>5. picture' = Append(picture, movie.laid[c][i + 1])
      /\ SinkVideoFrame(picture', PictureLen) /\ pos' = next /\ data' = data
  BY <1>4 DEF Show, OtherThanWalk
<1>6. Held(Done(c - 1) + (i + 1))' /\ picture' = First(Done(c - 1) + (i + 1))
  BY <1>1, <1>2, <1>5, HeldMore DEF Native
<1>7. picture' = Picture(c, i + 1)
  BY <1>1, <1>6 DEF Picture, ByHistory
<1>8. Shown' = Append(Shown, Picture(c, i + 1))
  <2>1. SinkVideoFrame(Picture(c, i + 1), PictureLen)
    BY <1>5, <1>7
  <2> HIDE DEF Picture, Shown
  <2>2. QED
    BY <1>1, <2>1, ShownMore
<1>9. Told(Due(c - 1) + (i + 1))'
  BY <1>1, <1>2, <1>8, PictureTold
<1>10. Got(c, i + 1)'
  BY <1>6, <1>9 DEF Got
<1>11. i + 1 <= Fit(c) /\ Fit(c) \in Nat
  BY UsableIs, TagsLie, <1>1
<1>12. /\ Fit(c)' = Fit(c) /\ Route' = Route /\ movie' = movie
  BY PlanSame
<1>13. QED
  BY <1>1, <1>2, <1>5, <1>10, <1>11, <1>12 DEF InFrames

\* A picture of a chunk, route by route.

LEMMA Esc100Shows ==
  ASSUME Placed, Counted, Esc100Frame, NEW c \in 1 .. Chunks, chunk = c,
         NEW i \in Nat, InFrames(c, i)
  PROVE  InFrames(c, i + 1)'
<1> DEFINE tags == movie.laid[c]
           p == movie.cuts[c]
<1>1. movie \in Movies /\ Route = "esc100" /\ ~ Counts /\ Steady
  BY ShowFrameStreams DEF Placed, Esc100Frame, Counts, ShowFrame
<1>2. i <= Fit(c) /\ data = movie.videos[c] /\ pos = p[i]
  BY <1>1 DEF InFrames, Walking
<1>3. data \in Seq(Nat)
  BY <1>1, <1>2, MovieParts, ElementOfSeq DEF Chunks
<1>4. Free(tags, {Torn}) /\ Spells("esc100", data, tags, p)
  BY <1>1, <1>2, RouteLaid
<1>5. /\ i \in 0 .. Len(tags) /\ tags \in Seq(Tag)
      /\ i < Len(tags) => /\ i + 1 \in 1 .. Len(tags) /\ tags[i + 1] \in Tag
                          /\ tags[i + 1] \notin Bad <=> i < Fit(c)
  BY <1>1, <1>2, StillUsable
<1>6. Esc100Used # 0 /\ Show(Apply(TagAt(data, pos)), pos + Esc100Used)
  BY DEF Esc100Frame
<1> HIDE DEF tags, p
<1>7. /\ i < Len(tags) /\ tags[i + 1] # Damaged
      /\ TagAt(data, pos) = tags[i + 1] /\ pos + Esc100Used = p[i + 1]
  BY <1>2, <1>3, <1>4, <1>5, <1>6, Esc100Walk
<1>8. i < Fit(c)
  BY <1>4, <1>5, <1>7 DEF Free, Bad
<1>9. p[i + 1] \in Nat
  BY <1>3, <1>4, <1>5, <1>7, CutsAre
<1>10. PICK next : next = p[i + 1]
  OBVIOUS
<1>11. Show(Apply(tags[i + 1]), next)
  BY <1>6, <1>7, <1>10
<1>12. QED
  BY <1>1, <1>8, <1>9, <1>10, <1>11, NativeShows DEF Native, Walking, tags, p

LEMMA Esc124Shows ==
  ASSUME Placed, Counted, Esc124Frame, NEW c \in 1 .. Chunks, chunk = c,
         NEW i \in Nat, InFrames(c, i)
  PROVE  InFrames(c, i + 1)'
<1> DEFINE tags == movie.laid[c]
           p == movie.cuts[c]
<1>1. movie \in Movies /\ Route = "esc124" /\ ~ Counts /\ Steady
  BY ShowFrameStreams DEF Placed, Esc124Frame, Counts, ShowFrame
<1>2. i <= Fit(c) /\ data = movie.videos[c] /\ pos = p[i]
  BY <1>1 DEF InFrames, Walking
<1>3. data \in Seq(Nat)
  BY <1>1, <1>2, MovieParts, ElementOfSeq DEF Chunks
<1>4. Free(tags, {Torn}) /\ Spells("esc124", data, tags, p)
  BY <1>1, <1>2, RouteLaid
<1>5. /\ i \in 0 .. Len(tags) /\ tags \in Seq(Tag)
      /\ i < Len(tags) => /\ i + 1 \in 1 .. Len(tags) /\ tags[i + 1] \in Tag
                          /\ tags[i + 1] \notin Bad <=> i < Fit(c)
  BY <1>1, <1>2, StillUsable
<1>6. Esc124Fits /\ Show(Apply(TagAt(data, pos)), pos + Esc124Size)
  BY DEF Esc124Frame
<1> HIDE DEF tags, p
<1>7. /\ i < Len(tags) /\ tags[i + 1] # Damaged
      /\ TagAt(data, pos) = tags[i + 1] /\ pos + Esc124Size = p[i + 1]
  BY <1>2, <1>3, <1>4, <1>5, <1>6, Esc124Walk
<1>8. i < Fit(c)
  BY <1>4, <1>5, <1>7 DEF Free, Bad
<1>9. p[i + 1] \in Nat
  BY <1>3, <1>4, <1>5, <1>7, CutsAre
<1>10. PICK next : next = p[i + 1]
  OBVIOUS
<1>11. Show(Apply(tags[i + 1]), next)
  BY <1>6, <1>7, <1>10
<1>12. QED
  BY <1>1, <1>8, <1>9, <1>10, <1>11, NativeShows DEF Native, Walking, tags, p

LEMMA TcaShows ==
  ASSUME Placed, Counted, TcaFrame, NEW c \in 1 .. Chunks, chunk = c,
         NEW i \in Nat, InFrames(c, i)
  PROVE  InFrames(c, i + 1)'
<1> DEFINE tags == movie.laid[c]
           p == movie.cuts[c]
<1>1. movie \in Movies /\ Route = "tca" /\ ~ Counts /\ Steady
  BY ShowFrameStreams DEF Placed, TcaFrame, Counts, ShowFrame
<1>2. i <= Fit(c) /\ data = movie.film.data /\ pos = p[i]
  BY <1>1 DEF InFrames, Walking
<1>3. data \in Seq(Nat)
  BY <1>1, <1>2, MovieParts
<1>4. Free(tags, {Torn}) /\ Spells("tca", data, tags, p)
  BY <1>1, <1>2, RouteLaid
<1>5. /\ i \in 0 .. Len(tags) /\ tags \in Seq(Tag)
      /\ i < Len(tags) => /\ i + 1 \in 1 .. Len(tags) /\ tags[i + 1] \in Tag
                          /\ tags[i + 1] \notin Bad <=> i < Fit(c)
  BY <1>1, <1>2, StillUsable
<1>6. TcaLength # 0 /\ ~ TcaBad
      /\ Show(Apply(TagAt(data, pos + 4)), pos + TcaLength)
  BY DEF TcaFrame
<1> HIDE DEF tags, p
<1>7. /\ i < Len(tags) /\ tags[i + 1] # Damaged
      /\ TagAt(data, pos + 4) = tags[i + 1] /\ pos + TcaLength = p[i + 1]
  BY <1>2, <1>3, <1>4, <1>5, <1>6, TcaWalk
<1>8. i < Fit(c)
  BY <1>4, <1>5, <1>7 DEF Free, Bad
<1>9. p[i + 1] \in Nat
  BY <1>3, <1>4, <1>5, <1>7, CutsAre
<1>10. PICK next : next = p[i + 1]
  OBVIOUS
<1>11. Show(Apply(tags[i + 1]), next)
  BY <1>6, <1>7, <1>10
<1>12. QED
  BY <1>1, <1>8, <1>9, <1>10, <1>11, NativeShows DEF Native, Walking, tags, p

LEMMA PassShows ==
  ASSUME Placed, Counted, PassFrame, NEW c \in 1 .. Chunks, chunk = c,
         NEW i \in Nat, InFrames(c, i)
  PROVE  InFrames(c, i + 1)'
<1> DEFINE tags == movie.laid[c]
           p == movie.cuts[c]
<1>1. movie \in Movies /\ Route = "pass" /\ ~ Counts /\ Steady /\ ByFrame
      /\ HaveVideo
  BY ShowFrameStreams, RouteHasVideo
     DEF Placed, PassFrame, Counts, ShowFrame, ByFrame
<1>2. i <= Fit(c) /\ data = movie.videos[c] /\ pos \in Nat
      /\ Rests(data, pos, p[i]) /\ Told(Due(c - 1) + i)
  BY <1>1 DEF InFrames, Walking, Got
<1>3. data \in Seq(Nat)
  BY <1>1, <1>2, MovieParts, ElementOfSeq DEF Chunks
<1>4. Free(tags, {Damaged}) /\ video.wrap \in Wrappers
      /\ Spells(video.wrap, data, tags, p)
  BY <1>1, <1>2, RouteLaid
<1>5. /\ i \in 0 .. Len(tags) /\ tags \in Seq(Tag)
      /\ i < Len(tags) => /\ i + 1 \in 1 .. Len(tags) /\ tags[i + 1] \in Tag
                          /\ tags[i + 1] \notin Bad <=> i < Fit(c)
  BY <1>1, <1>2, StillUsable
<1>6. Frame = IterNext(data, video.wrap, pos) /\ Frame.found /\ pos' = Frame.pos
      /\ SinkVideoFrame(Frame.frame, Len(Frame.frame)) /\ data' = data
  BY DEF PassFrame, Frame, OtherThanWalk
<1> HIDE DEF tags, p, Frame
<1>7. /\ i < Len(tags) /\ tags[i + 1] # Torn
      /\ Frame.frame = FrameBytes(tags[i + 1])
      /\ Frame.pos \in Nat /\ Rests(data, Frame.pos, p[i + 1])
  BY <1>2, <1>3, <1>4, <1>5, <1>6, WrapperWalk
<1>8. i < Fit(c)
  BY <1>4, <1>5, <1>7 DEF Free, Bad
<1>9. Frame.frame = Picture(c, i + 1)
  BY <1>1, <1>7 DEF Picture, tags
<1>10. Shown' = Append(Shown, Picture(c, i + 1))
  <2>1. SinkVideoFrame(Picture(c, i + 1), Len(Frame.frame))
    BY <1>6, <1>9
  <2> HIDE DEF Picture, Shown
  <2>2. QED
    BY <1>1, <2>1, ShownMore
<1>11. Told(Due(c - 1) + (i + 1))'
  BY <1>1, <1>2, <1>8, <1>10, PictureTold
<1>12. /\ Fit(c)' = Fit(c) /\ Route' = Route /\ movie' = movie
  BY <1>1, PlanSame
<1>13. Got(c, i + 1)'
  BY <1>1, <1>11, <1>12 DEF Got, Held, Native
<1>14. i + 1 <= Fit(c)
  BY <1>1, <1>8, TagsLie
<1>15. pos' \in Nat /\ Rests(data, pos', p[i + 1])
  BY <1>6, <1>7
<1>16. Rests(data', pos', movie'.cuts[c][i + 1])
  BY <1>6, <1>12, <1>15 DEF p
<1>17. QED
  BY <1>1, <1>2, <1>6, <1>12, <1>13, <1>14, <1>15, <1>16
     DEF InFrames, Walking, Rests

LEMMA ModuleShows ==
  ASSUME Placed, Counted, Buffered, ModuleFrame, NEW c \in 1 .. Chunks,
         chunk = c, NEW i \in Nat, InFrames(c, i)
  PROVE  InFrames(c, i + 1)' /\ Buffered'
<1> DEFINE tags == movie.laid[c]
<1>1. movie \in Movies /\ Route = "module" /\ Steady /\ ByFrame /\ ByHistory
      /\ HaveVideo
  BY ShowFrameStreams, RouteHasVideo
     DEF Placed, ModuleFrame, ShowFrame, ByFrame, ByHistory
<1>2. Told(Due(c - 1) + i) /\ Held(Done(c - 1) + i) /\ InModule(c, i)
  BY <1>1 DEF InFrames, Got
<1>3. /\ left > 0 /\ Decodes(pos)
      /\ memory' = [memory EXCEPT ![cur_out] = Decoded(pos)]
      /\ cur_out' = cur_prev /\ cur_prev' = cur_out
      /\ source' = source /\ payload_loaded' = payload_loaded
      /\ SinkVideoFrame(Decoded(pos), PictureLen)
      /\ pos' = FrameEnd(source, pos) /\ left' = left - 1
  BY DEF ModuleFrame, DecodeFrame
<1>4. /\ i < Fit(c) /\ TagAt(source, pos) = tags[i + 1]
      /\ \E p : Spells("plain", source, Payload(c), p)
                  /\ FrameEnd(source, pos) = p[i + 1]
  BY <1>1, <1>2, <1>3, ModuleWalk
<1>5. memory[cur_prev] = First(Done(c - 1) + i)
  BY <1>1, <1>2 DEF Held
<1>6. First(Done(c - 1) + i + 1)
           = Append(First(Done(c - 1) + i), movie.laid[c][i + 1])
  BY <1>1, <1>4, FirstMore
<1>7. Done(c - 1) + i + 1 = Done(c - 1) + (i + 1)
  <2>1. c - 1 \in 0 .. Chunks
    BY <1>1, MovieParts
  <2>2. Done(c - 1) \in Nat
    BY <1>1, <2>1, TagsLie
  <2> HIDE DEF Done
  <2>3. QED
    BY <2>2
<1>8. Decoded(pos) = First(Done(c - 1) + (i + 1))
  <2> HIDE DEF First, Done
  <2>1. QED
    BY <1>4, <1>5, <1>6, <1>7 DEF Decoded
<1>9. Decoded(pos) = Picture(c, i + 1)
  BY <1>1, <1>8 DEF Picture, ByHistory
<1>10. Shown' = Append(Shown, Picture(c, i + 1))
  <2>1. SinkVideoFrame(Picture(c, i + 1), PictureLen)
    BY <1>3, <1>9
  <2> HIDE DEF Picture, Shown
  <2>2. QED
    BY <1>1, <2>1, ShownMore
<1>11. Told(Due(c - 1) + (i + 1))'
  BY <1>1, <1>2, <1>4, <1>10, PictureTold
<1>12. Buffered' /\ memory'[cur_prev'] = Decoded(pos)
  <2>1. memory = [b \in Buffers |-> memory[b]] /\ cur_out \in Buffers
        /\ cur_prev \in Buffers
    BY DEF Buffered
  <2> HIDE DEF Decoded
  <2>2. memory' = [b \in Buffers |-> IF b = cur_out THEN Decoded(pos)
                                     ELSE memory[b]]
    BY <1>3, <2>1
  <2>3. memory' = [b \in Buffers |-> memory'[b]]
    BY <2>2
  <2>4. memory'[cur_prev'] = Decoded(pos)
    BY <1>3, <2>1, <2>2
  <2>5. QED
    BY <1>3, <2>1, <2>3, <2>4 DEF Buffered
<1>13. PICK k : k = Done(c - 1) + (i + 1)
  OBVIOUS
<1>14. /\ Route' = Route /\ movie' = movie /\ Fit(c)' = Fit(c)
       /\ First(k)' = First(k) /\ Done(c - 1)' = Done(c - 1)
       /\ Payload(c)' = Payload(c) /\ Want(c)' = Want(c)
  BY <1>1, PlanSame
<1>15. (Done(c - 1) + (i + 1))' = k
  BY <1>13, <1>14
<1>16. memory'[cur_prev'] = First(k)'
  BY <1>8, <1>12, <1>13, <1>14
<1>17. Held(Done(c - 1) + (i + 1))'
  BY <1>1, <1>14, <1>15, <1>16 DEF Held, Native
<1>18. Got(c, i + 1)'
  BY <1>11, <1>17 DEF Got
<1>19. i + 1 <= Fit(c) /\ left' = Want(c) - (i + 1)
  <2>1. Fit(c) \in Nat /\ Want(c) \in Nat /\ left = Want(c) - i
    BY <1>1, <1>2, PayloadIs DEF InModule
  <2>2. QED
    BY <1>3, <1>4, <2>1
<1>20. InModule(c, i + 1)'
  <2>1. payload_loaded' /\ source' \in Seq(Nat)
    BY <1>2, <1>3 DEF InModule
  <2>2. \E p : Spells("plain", source', Payload(c)', p) /\ pos' = p[i + 1]
    BY <1>3, <1>4, <1>14
  <2>3. (i + 1 <= Fit(c))' /\ (left = Want(c) - (i + 1))'
    BY <1>14, <1>19
  <2>4. QED
    BY <2>1, <2>2, <2>3, Zenon DEF InModule
<1>21. QED
  BY <1>1, <1>12, <1>14, <1>18, <1>20 DEF InFrames, Walking

\* A chunk of one frame: its tag, where there is one to apply.
LEMMA OneApplied ==
  ASSUME movie \in Movies, Route \in {"esc122", "esc130"},
         NEW c \in 1 .. Chunks, Held(Done(c - 1)),
         NEW header, OneFrame(movie.videos[c], movie.laid[c], header),
         Free(movie.laid[c], {Torn})
  PROVE  Apply(TagAt(movie.videos[c], header)) = First(Done(c))
<1> DEFINE tags == movie.laid[c]
           tag == TagAt(movie.videos[c], header)
           f == Fit(c)
<1>1. ~ Counts /\ picture = First(Done(c - 1))
  BY DEF Counts, Held, Native
<1>2. /\ tags \in Seq(Tag) /\ Len(tags) \in Nat /\ Len(tags) <= 1
      /\ tag = IF tags = <<>> THEN 0 ELSE tags[1]
  BY LaidParts DEF OneFrame
<1>3. /\ f \in 0 .. Len(tags) /\ \A j \in 1 .. f : tags[j] \notin Bad
      /\ f < Len(tags) => tags[f + 1] \in Bad
      /\ tags = <<>> <=> Len(tags) = 0
  BY <1>1, <1>2, UsableIs, EmptySeq
<1>4. Done(c) = Done(c - 1) + f /\ Done(c - 1) \in Nat
  <2>1. c - 1 \in 0 .. Chunks
    BY MovieParts
  <2>2. QED
    BY <2>1, TagsLie
<1> HIDE DEF f, tag, Done, First
<1>5. tags # <<>> => Len(tags) = 1
  <2> DEFINE n == Len(tags)
  <2>1. n \in Nat /\ n <= 1 /\ (tags # <<>> => n # 0)
    BY <1>2, <1>3
  <2> HIDE DEF n
  <2>2. tags # <<>> => n = 1
    BY <2>1
  <2>3. QED
    BY <2>2 DEF n
<1>6. CASE f = 0
  <2>1. tag \in {0, Damaged}
    <3>1. CASE tags = <<>>
      BY <1>2, <3>1
    <3>2. CASE tags # <<>>
      <4>1. Len(tags) = 1 /\ 1 \in 1 .. Len(tags)
        BY <1>5, <3>2
      <4>2. tags[1] \in Bad
        BY <1>3, <1>6, <4>1
      <4>3. tags[1] # Torn
        BY <4>1 DEF Free
      <4>4. QED
        BY <1>2, <3>2, <4>2, <4>3 DEF Bad
    <3>3. QED
      BY <3>1, <3>2
  <2>2. Apply(tag) = picture
    BY <2>1 DEF Apply
  <2>3. Done(c) = Done(c - 1)
    BY <1>4, <1>6
  <2>4. QED
    BY <1>1, <2>2, <2>3 DEF tag
<1>7. CASE f # 0
  <2>1. f = 1 /\ Len(tags) = 1 /\ tags # <<>> /\ 1 \in 1 .. f
        /\ 1 \in 1 .. Len(tags)
    <3> DEFINE n == Len(tags)
    <3>1. f \in 0 .. n /\ (n = 0 <=> tags = <<>>) /\ (tags # <<>> => n = 1)
      BY <1>3, <1>5
    <3> HIDE DEF n
    <3>2. f = 1 /\ n = 1 /\ tags # <<>>
      BY <1>7, <3>1
    <3>3. QED
      BY <3>2 DEF n
  <2>2. tags[1] \in Tag
    BY <1>2, <2>1, ElementOfSeq
  <2>3. tag = tags[1] /\ tag \notin {0, Damaged}
    BY <1>2, <1>3, <2>1, <2>2 DEF Bad, Tag
  <2>4. Apply(tag) = Append(picture, tags[1])
    BY <2>3 DEF Apply
  <2>5. First(Done(c - 1) + 0 + 1) = Append(First(Done(c - 1) + 0), tags[0 + 1])
    <3>1. 0 \in Nat /\ 0 < Fit(c)
      BY <2>1 DEF f
    <3>2. QED
      BY <3>1, FirstMore
  <2>6. Done(c - 1) + 0 + 1 = Done(c) /\ Done(c - 1) + 0 = Done(c - 1)
        /\ 0 + 1 = 1
    BY <1>4, <2>1
  <2>7. First(Done(c)) = Append(First(Done(c - 1)), tags[1])
    BY <2>5, <2>6
  <2>8. QED
    BY <1>1, <2>4, <2>7 DEF tag
<1>8. QED
  BY <1>6, <1>7

\* A chunk that is shown as one picture.
LEMMA OneShows ==
  ASSUME movie \in Movies, Counted, Steady, Route \in {"esc122", "esc130"},
         NEW c \in 1 .. Chunks, Had(c - 1),
         Route = "esc122" => movie.videos[c] # <<>>,
         picture' = First(Done(c)), SinkVideoFrame(picture', PictureLen)
  PROVE  Had(c)'
<1>1. HaveVideo /\ Route \in Native /\ Route # "module"
  BY RouteHasVideo DEF Native
<1>2. Due(c) = Due(c - 1) + 1 /\ Promised[Due(c)] = AllTags(c)
  BY DueIs
<1>3. c - 1 \in 0 .. Chunks /\ c \in 0 .. Chunks
  BY MovieParts
<1>4. Due(c - 1) \in 0 .. Len(Promised) /\ Due(c) \in 0 .. Len(Promised)
      /\ Len(Promised) \in Nat
  BY <1>3, DueIs
<1>5. AllTags(c) = First(Done(c))
  BY <1>3, TagsLie
<1>6. Told(Due(c - 1))
  BY DEF Had
<1>7. Shown' = Append(Shown, First(Done(c)))
  <2>1. SinkVideoFrame(First(Done(c)), PictureLen)
    BY Zenon
  <2> HIDE DEF First, Done, Shown
  <2>2. QED
    BY <1>1, <2>1, ShownMore
<1> HIDE DEF Shown, Promised, Due, First, Done
<1>8. PICK k : k = Due(c - 1)
  OBVIOUS
<1>9. Told(k) /\ k < Len(Promised) /\ k + 1 = Due(c)
  BY <1>2, <1>4, <1>6, <1>8
<1>10. Shown' = Append(Shown, Promised[k + 1])
  BY <1>2, <1>5, <1>7, <1>9
<1>11. Told(k + 1)'
  BY <1>9, <1>10, ToldMore
<1>12. Due(c)' = Due(c) /\ Done(c)' = Done(c) /\ Route' = Route
  BY PlanSame
<1>13. (k + 1)' = Due(c)'
  BY <1>9, <1>12
<1>14. Told(Due(c))'
  BY <1>11, <1>13, Zenon DEF Told
<1>15. PICK j : j = Done(c)
  OBVIOUS
<1>16. First(j)' = First(j)
  BY PlanSame
<1>17. picture' = First(j)' /\ Done(c)' = j
  BY <1>12, <1>15, <1>16
<1>18. Held(Done(c))'
  BY <1>1, <1>12, <1>17 DEF Held
<1>19. QED
  BY <1>14, <1>18 DEF Had

LEMMA Esc122Shows ==
  ASSUME Placed, Counted, Esc122Frame, NEW c \in 1 .. Chunks, chunk = c,
         NEW i \in Nat, InFrames(c, i)
  PROVE  InFrames(c, 1)'
<1>1. movie \in Movies /\ Route = "esc122" /\ Steady
  BY ShowFrameStreams DEF Placed, Esc122Frame, ShowFrame
<1>2. pos = 0 /\ Show(Apply(TagAt(data, 0)), Len(data))
  BY DEF Esc122Frame
<1>3. Had(c - 1 + i) /\ i = 0 /\ data = movie.videos[c] /\ data # <<>>
  BY <1>1, <1>2 DEF InFrames
<1>4. c - 1 + i = c - 1 /\ c - 1 + 1 = c
  BY <1>1, <1>3, MovieParts
<1>5. Had(c - 1)
  BY <1>3, <1>4
<1>6. OneFrame(movie.videos[c], movie.laid[c], 0) /\ Free(movie.laid[c], {Torn})
  BY <1>1, RouteLaid
<1>7. Apply(TagAt(movie.videos[c], 0)) = First(Done(c))
  BY <1>1, <1>5, <1>6, OneApplied DEF Had
<1>8. picture' = First(Done(c)) /\ SinkVideoFrame(picture', PictureLen)
      /\ pos' = Len(data) /\ data' = data
  BY <1>2, <1>3, <1>7 DEF Show, OtherThanWalk
<1>9. Had(c)'
  BY <1>1, <1>3, <1>5, <1>8, OneShows
<1>10. Route' = Route /\ movie' = movie
  BY <1>1, PlanSame
<1>11. pos' # 0
  <2>1. movie.videos \in Seq(Seq(Nat)) /\ c \in 1 .. Len(movie.videos)
    BY <1>1, MovieParts DEF Chunks
  <2>2. data \in Seq(Nat)
    BY <1>3, <2>1, ElementOfSeq
  <2>3. QED
    BY <1>3, <1>8, <2>2, EmptySeq
<1>12. Had(c - 1 + 1)'
  BY <1>4, <1>9
<1>13. QED
  BY <1>1, <1>3, <1>8, <1>10, <1>11, <1>12 DEF InFrames, Walking

LEMMA Esc130Shows ==
  ASSUME Placed, Counted, Esc130Frame, NEW c \in 1 .. Chunks, chunk = c,
         NEW i \in Nat, InFrames(c, i)
  PROVE  InFrames(c, 1)'
<1>1. movie \in Movies /\ Route = "esc130" /\ Steady
  BY ShowFrameStreams DEF Placed, Esc130Frame, ShowFrame
<1>2. left = 0 /\ picture' = Apply(TagAt(data, 16)) /\ left' = 1
      /\ SinkVideoFrame(picture', PictureLen) /\ data' = data
  BY DEF Esc130Frame
<1>3. Had(c - 1 + i) /\ i = 0 /\ data = movie.videos[c]
  BY <1>1, <1>2 DEF InFrames
<1>4. c - 1 + i = c - 1 /\ c - 1 + 1 = c
  BY <1>1, <1>3, MovieParts
<1>5. Had(c - 1)
  BY <1>3, <1>4
<1>6. OneFrame(movie.videos[c], movie.laid[c], 16) /\ Free(movie.laid[c], {Torn})
  BY <1>1, RouteLaid
<1>7. Apply(TagAt(movie.videos[c], 16)) = First(Done(c))
  BY <1>1, <1>5, <1>6, OneApplied DEF Had
<1>8. picture' = First(Done(c))
  BY <1>2, <1>3, <1>7
<1>9. Had(c)'
  BY <1>1, <1>2, <1>5, <1>8, OneShows
<1>10. Route' = Route /\ movie' = movie
  BY <1>1, PlanSame
<1>11. Had(c - 1 + 1)'
  BY <1>4, <1>9
<1>12. QED
  BY <1>1, <1>2, <1>3, <1>10, <1>11 DEF InFrames, Walking

-----------------------------------------------------------------------------
\* Type 23: frames of one length, counted through the chunks.

\* Frame i of a chunk starts at three times i.
LEMMA Type23Cuts ==
  ASSUME NEW d \in Seq(Nat), NEW tags \in Seq(Tag), NEW p,
         Spells("plain", d, tags, p), \A i \in 1 .. Len(tags) : tags[i] % 2 = 0
  PROVE  /\ Len(d) = 3 * Len(tags)
         /\ \A i \in 0 .. Len(tags) : p[i] = 3 * i
         /\ \A i \in 0 .. Len(tags) : i < Len(tags) => d[3 * i + 1] = tags[i + 1]
<1> DEFINE n == Len(tags)
           Off == {i \in 0 .. n : p[i] # 3 * i}
<1>1. n \in Nat /\ Len(d) \in Nat
  OBVIOUS
<1>2. ASSUME NEW i \in 0 .. n, i < n
      PROVE  /\ i + 1 \in 1 .. n /\ tags[i + 1] \in Tag
             /\ p[i] \in Nat /\ p[i + 1] \in Nat
             /\ p[i + 1] = p[i] + 3 /\ TagAt(d, p[i]) = tags[i + 1]
             /\ p[i] < Len(d)
  <2>1. /\ p[i] \in Nat /\ p[i + 1] \in Nat /\ p[i + 1] <= Len(d)
        /\ tags[i + 1] \in Tag
        /\ FrameAt("plain", d, tags[i + 1], p[i], p[i + 1])
    BY <1>2, CutsAre
  <2>2. Spans(d, tags[i + 1], p[i], p[i + 1])
    BY <2>1 DEF FrameAt
  <2>3. i + 1 \in 1 .. n
    BY <1>1, <1>2
  <2>4. Len(FrameBytes(tags[i + 1])) = 3
    BY <2>1, <2>3, FrameBytesIs
  <2>5. p[i + 1] = p[i] + 3
    BY <2>2, <2>4 DEF Spans
  <2>6. TagAt(d, p[i]) = tags[i + 1]
    BY <2>1, <2>2, SpansTag
  <2>7. p[i] < Len(d)
    BY <1>1, <2>1, <2>5
  <2>8. QED
    BY <2>1, <2>3, <2>5, <2>6, <2>7
<1> HIDE DEF n
<1>3. p[0] = 0 /\ p[n] = Len(d)
  BY DEF Spells, n
<1>4. Off = {}
  <2>1. SUFFICES ASSUME Off # {} PROVE FALSE
    OBVIOUS
  <2>2. Off \in SUBSET Nat
    BY <1>1
  <2> HIDE DEF Off
  <2>3. PICK m \in Off : \A k \in Off : m <= k
    BY <2>1, <2>2, LeastNat
  <2> USE DEF Off
  <2>4. m \in 0 .. n /\ p[m] # 3 * m
    OBVIOUS
  <2>5. m # 0
    BY <1>3, <2>4
  <2>6. m - 1 \in 0 .. n /\ m - 1 < n /\ ~ (m <= m - 1) /\ (m - 1) + 1 = m
    BY <1>1, <2>4, <2>5
  <2>7. p[m - 1] = 3 * (m - 1)
    BY <2>3, <2>6
  <2>8. p[m] = p[m - 1] + 3
    BY <1>2, <2>6
  <2>9. QED
    BY <1>1, <2>4, <2>7, <2>8
<1>5. \A i \in 0 .. n : p[i] = 3 * i
  BY <1>4
<1>6. Len(d) = 3 * n
  BY <1>1, <1>3, <1>5
<1>7. ASSUME NEW i \in 0 .. n, i < n PROVE d[3 * i + 1] = tags[i + 1]
  <2>1. p[i] = 3 * i /\ p[i] < Len(d) /\ TagAt(d, p[i]) = tags[i + 1]
    BY <1>2, <1>5, <1>7
  <2>2. QED
    BY <2>1 DEF TagAt
<1>8. QED
  BY <1>5, <1>6, <1>7 DEF n

\* A chunk's frames are all usable, one behind the other.
LEMMA Type23Chunk ==
  ASSUME movie \in Movies, Route = "type23", NEW c \in 1 .. Chunks
  PROVE  /\ Type23FrameLen = 3 /\ Type23Count(c) = Fit(c) /\ Fit(c) \in Nat
         /\ \A i \in Nat : i < Fit(c) =>
              movie.videos[c][i * 3 + 1] = movie.laid[c][i + 1]
<1> DEFINE tags == movie.laid[c]
           d == movie.videos[c]
           n == Len(tags)
           f == Fit(c)
<1>1. d \in Seq(Nat)
  BY MovieParts, ElementOfSeq DEF Chunks
<1>2. tags \in Seq(Tag) /\ n \in Nat /\ ~ Counts
  BY LaidParts DEF Counts
<1>3. /\ \A i \in 1 .. n : tags[i] \notin {Torn, Damaged}
      /\ \A i \in 1 .. n : tags[i] % 2 = 0
      /\ Spells("plain", d, tags, movie.cuts[c])
  BY RouteLaid DEF Free
<1>4. f \in 0 .. n /\ (f < n => tags[f + 1] \in Bad)
  BY <1>2, UsableIs
<1> HIDE DEF f, d, tags
<1>5. f = n
  <2>1. SUFFICES ASSUME f # n PROVE FALSE
    OBVIOUS
  <2>2. f < n /\ f + 1 \in 1 .. n
    BY <1>2, <1>4, <2>1
  <2>3. QED
    BY <1>3, <1>4, <2>2 DEF Bad
<1>6. /\ Len(d) = 3 * n
      /\ \A i \in 0 .. n : i < n => d[3 * i + 1] = tags[i + 1]
  BY <1>1, <1>2, <1>3, Type23Cuts
<1>7. Type23FrameLen = 3
  <2>1. FrameBytes(2) = <<2, 0, 0>>
    BY DEF FrameBytes
  <2>2. QED
    BY <2>1 DEF Type23FrameLen
<1> HIDE DEF n
<1>8. Type23Count(c) = n
  <2>1. (3 * n) \div 3 = n
    BY <1>2
  <2>2. QED
    BY <1>6, <1>7, <2>1 DEF Type23Count, d
<1>9. ASSUME NEW i \in Nat, i < n PROVE d[i * 3 + 1] = tags[i + 1]
  <2>1. i \in 0 .. n /\ i * 3 = 3 * i
    BY <1>2, <1>9
  <2>2. QED
    BY <1>6, <1>9, <2>1
<1>10. QED
  BY <1>2, <1>5, <1>7, <1>8, <1>9 DEF f, d, tags

\* Frames are counted as the promise counts them.
LEMMA Type23BeforeIs ==
  ASSUME movie \in Movies, Route = "type23", NEW c \in 1 .. Chunks + 1
  PROVE  Type23Before(c) = Done(c - 1)
<1> DEFINE k == Chunks
           Counting(b) ==
             b = [n \in 0 .. k |-> IF n = 0 THEN 0 ELSE b[n - 1] + Type23Count(n)]
           before == CHOOSE b : Counting(b)
           done == [n \in 0 .. k |-> Done(n)]
<1>1. k \in Nat /\ Done(0) = 0
      /\ \A n \in 1 .. k : Done(n) = Done(n - 1) + Type23Count(n)
  BY TagsLie, Type23Chunk
<1>2. Type23Before(c) = before[c - 1]
  BY Zenon DEF Type23Before
<1> HIDE DEF k, Done, Type23Count
<1>3. Counting(done)
  <2>1. \A n \in 0 .. k : done[n] = IF n = 0 THEN 0 ELSE done[n - 1] + Type23Count(n)
    <3>1. SUFFICES ASSUME NEW n \in 0 .. k
                   PROVE  done[n] = IF n = 0 THEN 0
                                    ELSE done[n - 1] + Type23Count(n)
      OBVIOUS
    <3>2. n # 0 => n \in 1 .. k /\ n - 1 \in 0 .. k
      BY <1>1
    <3>3. QED
      BY <1>1, <3>2
  <2>2. done = [n \in 0 .. k |-> done[n]]
    OBVIOUS
  <2> HIDE DEF done
  <2>3. QED
    BY <2>1, <2>2
<1> HIDE DEF done
<1>4. Counting(before)
  BY <1>3, Zenon
<1> HIDE DEF before
<1>5. \A n \in 0 .. k : before[n] = IF n = 0 THEN 0
                                    ELSE before[n - 1] + Type23Count(n)
  BY <1>4, Zenon
<1> DEFINE Off == {n \in 0 .. k : before[n] # Done(n)}
<1>6. Off = {}
  <2>1. SUFFICES ASSUME Off # {} PROVE FALSE
    OBVIOUS
  <2>2. Off \in SUBSET Nat
    BY <1>1
  <2> HIDE DEF Off
  <2>3. PICK m \in Off : \A n \in Off : m <= n
    BY <2>1, <2>2, LeastNat
  <2> USE DEF Off
  <2>4. m \in 0 .. k /\ before[m] # Done(m)
    OBVIOUS
  <2>5. m # 0
    BY <1>1, <1>5, <2>4
  <2>6. m \in 1 .. k /\ m - 1 \in 0 .. k /\ ~ (m <= m - 1)
    BY <1>1, <2>4, <2>5
  <2>7. before[m - 1] = Done(m - 1)
    BY <2>3, <2>6
  <2>8. QED
    BY <1>1, <1>5, <2>4, <2>5, <2>6, <2>7
<1>7. c - 1 \in 0 .. k
  BY <1>1 DEF k
<1>8. QED
  BY <1>2, <1>6, <1>7

\* The frame found by counting is the one the promise has there.
LEMMA Type23TagIs ==
  ASSUME movie \in Movies, Route = "type23", NEW i \in Nat, i < Done(Chunks)
  PROVE  Type23Tag(i) = All[i + 1]
<1> DEFINE k == Chunks
           Has(c) == Type23Before(c) <= i /\ i < Type23Before(c + 1)
           Over == {c \in 0 .. k : i < Done(c)}
<1>1. k \in Nat /\ Done(0) = 0 /\ \A c \in 0 .. k : Done(c) \in Nat
  <2>1. All \in Seq(Tag)
    BY TagsLie
  <2>2. QED
    BY <2>1, TagsLie
<1>2. \A c \in 1 .. k : Type23Before(c) = Done(c - 1)
                        /\ Type23Before(c + 1) = Done(c)
  <2>1. SUFFICES ASSUME NEW c \in 1 .. k
                 PROVE  Type23Before(c) = Done(c - 1)
                        /\ Type23Before(c + 1) = Done(c)
    OBVIOUS
  <2>2. c \in 1 .. k + 1 /\ c + 1 \in 1 .. k + 1 /\ (c + 1) - 1 = c
    BY <1>1
  <2>3. QED
    BY <2>2, Type23BeforeIs
<1>3. \E c \in 1 .. k : Has(c)
  <2>1. k \in Over /\ Over \in SUBSET Nat
    BY <1>1
  <2> HIDE DEF Over
  <2>2. PICK m \in Over : \A n \in Over : m <= n
    BY <2>1, LeastNat
  <2> USE DEF Over
  <2> HIDE DEF k, Done
  <2>3. m \in 0 .. k /\ i < Done(m)
    BY <2>2
  <2>4. m # 0
    BY <1>1, <2>3
  <2>5. m \in 1 .. k /\ m - 1 \in 0 .. k /\ ~ (m <= m - 1)
    BY <1>1, <2>3, <2>4
  <2>6. ~ (i < Done(m - 1))
    BY <2>2, <2>5
  <2>7. Done(m - 1) <= i
    BY <1>1, <2>5, <2>6
  <2>8. Has(m)
    BY <1>2, <2>3, <2>5, <2>7
  <2>9. QED
    BY <2>5, <2>8
<1> DEFINE c == CHOOSE c \in 1 .. k : Has(c)
<1>4. c \in 1 .. k /\ Has(c)
  BY <1>3, Zenon
<1>5. Type23Tag(i) = movie.videos[c][(i - Type23Before(c)) * Type23FrameLen + 1]
  BY Zenon DEF Type23Tag
<1> HIDE DEF c
<1>6. Done(c - 1) <= i /\ i < Done(c) /\ Type23Before(c) = Done(c - 1)
  BY <1>2, <1>4
<1> DEFINE j == i - Done(c - 1)
<1>7. /\ Done(c) = Done(c - 1) + Fit(c) /\ Fit(c) \in Nat
      /\ \A q \in 1 .. Fit(c) : All[Done(c - 1) + q] = movie.laid[c][q]
  BY <1>4, TagsLie
<1>8. Done(c - 1) \in Nat
  <2>1. c - 1 \in 0 .. k
    BY <1>1, <1>4
  <2>2. QED
    BY <1>1, <2>1
<1>9. j \in Nat /\ j < Fit(c) /\ j + 1 \in 1 .. Fit(c)
      /\ Done(c - 1) + (j + 1) = i + 1
  <2> HIDE DEF Done, Fit
  <2>1. QED
    BY <1>6, <1>7, <1>8
<1> HIDE DEF j
<1>10. All[i + 1] = movie.laid[c][j + 1]
  BY <1>7, <1>9
<1>11. Type23FrameLen = 3 /\ movie.videos[c][j * 3 + 1] = movie.laid[c][j + 1]
  BY <1>4, <1>9, Type23Chunk
<1>12. Type23Tag(i) = movie.videos[c][j * 3 + 1]
  BY <1>5, <1>6, <1>11 DEF j
<1>13. QED
  BY <1>10, <1>11, <1>12

-----------------------------------------------------------------------------

\* All the frames there are.
LEMMA Type23All ==
  ASSUME movie \in Movies, Route = "type23"
  PROVE  Type23Before(Chunks + 1) = Len(Promised) /\ Len(Promised) \in Nat
         /\ Len(Promised) = Done(Chunks)
<1>1. Chunks \in Nat /\ Chunks + 1 \in 1 .. Chunks + 1 /\ (Chunks + 1) - 1 = Chunks
  BY MovieParts
<1>2. Type23Before(Chunks + 1) = Done(Chunks)
  BY <1>1, Type23BeforeIs
<1>3. Due(Chunks) = Len(Promised) /\ Len(Promised) \in Nat
  BY DueIs
<1>4. Due(Chunks) = Done(Chunks)
  BY DEF Due
<1>5. QED
  BY <1>2, <1>3, <1>4

LEMMA Type23Shows ==
  ASSUME Placed, Counted, Type23Frame, NEW c, NEW i \in Nat, InFrames(c, i)
  PROVE  InFrames(c, i + 1)'
<1>1. movie \in Movies /\ Route = "type23" /\ Steady /\ HaveVideo
  BY ShowFrameStreams, RouteHasVideo DEF Placed, Type23Frame, ShowFrame
<1>2. Told(i) /\ pos = i
  BY <1>1 DEF InFrames
<1>3. pos < Type23Before(Chunks + 1) /\ Show(<<Type23Tag(pos)>>, pos + 1)
  BY DEF Type23Frame
<1>4. i < Done(Chunks) /\ i < Len(Promised)
  BY <1>1, <1>2, <1>3, Type23All
<1>5. Type23Tag(pos) = All[i + 1]
  BY <1>1, <1>2, <1>4, Type23TagIs
<1>6. Promised = [n \in 1 .. Len(All) |-> <<All[n]>>] /\ Len(All) = Done(Chunks)
      /\ Done(Chunks) \in Nat
  BY <1>1, PromisedIs, TagsLie
<1>7. Promised[i + 1] = <<All[i + 1]>>
  <2> HIDE DEF All, Done, Promised
  <2>1. i + 1 \in 1 .. Len(All)
    BY <1>4, <1>6
  <2>2. QED
    BY <1>6, <2>1
<1>8. SinkVideoFrame(Promised[i + 1], PictureLen) /\ pos' = i + 1
  BY <1>2, <1>3, <1>5, <1>7 DEF Show
<1>9. Shown' = Append(Shown, Promised[i + 1])
  <2> HIDE DEF Shown, Promised
  <2>1. QED
    BY <1>1, <1>8, ShownMore
<1>10. Told(i + 1)'
  BY <1>1, <1>2, <1>4, <1>9, ToldMore
<1>11. Route' = Route
  BY <1>1, PlanSame
<1>12. QED
  BY <1>1, <1>8, <1>10, <1>11 DEF InFrames, Walking

-----------------------------------------------------------------------------
\* How far the pictures are, told by where the program is.

\* c is the number of chunks that are done with.
ShownAt(c) ==
  /\ at \in {"main", "open", "video"} => c = 0 /\ Had(c) /\ pos = 0
  /\ at = "sound" =>
       /\ c = IF Route \in UpFront THEN 0 ELSE chunk - 1
       /\ Had(c)
       /\ Route \in {"tca", "type23"} => pos = 0
  /\ at = "chunk" =>
       c = chunk - 1 /\ Had(c) /\ Route \notin UpFront \cup {"tca"}
  /\ at = "unwrap" =>
       c = chunk - 1 /\ Had(c) /\ \E i \in Nat : Unwrapped(c + 1, i)
  /\ at = "frames" =>
       c = chunk - 1 /\ Route # "sound" /\ \E i \in Nat : InFrames(c + 1, i)
  /\ at = "close" => Told(Len(Promised))
  /\ at = "done" => /\ \E k : Told(k)
                    /\ status = "exit 0" => Told(Len(Promised))

ShownWell == Buffered /\ \E c \in Nat : ShownAt(c)

\* A step that shows nothing.
LEMMA StillStep ==
  ASSUME Placed, Counted, Step, ~ ShowFrame
  PROVE  /\ Shown' = Shown /\ Steady
         /\ UNCHANGED picture
         /\ ~ ModuleShort => UNCHANGED <<memory, cur_out, cur_prev>>
<1>1. StreamStep /\ Steady
  BY StepStreams
<1>2. /\ raw_out' = raw_out /\ UNCHANGED picture /\ (Silent \/ Opened \/ SoundOut)
      /\ ~ ModuleShort => UNCHANGED <<memory, cur_out, cur_prev>>
  <2> USE DEF outVars, cifVars, Silent
  <2>1. ASSUME NEW code, Exit(code)
        PROVE  raw_out' = raw_out /\ UNCHANGED picture /\ Silent
               /\ UNCHANGED <<memory, cur_out, cur_prev>>
    BY <2>1 DEF Exit
  <2>2. CASE Refuse \/ Nothing \/ Close \/ Die
    BY <2>1, <2>2 DEF Refuse, Nothing, Close, Die, DieIf
  <2>3. CASE Decide \/ WriteWav \/ StartVideo \/ SkipChunk \/ EnterChunk
               \/ EnterWrappedChunk \/ UnwrapFrame \/ EndChunk \/ EndFilm
    BY <2>3 DEF Decide, WriteWav, StartVideo, SkipChunk, EnterChunk,
       EnterWrappedChunk, UnwrapFrame, EndChunk, EndFilm
  <2>4. CASE EnterModuleChunk \/ LoadUnwrapped
    BY <2>4 DEF EnterModuleChunk, LoadUnwrapped, LoadPayload
  <2>5. CASE ModuleShort
    BY <2>5 DEF ModuleShort
  <2>6. CASE OpenNut
    <3>1. raw_out' = raw_out /\ UNCHANGED <<picture, cifVars>> /\ at = "open"
      BY <2>6 DEF OpenNut
    <3>2. Silent \/ Opened
      BY <1>1, <3>1 DEF StreamStep, PictureOut, SoundOut
    <3>3. QED
      BY <3>1, <3>2
  <2>7. CASE EmitSound
    <3>1. UNCHANGED <<picture, cifVars>> /\ SinkChunkAudio /\ at = "sound"
      BY <2>7 DEF EmitSound
    <3>2. raw_out' = raw_out
      BY <3>1 DEF SinkChunkAudio
    <3>3. Silent \/ SoundOut
      BY <1>1, <3>1 DEF StreamStep, Opened, PictureOut
    <3>4. QED
      BY <3>1, <3>2, <3>3
  <2>8. QED
    BY <2>2, <2>3, <2>4, <2>5, <2>6, <2>7 DEF Step
<1>3. Shown' = Shown
  BY <1>1, <1>2, ShownSame
<1>4. QED
  BY <1>1, <1>2, <1>3

\* There are no routes but these.
LEMMA RouteKnown ==
  Route \in Walking \cup {"sound", "module", "esc122", "esc130", "type23"}
<1>1. ASSUME NEW x PROVE Info(x).route \in Walking \cup
          {"module", "esc122", "esc130", "type23", "unknown"}
  <2>1. x \in {100, 102, 122, 124, 130} =>
          EscapeRoute(x) \in {"esc100", "esc122", "esc124", "esc130"}
    BY DEF EscapeRoute
  <2>2. QED
    BY <2>1 DEF Info, Walking
<1>2. QED
  BY <1>1 DEF Route, video

\* What a still step leaves as it was.
Kept == Steady /\ Shown' = Shown /\ UNCHANGED <<picture, memory, cur_out, cur_prev>>

LEMMA HadSame ==
  ASSUME Kept, NEW c, Had(c)
  PROVE  Had(c)'
<1>1. Told(Due(c)) /\ Held(Done(c))
  BY DEF Had
<1>2. Steady /\ Shown' = Shown /\ picture' = picture /\ memory' = memory
      /\ cur_prev' = cur_prev
  BY DEF Kept
<1>3. /\ Due(c)' = Due(c) /\ Done(c)' = Done(c) /\ Promised' = Promised
      /\ Route' = Route
  BY <1>2, PlanSame
<1> HIDE DEF Due, Done, Shown, Promised, First
<1>4. Told(Due(c))'
  BY <1>1, <1>2, <1>3 DEF Told
<1>5. PICK k : k = Done(c)
  OBVIOUS
<1>6. First(k)' = First(k) /\ Done(c)' = k
  BY <1>2, <1>3, <1>5, PlanSame
<1>7. Held(k)
  BY <1>1, <1>5
<1>8. Held(k)'
  BY <1>2, <1>3, <1>6, <1>7 DEF Held
<1>9. Held(Done(c))'
  BY <1>6, <1>8, Zenon DEF Held
<1>10. QED
  BY <1>4, <1>9 DEF Had

LEMMA GotSame ==
  ASSUME Kept, NEW c, NEW i, Got(c, i)
  PROVE  Got(c, i)'
<1>1. Told(Due(c - 1) + i) /\ Held(Done(c - 1) + i)
  BY DEF Got
<1>2. Steady /\ Shown' = Shown /\ picture' = picture /\ memory' = memory
      /\ cur_prev' = cur_prev
  BY DEF Kept
<1>3. /\ Due(c - 1)' = Due(c - 1) /\ Done(c - 1)' = Done(c - 1)
      /\ Promised' = Promised /\ Route' = Route
  BY <1>2, PlanSame
<1> HIDE DEF Due, Done, Shown, Promised, First
<1>4. Told(Due(c - 1) + i)'
  BY <1>1, <1>2, <1>3 DEF Told
<1>5. PICK k : k = Done(c - 1) + i
  OBVIOUS
<1>6. First(k)' = First(k) /\ (Done(c - 1) + i)' = k
  BY <1>2, <1>3, <1>5, PlanSame
<1>7. Held(k)
  BY <1>1, <1>5
<1>8. Held(k)'
  BY <1>2, <1>3, <1>6, <1>7 DEF Held
<1>9. Held(Done(c - 1) + i)'
  BY <1>6, <1>8, Zenon DEF Held
<1>10. QED
  BY <1>4, <1>9 DEF Got

LEMMA BufferedSame ==
  ASSUME Buffered, UNCHANGED <<memory, cur_out, cur_prev>>
  PROVE  Buffered'
BY DEF Buffered

\* A chunk begins where the one before it ended.
LEMMA HadIsGot ==
  ASSUME movie \in Movies, NEW c \in 1 .. Chunks, Had(c - 1)
  PROVE  Got(c, 0)
<1>1. c - 1 \in 0 .. Chunks
  BY MovieParts
<1>2. Due(c - 1) \in Nat /\ Done(c - 1) \in Nat
  BY <1>1, DueIs, TagsLie
<1> HIDE DEF Due, Done
<1>3. Due(c - 1) + 0 = Due(c - 1) /\ Done(c - 1) + 0 = Done(c - 1)
  BY <1>2
<1>4. QED
  BY <1>3 DEF Got, Had

\* and ends with its last usable frame.
LEMMA GotIsHad ==
  ASSUME movie \in Movies, ByFrame, NEW c \in 1 .. Chunks, Got(c, Fit(c))
  PROVE  Had(c)
<1>1. Due(c) = Due(c - 1) + Fit(c)
  BY DueIs
<1>2. Done(c) = Done(c - 1) + Fit(c)
  BY TagsLie
<1>3. QED
  BY <1>1, <1>2 DEF Got, Had

\* A frame takes room.
LEMMA FrameTakesRoom ==
  ASSUME NEW as \in Walking \cup Wrappers \cup {"plain"}, NEW bytes,
         NEW tag \in Tag, NEW to \in Nat, FrameAt(as, bytes, tag, 0, to)
  PROVE  to > 0
<1>1. Len(FrameBytes(tag)) \in {1, 3}
  BY FrameBytesIs
<1> DEFINE length == Len(FrameBytes(tag))
<1>2. CASE as = "plain"
  <2>1. to = 0 + length
    BY <1>2 DEF FrameAt, Spans
  <2> HIDE DEF length
  <2>2. QED
    BY <1>1, <2>1 DEF length
<1>3. CASE as = "esc100"
  <2>1. to = 0 + (IF tag % 2 = 0 THEN 8 ELSE 4) \/ to - 0 \in 4 .. 7
    BY <1>3 DEF FrameAt, HeaderCut
  <2>2. QED
    BY <2>1
<1>4. CASE as \in {"esc124", "tca"}
  <2>1. to >= 0 + 8
    BY <1>4 DEF FrameAt
  <2>2. QED
    BY <2>1
<1>5. CASE as \in Wrappers \cup {"pass"}
  <2>1. as \notin {"plain", "esc100", "esc124", "tca"}
    BY <1>5 DEF Wrappers
  <2>2. IF tag = Torn THEN TornAt(as, bytes, 0, to)
        ELSE WrapperAt(as, bytes, tag, 0, to)
    BY <2>1 DEF FrameAt
  <2>3. CASE tag = Torn
    <3>1. 0 + 4 <= to
      BY <2>2, <2>3 DEF TornAt
    <3>2. QED
      BY <3>1
  <2>4. CASE tag # Torn
    <3>1. 0 + WrapHeader + length <= to
      BY <2>2, <2>4 DEF WrapperAt
    <3> HIDE DEF length
    <3>2. QED
      BY <1>1, <3>1 DEF WrapHeader, length
  <2>5. QED
    BY <2>3, <2>4
<1>6. QED
  BY <1>2, <1>3, <1>4, <1>5 DEF Walking

LEMMA NothingSpelled ==
  ASSUME NEW as \in Walking \cup Wrappers \cup {"plain"}, NEW d \in Seq(Nat),
         Len(d) = 0, NEW tags \in Seq(Tag), NEW p, Spells(as, d, tags, p)
  PROVE  Len(tags) = 0
<1>1. SUFFICES ASSUME Len(tags) # 0 PROVE FALSE
  OBVIOUS
<1>2. PICK n : n = Len(tags)
  OBVIOUS
<1>3. n \in Nat /\ n > 0
  BY <1>1, <1>2
<1>4. 1 \in 1 .. n /\ 1 \in 0 .. n /\ 1 - 1 = 0
  BY <1>3
<1>5. /\ p \in [0 .. n -> 0 .. Len(d)] /\ p[0] = 0
      /\ \A i \in 1 .. n : FrameAt(as, d, tags[i], p[i - 1], p[i])
  BY <1>2 DEF Spells
<1>6. p[1] \in 0 .. Len(d)
  BY <1>4, <1>5
<1>7. p[1] \in Nat /\ p[1] <= 0
  BY <1>6
<1>8. tags[1] \in Tag
  BY <1>2, <1>4, ElementOfSeq
<1>9. FrameAt(as, d, tags[1], 0, p[1])
  <2>1. FrameAt(as, d, tags[1], p[1 - 1], p[1])
    BY <1>4, <1>5
  <2>2. p[1 - 1] = 0
    BY <1>4, <1>5
  <2>3. QED
    BY <2>1, <2>2
<1>10. p[1] > 0
  BY <1>7, <1>8, <1>9, FrameTakesRoom
<1>11. QED
  BY <1>7, <1>10

\* Without video there is nothing in a chunk.
LEMMA EmptyChunk ==
  ASSUME movie \in Movies, NEW c \in 1 .. Chunks, movie.videos[c] = <<>>,
         Route \notin {"sound", "tca", "esc130"}
  PROVE  Fit(c) = 0
<1> DEFINE tags == movie.laid[c]
           n == Len(tags)
           d == movie.videos[c]
<1>1. tags \in Seq(Tag) /\ n \in Nat /\ Fit(c) \in 0 .. n /\ d \in Seq(Nat)
      /\ Len(d) = 0
  <2>1. d \in Seq(Nat) /\ Len(d) = 0
    OBVIOUS
  <2>2. QED
    BY <2>1, LaidParts, UsableIs
<1> HIDE DEF d, tags
<1>2. ASSUME NEW as \in Walking \cup Wrappers \cup {"plain"},
             Spells(as, d, tags, movie.cuts[c])
      PROVE  n = 0
  BY <1>1, <1>2, NothingSpelled
<1>3. ASSUME NEW header \in Nat, OneFrame(d, tags, header) PROVE n = 0
  <2>1. TagAt(d, header) = 0
    BY <1>1 DEF TagAt
  <2>2. tags = <<>> \/ tags[1] = 0
    BY <1>3, <2>1 DEF OneFrame
  <2>3. CASE tags = <<>>
    BY <2>3
  <2>4. CASE tags # <<>>
    <3>1. 1 \in 1 .. Len(tags)
      BY <1>1, <2>4, EmptySeq
    <3>2. tags[1] \in Tag
      BY <1>1, <3>1, ElementOfSeq
    <3>3. QED
      BY <2>2, <2>4, <3>2 DEF Tag
  <2>5. QED
    BY <2>3, <2>4
<1>4. n = 0
  <2>1. CASE Route \in {"pass", "esc100", "esc124", "type23"}
    BY <1>2, <2>1, RouteLaid DEF Walking, d, tags
  <2>2. CASE Route = "esc122"
    BY <1>3, <2>2, RouteLaid DEF d, tags
  <2>3. CASE Route = "module"
    <3>1. CASE ~ video.wrapper
      BY <1>2, <2>3, <3>1, RouteLaid DEF d, tags
    <3>2. CASE video.wrapper
      <4>1. Info(movie.video_codec).wrapper
            /\ Info(movie.video_codec).route = "module"
        BY <3>2, WrapperIsModule DEF video
      <4>2. ChunkLaid(movie, c)
        BY LaidParts
      <4>3. tags = <<>>
        BY <4>1, <4>2 DEF ChunkLaid, tags
      <4>4. QED
        BY <4>3
    <3>3. QED
      BY <3>1, <3>2
  <2>4. QED
    BY <2>1, <2>2, <2>3, RouteKnown DEF Walking
<1>5. QED
  BY <1>1, <1>4

-----------------------------------------------------------------------------
\* Step by step.

\* Wherever the program is, some of the pictures have been shown.
LEMMA SomeTold ==
  ASSUME NEW c, ShownAt(c),
         at \in {"main", "open", "video", "sound", "chunk", "unwrap", "frames", "close"}
  PROVE  \E k : Told(k)
<1>1. CASE at \in {"main", "open", "video", "sound", "chunk", "unwrap"}
  <2>1. Had(c)
    BY <1>1 DEF ShownAt
  <2>2. QED
    BY <2>1 DEF Had
<1>2. CASE at = "frames"
  <2>1. Route # "sound"
    BY <1>2 DEF ShownAt
  <2>2. PICK i \in Nat : InFrames(c + 1, i)
    BY <1>2 DEF ShownAt
  <2>3. CASE Route \in Walking \cup {"module"}
    <3>1. Got(c + 1, i)
      BY <2>2, <2>3 DEF InFrames
    <3>2. QED
      BY <3>1 DEF Got
  <2>4. CASE Route \in {"esc122", "esc130"}
    <3>1. Had((c + 1) - 1 + i)
      BY <2>2, <2>4 DEF InFrames
    <3>2. QED
      BY <3>1 DEF Had
  <2>5. CASE Route = "type23"
    BY <2>2, <2>5 DEF InFrames
  <2>6. QED
    BY <2>1, <2>3, <2>4, <2>5, RouteKnown
<1>3. CASE at = "close"
  BY <1>3 DEF ShownAt
<1>4. QED
  BY <1>1, <1>2, <1>3

\* The exits.
LEMMA ExitShown ==
  ASSUME Steady, Shown' = Shown, Buffered, NEW code, Exit(code), NEW k, Told(k),
         code = "exit 0" => Told(Len(Promised))
  PROVE  ShownWell'
<1>1. at' = "done" /\ status' = code /\ UNCHANGED <<memory, cur_out, cur_prev>>
  BY DEF Exit, cifVars
<1>2. Told(k)'
  BY ToldSame
<1>3. ASSUME code = "exit 0" PROVE Told(Len(Promised))'
  <2>1. PICK n : n = Len(Promised)
    OBVIOUS
  <2>2. Told(n)
    BY <1>3, <2>1
  <2>3. Told(n)'
    BY <2>2, ToldSame
  <2>4. Promised' = Promised
    BY PlanSame
  <2> HIDE DEF Promised
  <2>5. Len(Promised)' = n
    BY <2>1, <2>4
  <2>6. QED
    BY <2>3, <2>5, Zenon DEF Told
<1>4. ShownAt(0)'
  BY <1>1, <1>2, <1>3 DEF ShownAt
<1>5. QED
  BY <1>1, <1>4, BufferedSame DEF ShownWell

\* A chunk is done with.
LEMMA OverChunk ==
  ASSUME movie \in Movies, Steady, NEW c \in 1 .. Chunks, chunk = c, NextChunk,
         Route \notin UpFront \cup {"tca"}, Told(Due(c))',
         c < Chunks => Held(Done(c))'
  PROVE  ShownAt(c)'
<1>1. Route' = Route /\ Chunks' = Chunks /\ Promised' = Promised
      /\ Due(c)' = Due(c) /\ Chunks \in Nat
  BY PlanSame, MovieParts
<1>2. CASE c < Chunks
  <2>1. at' = "sound" /\ chunk' = c + 1
    BY <1>2 DEF NextChunk
  <2>2. Had(c)'
    BY <1>2 DEF Had
  <2>3. c = chunk' - 1
    BY <2>1
  <2> HIDE DEF Route
  <2>4. QED
    BY <1>1, <2>1, <2>2, <2>3 DEF ShownAt, UpFront
<1>3. CASE ~ (c < Chunks)
  <2>1. at' = "close" /\ c = Chunks
    BY <1>1, <1>3 DEF NextChunk
  <2>2. Due(Chunks) = Len(Promised)
    BY DueIs
  <2>3. Due(c)' = Len(Promised)'
    <3> HIDE DEF Due, Promised
    <3>1. Due(c) = Len(Promised)
      BY <2>1, <2>2
    <3>2. QED
      BY <1>1, <3>1
  <2>4. Told(Len(Promised))'
    BY <2>3, Zenon DEF Told
  <2>5. QED
    BY <2>1, <2>4 DEF ShownAt
<1>4. QED
  BY <1>2, <1>3

LEMMA StartShown ==
  ASSUME Placed, Counted, ShownWell, Decide \/ OpenNut \/ WriteWav
  PROVE  ShownWell'
<1>1. Step /\ ~ ShowFrame /\ ~ ModuleShort
  BY DEF Step, ShowFrame, Decide, OpenNut, WriteWav, PassFrame, Esc122Frame,
     Esc130Frame, Esc100Frame, Esc124Frame, TcaFrame, Type23Frame, ModuleFrame,
     ModuleShort
<1>2. Kept
  BY <1>1, StillStep DEF Kept
<1>3. PICK c \in Nat : ShownAt(c)
  BY DEF ShownWell
<1>4. at \in {"main", "open"} /\ at' \in {"open", "video"} /\ pos' = pos
  BY DEF Decide, OpenNut, WriteWav, walkVars
<1>5. c = 0 /\ Had(c) /\ pos = 0
  BY <1>3, <1>4 DEF ShownAt
<1>6. Had(c)'
  BY <1>2, <1>5, HadSame
<1>7. ShownAt(c)'
  BY <1>4, <1>5, <1>6 DEF ShownAt
<1>8. Buffered'
  BY <1>2, BufferedSame DEF Kept, ShownWell
<1>9. QED
  BY <1>7, <1>8 DEF ShownWell

\* Nothing is promised where there is no video.
LEMMA NoneTold ==
  ASSUME movie \in Movies, Steady, Shown' = Shown, Route = "sound", Told(Due(0))
  PROVE  Told(Len(Promised))'
<1>1. Promised = <<>> /\ Due(0) = 0
  BY PromisedIs, DueIs
<1>2. Promised' = Promised
  BY PlanSame
<1>3. PICK k : k = 0
  OBVIOUS
<1> HIDE DEF Promised, Due
<1>4. Told(k)
  BY <1>1, <1>3
<1>5. Told(k)'
  BY <1>4, ToldSame
<1>6. Len(Promised)' = k
  BY <1>1, <1>2, <1>3
<1>7. QED
  BY <1>5, <1>6, Zenon DEF Told

LEMMA VideoStarts ==
  ASSUME Placed, Counted, ShownWell, StartVideo
  PROVE  ShownWell'
<1>1. Step /\ ~ ShowFrame /\ ~ ModuleShort /\ at = "video"
  BY DEF Step, ShowFrame, StartVideo, PassFrame, Esc122Frame,
     Esc130Frame, Esc100Frame, Esc124Frame, TcaFrame, Type23Frame, ModuleFrame,
     ModuleShort
<1>2. Kept
  BY <1>1, StillStep DEF Kept
<1>3. PICK c \in Nat : ShownAt(c)
  BY DEF ShownWell
<1>4. SUFFICES ShownAt(c)'
  <2>1. Buffered'
    BY <1>2, BufferedSame DEF Kept, ShownWell
  <2>2. QED
    BY <2>1 DEF ShownWell
<1>5. c = 0 /\ Had(c) /\ pos = 0 /\ movie \in Movies /\ chunk = 1
  BY <1>1, <1>3 DEF ShownAt, Placed
<1>6. Had(c)'
  BY <1>2, <1>5, HadSame
<1>7. Route' = Route
  BY <1>2, PlanSame DEF Kept
<1>8. /\ at' = IF Route = "sound" /\ ~ options.nut THEN "close" ELSE "sound"
      /\ pos' = pos /\ chunk' = chunk
  BY DEF StartVideo, walkVars
<1>9. CASE at' = "sound"
  <2>1. c = IF Route \in UpFront THEN 0 ELSE chunk' - 1
    BY <1>5, <1>8
  <2> HIDE DEF Route
  <2>2. QED
    BY <1>5, <1>6, <1>7, <1>8, <1>9, <2>1 DEF ShownAt, UpFront
<1>10. CASE at' = "close"
  <2>1. Route = "sound" /\ Told(Due(0))
    BY <1>5, <1>8, <1>10 DEF Had
  <2>2. Told(Len(Promised))'
    BY <1>2, <1>5, <2>1, NoneTold DEF Kept
  <2>3. QED
    BY <1>10, <2>2 DEF ShownAt
<1>11. QED
  BY <1>8, <1>9, <1>10

\* A film starts with its first frame,
LEMMA FilmStarts ==
  ASSUME movie \in Movies, Kept, Route = "tca", Had(0), pos = 0,
         data' = movie.film.data, UNCHANGED <<pos, chunk>>, chunk \in 1 .. Chunks
  PROVE  chunk = 1 /\ InFrames(1, 0)'
<1>1. Chunks = 1 /\ chunk = 1 /\ 1 \in 1 .. Chunks /\ 1 - 1 = 0
  BY FilmIsOneChunk
<1>2. Got(1, 0)
  <2> HIDE DEF Had, Got
  <2>1. Had(1 - 1)
    BY <1>1
  <2>2. QED
    BY <1>1, <2>1, HadIsGot
<1>3. Got(1, 0)'
  BY <1>2, GotSame
<1>4. /\ Route' = Route /\ movie' = movie /\ Fit(1)' = Fit(1) /\ Fit(1) \in Nat
  BY <1>1, PlanSame, TagsLie DEF Kept
<1>5. /\ Spells("tca", movie.film.data, movie.laid[1], movie.cuts[1])
      /\ movie.film.data \in Seq(Nat) /\ movie.laid[1] \in Seq(Tag)
  BY <1>1, RouteLaid, LaidParts, MovieParts
<1>6. movie.cuts[1][0] = 0
  BY <1>5 DEF Spells
<1>7. (0 <= Fit(1))'
  <2> HIDE DEF Fit
  <2>1. QED
    BY <1>4
<1>8. (data = movie.film.data /\ pos \in Nat /\ pos = movie.cuts[1][0])'
  BY <1>4, <1>6
<1> HIDE DEF Route
<1>9. QED
  BY <1>1, <1>3, <1>4, <1>7, <1>8 DEF InFrames, Walking

\* type 23 with the movie's.
LEMMA Type23Starts ==
  ASSUME movie \in Movies, Kept, Route = "type23", Had(0), pos' = 0
  PROVE  InFrames(1, 0)'
<1>1. Due(0) = 0 /\ Told(Due(0))
  BY DueIs DEF Had
<1>2. PICK k : k = 0
  OBVIOUS
<1> HIDE DEF Due
<1>3. Told(k)
  BY <1>1, <1>2
<1>4. Told(k)'
  BY <1>3, ToldSame DEF Kept
<1>5. Told(0)'
  BY <1>2, <1>4, Zenon DEF Told
<1>6. Route' = Route
  BY PlanSame DEF Kept
<1> HIDE DEF Route
<1>7. QED
  BY <1>5, <1>6 DEF InFrames, Walking

LEMMA SoundEmitted ==
  ASSUME Placed, Counted, ShownWell, EmitSound
  PROVE  ShownWell'
<1>1. Step /\ ~ ShowFrame /\ ~ ModuleShort /\ at = "sound"
  BY DEF Step, ShowFrame, EmitSound, PassFrame, Esc122Frame,
     Esc130Frame, Esc100Frame, Esc124Frame, TcaFrame, Type23Frame, ModuleFrame,
     ModuleShort
<1>2. Kept /\ Steady /\ Shown' = Shown
  BY <1>1, StillStep DEF Kept
<1>3. PICK c \in Nat : ShownAt(c)
  BY DEF ShownWell
<1>4. SUFFICES ShownAt(c)'
  <2>1. Buffered'
    BY <1>2, BufferedSame DEF Kept, ShownWell
  <2>2. QED
    BY <2>1 DEF ShownWell
<1>5. /\ c = IF Route \in UpFront THEN 0 ELSE chunk - 1
      /\ Had(c) /\ (Route \in {"tca", "type23"} => pos = 0)
      /\ movie \in Movies /\ chunk \in 1 .. Chunks /\ Chunks \in Nat
  BY <1>1, <1>3, MovieParts DEF ShownAt, Placed
<1>6. Had(c)'
  BY <1>2, <1>5, HadSame
<1>7. Route' = Route
  BY <1>2, PlanSame
<1>8. AfterSound
  BY DEF EmitSound
<1> HIDE DEF Route, Had
<1>9. CASE Route \in UpFront /\ chunk < Chunks
  <2>1. at' = "sound" /\ pos' = pos
    BY <1>8, <1>9 DEF AfterSound, walkVars
  <2>2. c = 0
    BY <1>5, <1>9
  <2>3. QED
    BY <1>5, <1>6, <1>7, <1>9, <2>1, <2>2 DEF ShownAt
<1>10. CASE ~ (Route \in UpFront /\ chunk < Chunks) /\ Route = "sound"
  <2>1. at' = "close"
    BY <1>8, <1>10 DEF AfterSound
  <2>2. Had(0)
    BY <1>5, <1>10 DEF UpFront
  <2>3. Told(Due(0))
    BY <2>2 DEF Had
  <2>4. Told(Len(Promised))'
    BY <1>2, <1>5, <1>10, <2>3, NoneTold
  <2>5. QED
    BY <2>1, <2>4 DEF ShownAt
<1>11. CASE ~ (Route \in UpFront /\ chunk < Chunks) /\ Route = "type23"
  <2>1. at' = "frames" /\ chunk' = 1 /\ pos' = pos
    BY <1>8, <1>11 DEF AfterSound, walkVars
  <2>2. c = 0 /\ Had(0) /\ pos = 0
    BY <1>5, <1>11 DEF UpFront
  <2>3. InFrames(1, 0)'
    BY <1>2, <1>5, <1>11, <2>1, <2>2, Type23Starts
  <2>4. PICK i \in Nat : i = 0
    OBVIOUS
  <2>5. InFrames(c + 1, i)'
    <3>1. c + 1 = 1
      BY <2>2
    <3>2. QED
      BY <2>3, <2>4, <3>1
  <2>6. c = chunk' - 1
    BY <2>1, <2>2
  <2>7. QED
    BY <1>7, <1>11, <2>1, <2>5, <2>6 DEF ShownAt
<1>12. CASE Route = "tca"
  <2>1. at' = "frames" /\ data' = movie.film.data /\ UNCHANGED <<pos, chunk>>
    BY <1>8, <1>12 DEF AfterSound, UpFront
  <2>2. chunk = 1
    BY <1>5, <1>12, FilmIsOneChunk
  <2>3. c = 0 /\ Had(0) /\ pos = 0
    BY <1>5, <1>12, <2>2 DEF UpFront
  <2>4. InFrames(1, 0)'
    BY <1>2, <1>5, <1>12, <2>1, <2>3, FilmStarts
  <2>5. PICK i \in Nat : i = 0
    OBVIOUS
  <2>6. InFrames(c + 1, i)'
    <3>1. c + 1 = 1
      BY <2>3
    <3>2. QED
      BY <2>4, <2>5, <3>1
  <2>7. c = chunk' - 1
    BY <2>1, <2>2, <2>3
  <2>8. QED
    BY <1>7, <1>12, <2>1, <2>6, <2>7 DEF ShownAt
<1>13. CASE Route \notin UpFront \cup {"tca"}
  <2>1. at' = "chunk" /\ chunk' = chunk
    BY <1>8, <1>13 DEF AfterSound, UpFront
  <2>2. c = chunk' - 1
    BY <1>5, <1>13, <2>1
  <2>3. QED
    BY <1>6, <1>7, <1>13, <2>1, <2>2 DEF ShownAt
<1>14. QED
  BY <1>9, <1>10, <1>11, <1>12, <1>13 DEF UpFront

-----------------------------------------------------------------------------
\* Into a chunk.

LEMMA AtChunkIs ==
  ASSUME Placed, ShownWell, at = "chunk"
  PROVE  /\ movie \in Movies /\ chunk \in 1 .. Chunks /\ Chunks \in Nat
         /\ chunk - 1 \in Nat /\ (chunk - 1) + 1 = chunk /\ Had(chunk - 1)
         /\ Route \notin UpFront \cup {"tca"}
<1>1. PICK c \in Nat : ShownAt(c)
  BY DEF ShownWell
<1>2. c = chunk - 1 /\ Had(c) /\ Route \notin UpFront \cup {"tca"}
  BY <1>1 DEF ShownAt
<1>3. movie \in Movies /\ chunk \in 1 .. Chunks /\ Chunks \in Nat
  BY MovieParts DEF Placed
<1>4. QED
  BY <1>2, <1>3

LEMMA FramesShown ==
  ASSUME NEW c \in Nat \ {0}, at' = "frames", chunk' = c, (Route # "sound")',
         NEW i \in Nat, InFrames(c, i)', Buffered'
  PROVE  ShownWell'
<1>1. PICK b \in Nat : b + 1 = c
  <2>1. c - 1 \in Nat /\ (c - 1) + 1 = c
    OBVIOUS
  <2>2. QED
    BY <2>1
<1>2. InFrames(b + 1, i)'
  BY <1>1
<1>3. b = chunk' - 1
  BY <1>1
<1> HIDE DEF Route
<1>4. ShownAt(b)'
  BY <1>2, <1>3 DEF ShownAt
<1>5. QED
  BY <1>4 DEF ShownWell

\* An empty chunk promises nothing.
LEMMA EmptyHad ==
  ASSUME movie \in Movies, NEW c \in 1 .. Chunks, movie.videos[c] = <<>>,
         Route \notin UpFront \cup {"tca", "esc130"}, Had(c - 1)
  PROVE  Had(c)
<1>1. Fit(c) = 0
  BY EmptyChunk DEF UpFront
<1>2. CASE ByFrame
  <2>1. Got(c, 0)
    BY HadIsGot
  <2>2. Got(c, Fit(c))
    BY <1>1, <2>1
  <2>3. QED
    BY <1>2, <2>2, GotIsHad
<1>3. CASE Route = "esc122"
  <2>1. Due(c) = Due(c - 1)
    BY <1>3, DueIs
  <2>2. Done(c) = Done(c - 1) + Fit(c) /\ Done(c - 1) \in Nat
    <3>1. c - 1 \in 0 .. Chunks
      BY MovieParts
    <3>2. QED
      BY <3>1, TagsLie
  <2>3. Done(c) = Done(c - 1)
    BY <1>1, <2>2
  <2>4. QED
    BY <2>1, <2>3 DEF Had
<1>4. QED
  BY <1>2, <1>3 DEF ByFrame, UpFront

LEMMA ChunkSkipped ==
  ASSUME Placed, Counted, ShownWell, SkipChunk
  PROVE  ShownWell'
<1>1. Step /\ ~ ShowFrame /\ ~ ModuleShort /\ at = "chunk"
  BY DEF Step, ShowFrame, SkipChunk, PassFrame, Esc122Frame,
     Esc130Frame, Esc100Frame, Esc124Frame, TcaFrame, Type23Frame, ModuleFrame,
     ModuleShort
<1>2. Kept /\ Steady
  BY <1>1, StillStep DEF Kept
<1>3. PICK c : c = chunk
  OBVIOUS
<1>4. /\ movie \in Movies /\ c \in 1 .. Chunks /\ Had(c - 1) /\ c \in Nat
      /\ Route \notin UpFront \cup {"tca", "esc130"}
  BY <1>1, <1>3, AtChunkIs DEF SkipChunk
<1>5. movie.videos[c] = <<>> /\ NextChunk
  <2>1. movie.videos[c] \in Seq(Nat)
    BY <1>4, MovieParts, ElementOfSeq DEF Chunks
  <2>2. Len(movie.videos[c]) = 0 /\ NextChunk
    BY <1>3 DEF SkipChunk, vbytes
  <2>3. QED
    BY <2>1, <2>2, EmptySeq
<1>6. Had(c)
  BY <1>4, <1>5, EmptyHad
<1>7. Had(c)'
  BY <1>2, <1>6, HadSame
<1>8. Told(Due(c))' /\ Held(Done(c))'
  BY <1>7 DEF Had
<1>9. ShownAt(c)'
  BY <1>2, <1>3, <1>4, <1>5, <1>8, OverChunk
<1>10. Buffered'
  BY <1>2, BufferedSame DEF Kept, ShownWell
<1>11. QED
  BY <1>4, <1>9, <1>10 DEF ShownWell

\* A chunk's walk starts at its first byte.
LEMMA WalkStarts ==
  ASSUME movie \in Movies, Kept, NEW c \in 1 .. Chunks, Had(c - 1),
         Route \in {"pass", "esc100", "esc124"},
         data' = movie.videos[c], pos' = 0
  PROVE  InFrames(c, 0)'
<1>1. Got(c, 0)'
  BY HadIsGot, GotSame
<1>2. Route' = Route /\ movie' = movie /\ Fit(c)' = Fit(c) /\ Fit(c) \in Nat
  BY PlanSame, TagsLie DEF Kept
<1>3. movie.cuts[c][0] = 0
  <2>1. CASE Route = "pass"
    BY <2>1, RouteLaid DEF Spells
  <2>2. CASE Route \in {"esc100", "esc124"}
    BY <2>2, RouteLaid DEF Spells
  <2>3. QED
    BY <2>1, <2>2
<1>4. Rests(movie.videos[c], 0, 0)
  BY DEF Rests
<1>5. (0 <= Fit(c))'
  <2> HIDE DEF Fit
  <2>1. QED
    BY <1>2
<1>6. (data = movie.videos[c] /\ pos \in Nat /\ pos = movie.cuts[c][0])'
      /\ Rests(data, pos, movie.cuts[c][0])'
  BY <1>2, <1>3, <1>4
<1> HIDE DEF Route, Fit
<1>7. QED
  BY <1>1, <1>2, <1>5, <1>6 DEF InFrames, Walking

\* A chunk of one frame.
LEMMA OneStarts ==
  ASSUME movie \in Movies, Kept, NEW c \in 1 .. Chunks, Had(c - 1),
         Route \in {"esc122", "esc130"},
         Route = "esc122" => movie.videos[c] # <<>>,
         data' = movie.videos[c], pos' = 0, left' = 0
  PROVE  InFrames(c, 0)'
<1>1. PICK b : b = c - 1
  OBVIOUS
<1>2. c - 1 + 0 = b
  BY <1>1
<1>3. Had(b)'
  BY <1>1, HadSame
<1>4. Had(c - 1 + 0)'
  BY <1>2, <1>3
<1>5. Route' = Route /\ movie' = movie
  BY PlanSame DEF Kept
<1> HIDE DEF Route
<1>6. QED
  BY <1>4, <1>5 DEF InFrames, Walking

LEMMA ChunkEntered ==
  ASSUME Placed, Counted, ShownWell, EnterChunk
  PROVE  ShownWell'
<1>1. Step /\ ~ ShowFrame /\ ~ ModuleShort /\ at = "chunk"
  BY DEF Step, ShowFrame, EnterChunk, PassFrame, Esc122Frame,
     Esc130Frame, Esc100Frame, Esc124Frame, TcaFrame, Type23Frame, ModuleFrame,
     ModuleShort
<1>2. Kept /\ Steady
  BY <1>1, StillStep DEF Kept
<1>3. PICK c : c = chunk
  OBVIOUS
<1>4. /\ movie \in Movies /\ c \in 1 .. Chunks /\ Had(c - 1) /\ c \in Nat \ {0}
      /\ Route \notin UpFront \cup {"tca", "module"}
  BY <1>1, <1>3, AtChunkIs DEF EnterChunk
<1>5. /\ data' = movie.videos[c] /\ pos' = 0 /\ left' = 0 /\ at' = "frames"
      /\ chunk' = c
      /\ Route = "esc122" => movie.videos[c] # <<>>
  BY <1>3 DEF EnterChunk, vbytes
<1>6. InFrames(c, 0)'
  <2>1. CASE Route \in {"pass", "esc100", "esc124"}
    BY <1>2, <1>4, <1>5, <2>1, WalkStarts
  <2>2. CASE Route \in {"esc122", "esc130"}
    BY <1>2, <1>4, <1>5, <2>2, OneStarts
  <2>3. QED
    BY <1>4, <2>1, <2>2, RouteKnown DEF UpFront, Walking
<1>7. Buffered'
  BY <1>2, BufferedSame DEF Kept, ShownWell
<1>8. (Route # "sound")'
  BY <1>2, <1>4, PlanSame DEF UpFront
<1>9. PICK i \in Nat : i = 0
  OBVIOUS
<1>10. InFrames(c, i)'
  BY <1>6, <1>9
<1>11. QED
  BY <1>4, <1>5, <1>7, <1>8, <1>10, FramesShown

\* Into the sandbox.

\* A payload that was just loaded.
LEMMA ModuleStarts ==
  ASSUME movie \in Movies, Kept, NEW c \in 1 .. Chunks, Had(c - 1),
         Route = "module", NEW d \in Seq(Nat), LoadPayload(d),
         NEW p, Spells("plain", d, Payload(c), p),
         pos' = 0, left' = Want(c)
  PROVE  InFrames(c, 0)'
<1>1. Got(c, 0)'
  BY HadIsGot, GotSame
<1>2. /\ Route' = Route /\ Fit(c)' = Fit(c) /\ Want(c)' = Want(c)
      /\ Payload(c)' = Payload(c) /\ Fit(c) \in Nat /\ Want(c) \in Nat
  BY PlanSame, PayloadIs DEF Kept
<1>3. payload_loaded' /\ source' = d /\ p[0] = 0
  BY DEF LoadPayload, Spells
<1> HIDE DEF Route, Fit, Want, Payload
<1>4. (0 <= Fit(c) /\ left = Want(c) - 0)'
  BY <1>2
<1>5. Spells("plain", source', Payload(c)', p) /\ pos' = p[0]
  BY <1>2, <1>3
<1>6. (payload_loaded /\ source \in Seq(Nat))'
  BY <1>3
<1>7. InModule(c, 0)'
  BY <1>4, <1>5, <1>6 DEF InModule
<1>8. QED
  BY <1>1, <1>2, <1>7 DEF InFrames, Walking

LEMMA ModuleChunkEntered ==
  ASSUME Placed, Counted, ShownWell, EnterModuleChunk
  PROVE  ShownWell'
<1>1. Step /\ ~ ShowFrame /\ ~ ModuleShort /\ at = "chunk"
  BY DEF Step, ShowFrame, EnterModuleChunk, PassFrame, Esc122Frame,
     Esc130Frame, Esc100Frame, Esc124Frame, TcaFrame, Type23Frame, ModuleFrame,
     ModuleShort
<1>2. Kept /\ Steady
  BY <1>1, StillStep DEF Kept
<1>3. PICK c : c = chunk
  OBVIOUS
<1>4. /\ movie \in Movies /\ c \in 1 .. Chunks /\ Had(c - 1) /\ c \in Nat \ {0}
  BY <1>1, <1>3, AtChunkIs
<1>5. /\ Route = "module" /\ ~ video.wrapper /\ LoadPayload(movie.videos[c])
      /\ pos' = 0 /\ left' = movie.frames_per_chunk /\ at' = "frames"
      /\ chunk' = c
  BY <1>3 DEF EnterModuleChunk
<1>6. movie.videos[c] \in Seq(Nat)
  BY <1>4, MovieParts, ElementOfSeq DEF Chunks
<1>7. /\ Payload(c) = movie.laid[c] /\ left' = Want(c)
      /\ Spells("plain", movie.videos[c], movie.laid[c], movie.cuts[c])
  BY <1>4, <1>5, RouteLaid DEF Payload, Want
<1>8. InFrames(c, 0)'
  <2> HIDE DEF Route, Payload, Want
  <2>1. Spells("plain", movie.videos[c], Payload(c), movie.cuts[c])
    BY <1>7
  <2>2. QED
    BY <1>2, <1>4, <1>5, <1>6, <1>7, <2>1, ModuleStarts
<1>9. Buffered'
  BY <1>2, BufferedSame DEF Kept, ShownWell
<1>10. (Route # "sound")'
  BY <1>2, <1>5, PlanSame
<1>11. PICK i \in Nat : i = 0
  OBVIOUS
<1>12. InFrames(c, i)'
  BY <1>8, <1>11
<1>13. QED
  BY <1>4, <1>5, <1>9, <1>10, <1>12, FramesShown

\* Before the first wrapper.
LEMMA UnwrapStarts ==
  ASSUME Steady, NEW c \in Nat, movie \in Movies,
         NEW p, p[0] = 0, movie.cuts[c] = p, chunk' = chunk,
         video.wrapper, movie.videos[c] # <<>>, ~ PaletteMissing,
         Payload(c) \in Seq(Tag), data' = <<>>, pos' = 0, left' = 0
  PROVE  Unwrapped(c, 0)'
<1>1. /\ movie' = movie /\ video' = video /\ Payload(c)' = Payload(c)
  BY PlanSame
<1>2. PaletteMissing' = PaletteMissing /\ Unpaletted' = Unpaletted
  BY <1>1 DEF PaletteMissing, Unpaletted, vbytes
<1>3. SubSeq(Payload(c), 1, 0) = <<>>
  BY Beginning DEF Payload
<1>4. Len(Payload(c)) \in Nat
  OBVIOUS
<1> DEFINE q == [i \in 0 .. 0 |-> 0]
<1>5. Spells("plain", <<>>, <<>>, q)
  <2>1. <<>> \in Seq(Nat) /\ Len(<<>>) = 0
    OBVIOUS
  <2>2. q \in [0 .. Len(<<>>) -> 0 .. Len(<<>>)] /\ q[0] = 0
    BY <2>1
  <2> HIDE DEF q
  <2>3. 1 .. Len(<<>>) = {}
    BY <2>1
  <2>4. QED
    BY <2>1, <2>2, <2>3 DEF Spells
<1>6. <<>> \in Seq(Nat) /\ Rests(Unpaletted, 0, 0)
  BY DEF Rests
<1> HIDE DEF Payload, video, PaletteMissing, Unpaletted, q
<1>7. Spells("plain", data', SubSeq(Payload(c), 1, 0)', q)
  BY <1>1, <1>3, <1>5
<1>8. (0 \in 0 .. Len(Payload(c)))'
  BY <1>1, <1>4
<1>9. (data \in Seq(Nat) /\ pos \in Nat)'
  BY <1>6
<1>10. Rests(Unpaletted, pos, movie.cuts[c][0])'
  BY <1>1, <1>2, <1>6
<1>11. (video.wrapper /\ movie.videos[c] # <<>> /\ ~ PaletteMissing)'
  BY <1>1, <1>2
<1>12. QED
  BY <1>7, <1>8, <1>9, <1>10, <1>11 DEF Unwrapped

LEMMA WrappedChunkEntered ==
  ASSUME Placed, Counted, ShownWell, EnterWrappedChunk
  PROVE  ShownWell'
<1>1. Step /\ ~ ShowFrame /\ ~ ModuleShort /\ at = "chunk"
  BY DEF Step, ShowFrame, EnterWrappedChunk, PassFrame, Esc122Frame,
     Esc130Frame, Esc100Frame, Esc124Frame, TcaFrame, Type23Frame, ModuleFrame,
     ModuleShort
<1>2. Kept /\ Steady
  BY <1>1, StillStep DEF Kept
<1>3. PICK c : c = chunk
  OBVIOUS
<1>4. /\ movie \in Movies /\ c \in 1 .. Chunks /\ Had(c - 1) /\ c \in Nat \ {0}
      /\ c - 1 \in Nat /\ (c - 1) + 1 = c
  BY <1>1, <1>3, AtChunkIs
<1>5. /\ Route = "module" /\ video.wrapper /\ ~ PaletteMissing
      /\ Len(movie.videos[c]) # 0
      /\ data' = <<>> /\ pos' = 0 /\ left' = 0 /\ at' = "unwrap"
      /\ chunk' = chunk /\ chunk' = c
  BY <1>3 DEF EnterWrappedChunk, vbytes
<1>6. movie.videos[c] # <<>>
  BY <1>5
<1>7. movie.cuts[c][0] = 0
  BY <1>3, <1>4, <1>5, <1>6, UnpalettedLaid DEF Spells
<1>8. Payload(c) \in Seq(Tag)
  BY <1>4, <1>5, PayloadIs
<1>9. Unwrapped(c, 0)'
  BY <1>2, <1>4, <1>5, <1>6, <1>7, <1>8, UnwrapStarts
<1>10. PICK b \in Nat : b = c - 1
  BY <1>4
<1>11. Had(b)'
  BY <1>2, <1>4, <1>10, HadSame
<1>12. PICK i \in Nat : i = 0
  OBVIOUS
<1>13. b + 1 = c
  BY <1>4, <1>10
<1>14. Unwrapped(b + 1, i)'
  BY <1>9, <1>12, <1>13
<1>15. b = chunk' - 1
  BY <1>5, <1>10
<1>16. ShownAt(b)'
  BY <1>5, <1>11, <1>14, <1>15 DEF ShownAt
<1>17. Buffered'
  BY <1>2, BufferedSame DEF Kept, ShownWell
<1>18. QED
  BY <1>16, <1>17 DEF ShownWell

LEMMA AtUnwrapIs ==
  ASSUME Placed, ShownWell, at = "unwrap"
  PROVE  /\ movie \in Movies /\ Route = "module" /\ chunk \in 1 .. Chunks
         /\ chunk - 1 \in Nat /\ (chunk - 1) + 1 = chunk /\ Had(chunk - 1)
         /\ \E i \in Nat : Unwrapped(chunk, i)
<1>1. PICK c \in Nat : ShownAt(c)
  BY DEF ShownWell
<1>2. c = chunk - 1 /\ Had(c) /\ \E i \in Nat : Unwrapped(c + 1, i)
  BY <1>1 DEF ShownAt
<1>3. movie \in Movies /\ chunk \in 1 .. Chunks /\ Chunks \in Nat
      /\ Route = "module"
  BY MovieParts DEF Placed
<1>4. c + 1 = chunk
  BY <1>2, <1>3
<1> HIDE DEF Had, Unwrapped
<1>5. \E i \in Nat : Unwrapped(chunk, i)
  BY <1>2, <1>4
<1>6. QED
  BY <1>2, <1>3, <1>5

\* One codec frame more.
LEMMA UnwrapsMore ==
  ASSUME movie \in Movies, Steady, Route = "module", NEW c \in 1 .. Chunks,
         chunk = c, chunk' = chunk, NEW i \in Nat, Unwrapped(c, i), UnwrapFrame
  PROVE  Unwrapped(c, i + 1)'
<1> DEFINE b == Payload(c)
           tag == movie.laid[c][i + 1]
<1>1. /\ NextWrapped.found /\ data' = data \o NextWrapped.frame
      /\ pos' = NextWrapped.pos /\ left' = left + 1
  BY DEF UnwrapFrame
<1>2. /\ i < Len(b) /\ NextWrapped.frame = FrameBytes(tag) /\ tag \in Tag
      /\ NextWrapped.pos \in Nat
      /\ Rests(Unpaletted, NextWrapped.pos, movie.cuts[c][i + 1])
  <2> HIDE DEF Unwrapped, NextWrapped
  <2>1. QED
    BY <1>1, UnwrapWalk
<1>3. b \in Seq(Tag) /\ \A j \in 1 .. Len(b) : b[j] = movie.laid[c][j]
  BY PayloadIs
<1>4. /\ video.wrapper /\ movie.videos[c] # <<>> /\ ~ PaletteMissing
      /\ left = i /\ i \in 0 .. Len(b) /\ data \in Seq(Nat)
  BY DEF Unwrapped
<1>5. PICK p : Spells("plain", data, SubSeq(b, 1, i), p)
  BY DEF Unwrapped
<1>6. /\ movie' = movie /\ video' = video /\ Payload(c)' = Payload(c)
  BY PlanSame
<1>7. PaletteMissing' = PaletteMissing /\ Unpaletted' = Unpaletted
  BY <1>6 DEF PaletteMissing, Unpaletted, vbytes
<1> HIDE DEF Payload, Unpaletted, PaletteMissing, NextWrapped, video
<1>8. b[i + 1] = tag /\ i + 1 \in 0 .. Len(b)
  <2>1. Len(b) \in Nat
    BY <1>3
  <2>2. i + 1 \in 1 .. Len(b) /\ i + 1 \in 0 .. Len(b)
    BY <1>2, <2>1
  <2>3. QED
    BY <1>3, <2>2
<1>9. SubSeq(b, 1, i) \in Seq(Tag)
      /\ SubSeq(b, 1, i + 1) = Append(SubSeq(b, 1, i), b[i + 1])
  BY <1>2, <1>3, <1>4, Beginning
<1> HIDE DEF tag, b
<1>10. /\ data \o FrameBytes(tag) \in Seq(Nat)
       /\ \E q : Spells("plain", data \o FrameBytes(tag),
                        Append(SubSeq(b, 1, i), tag), q)
  BY <1>2, <1>4, <1>5, <1>9, SpellsMore
<1>11. data' = data \o FrameBytes(tag)
  BY <1>1, <1>2
<1>12. PICK q : Spells("plain", data', SubSeq(b, 1, i + 1), q)
  BY <1>8, <1>9, <1>10, <1>11
<1>13. b' = b
  BY <1>6 DEF b
<1>14. Spells("plain", data', SubSeq(b, 1, i + 1)', q)
  BY <1>12, <1>13
<1>15. (i + 1 \in 0 .. Len(b))'
  BY <1>8, <1>13
<1>16. (data \in Seq(Nat) /\ pos \in Nat /\ left = i + 1)'
  BY <1>1, <1>2, <1>4, <1>10, <1>11
<1>17. Rests(Unpaletted, pos, movie.cuts[c][i + 1])'
  BY <1>1, <1>2, <1>6, <1>7
<1>18. (video.wrapper /\ movie.videos[c] # <<>> /\ ~ PaletteMissing)'
  BY <1>4, <1>6, <1>7
<1>19. (\E r : Spells("plain", data, SubSeq(Payload(c), 1, i + 1), r))'
  BY <1>14 DEF b
<1>20. (i + 1 \in 0 .. Len(Payload(c)))'
  BY <1>15 DEF b
<1>21. QED
  BY <1>16, <1>17, <1>18, <1>19, <1>20 DEF Unwrapped

LEMMA FrameUnwrapped ==
  ASSUME Placed, Counted, ShownWell, UnwrapFrame
  PROVE  ShownWell'
<1>1. Step /\ ~ ShowFrame /\ ~ ModuleShort /\ at = "unwrap"
  BY DEF Step, ShowFrame, UnwrapFrame, PassFrame, Esc122Frame,
     Esc130Frame, Esc100Frame, Esc124Frame, TcaFrame, Type23Frame, ModuleFrame,
     ModuleShort
<1>2. Kept /\ Steady
  BY <1>1, StillStep DEF Kept
<1>3. PICK c : c = chunk
  OBVIOUS
<1>4. /\ movie \in Movies /\ Route = "module" /\ c \in 1 .. Chunks
      /\ c - 1 \in Nat /\ (c - 1) + 1 = c /\ Had(c - 1)
      /\ \E i \in Nat : Unwrapped(c, i)
  BY <1>1, <1>3, AtUnwrapIs
<1>5. PICK i \in Nat : Unwrapped(c, i)
  BY <1>4
<1>6. chunk' = chunk /\ at' = at
  BY DEF UnwrapFrame
<1>7. Unwrapped(c, i + 1)'
  BY <1>2, <1>3, <1>4, <1>5, <1>6, UnwrapsMore
<1>8. PICK b \in Nat : b = c - 1
  BY <1>4
<1>9. PICK n \in Nat : n = i + 1
  <2>1. i + 1 \in Nat
    OBVIOUS
  <2>2. QED
    BY <2>1
<1>10. Had(b)'
  BY <1>2, <1>4, <1>8, HadSame
<1>11. b + 1 = c /\ b = chunk' - 1
  BY <1>3, <1>4, <1>6, <1>8
<1>12. Unwrapped(b + 1, n)'
  BY <1>7, <1>9, <1>11
<1>13. ShownAt(b)'
  BY <1>1, <1>6, <1>10, <1>11, <1>12 DEF ShownAt
<1>14. Buffered'
  BY <1>2, BufferedSame DEF Kept, ShownWell
<1>15. QED
  BY <1>13, <1>14 DEF ShownWell

LEMMA UnwrappedLoaded ==
  ASSUME Placed, Counted, ShownWell, LoadUnwrapped
  PROVE  ShownWell'
<1>1. Step /\ ~ ShowFrame /\ ~ ModuleShort /\ at = "unwrap"
  BY DEF Step, ShowFrame, LoadUnwrapped, PassFrame, Esc122Frame,
     Esc130Frame, Esc100Frame, Esc124Frame, TcaFrame, Type23Frame, ModuleFrame,
     ModuleShort
<1>2. Kept /\ Steady
  BY <1>1, StillStep DEF Kept
<1>3. PICK c : c = chunk
  OBVIOUS
<1>4. /\ movie \in Movies /\ Route = "module" /\ c \in 1 .. Chunks
      /\ c \in Nat \ {0} /\ Had(c - 1) /\ \E i \in Nat : Unwrapped(c, i)
  BY <1>1, <1>3, AtUnwrapIs
<1>5. PICK i \in Nat : Unwrapped(c, i)
  BY <1>4
<1>6. /\ ~ NextWrapped.found /\ LoadPayload(data) /\ pos' = 0
      /\ at' = "frames" /\ chunk' = c /\ left' = left
  BY <1>3 DEF LoadUnwrapped
<1>7. ~ (i < Len(Payload(c)))
  BY <1>3, <1>4, <1>5, <1>6, UnwrapWalk
<1>8. /\ video.wrapper /\ left = i /\ i \in 0 .. Len(Payload(c))
      /\ data \in Seq(Nat)
      /\ \E q : Spells("plain", data, SubSeq(Payload(c), 1, i), q)
  BY <1>5 DEF Unwrapped
<1>9. PICK q : Spells("plain", data, SubSeq(Payload(c), 1, i), q)
  BY <1>8
<1>10. Payload(c) \in Seq(Tag)
  BY <1>4, PayloadIs
<1> DEFINE b == Payload(c)
<1> HIDE DEF b
<1>11. i = Len(Payload(c))
  <2>1. b \in Seq(Tag) /\ i \in 0 .. Len(b) /\ ~ (i < Len(b))
    BY <1>7, <1>8, <1>10 DEF b
  <2>2. i = Len(b)
    BY <2>1
  <2>3. QED
    BY <2>2 DEF b
<1>12. SubSeq(Payload(c), 1, i) = Payload(c)
  BY <1>10, <1>11, Beginning
<1>13. left' = Want(c)
  BY <1>6, <1>8, <1>11 DEF Want
<1>14. InFrames(c, 0)'
  <2> HIDE DEF Route, Payload, Want
  <2>1. Spells("plain", data, Payload(c), q)
    BY <1>9, <1>12
  <2>2. PICK d \in Seq(Nat) : d = data
    BY <1>8
  <2>3. QED
    BY <1>2, <1>4, <1>6, <1>13, <2>1, <2>2, ModuleStarts
<1>15. Buffered'
  BY <1>2, BufferedSame DEF Kept, ShownWell
<1>16. (Route # "sound")'
  BY <1>2, <1>4, PlanSame
<1>17. PICK k \in Nat : k = 0
  OBVIOUS
<1>18. InFrames(c, k)'
  BY <1>14, <1>17
<1>19. QED
  BY <1>4, <1>6, <1>15, <1>16, <1>18, FramesShown

-----------------------------------------------------------------------------
\* Through a chunk.

LEMMA AtFramesIs ==
  ASSUME Placed, ShownWell, at = "frames"
  PROVE  /\ movie \in Movies /\ chunk \in 1 .. Chunks /\ chunk \in Nat \ {0}
         /\ Route # "sound" /\ Buffered
         /\ \E i \in Nat : InFrames(chunk, i)
<1>1. PICK c \in Nat : ShownAt(c)
  BY DEF ShownWell
<1>2. c = chunk - 1 /\ Route # "sound" /\ \E i \in Nat : InFrames(c + 1, i)
  BY <1>1 DEF ShownAt
<1>3. movie \in Movies /\ chunk \in 1 .. Chunks /\ Chunks \in Nat
  BY MovieParts DEF Placed
<1>4. c + 1 = chunk
  BY <1>2, <1>3
<1> HIDE DEF InFrames, Route
<1>5. \E i \in Nat : InFrames(chunk, i)
  BY <1>2, <1>4
<1>6. QED
  BY <1>2, <1>3, <1>5 DEF ShownWell

LEMMA PictureShown ==
  ASSUME Placed, Counted, ShownWell, ShowFrame
  PROVE  ShownWell'
<1>1. at = "frames" /\ at' = at /\ chunk' = chunk
  BY DEF ShowFrame, PassFrame, Esc122Frame, Esc130Frame, Esc100Frame,
     Esc124Frame, TcaFrame, Type23Frame, ModuleFrame, Show, OtherThanWalk
<1>2. PICK c : c = chunk
  OBVIOUS
<1>3. /\ movie \in Movies /\ c \in 1 .. Chunks /\ c \in Nat \ {0}
      /\ Route # "sound" /\ Buffered /\ \E i \in Nat : InFrames(c, i)
  BY <1>1, <1>2, AtFramesIs
<1>4. PICK i \in Nat : InFrames(c, i)
  BY <1>3
<1>5. PICK n \in Nat : n = i + 1
  <2>1. i + 1 \in Nat
    OBVIOUS
  <2>2. QED
    BY <2>1
<1>6. PICK k \in Nat : k = 1
  OBVIOUS
<1>7. chunk = c
  BY <1>2
<1>8. (Route # "sound")' /\ chunk' = c /\ at' = "frames"
  BY <1>1, <1>3, <1>7, ShowFrameStreams, PlanSame
<1>9. CASE ~ ModuleFrame
  <2>1. UNCHANGED <<memory, cur_out, cur_prev>>
    BY <1>9 DEF ShowFrame, PassFrame, Esc122Frame, Esc130Frame, Esc100Frame,
     Esc124Frame, TcaFrame, Type23Frame, Show, OtherThanWalk, cifVars
  <2>2. Buffered'
    BY <1>3, <2>1, BufferedSame
  <2>3. CASE Esc122Frame
    <3>1. InFrames(c, 1)'
      BY <1>3, <1>4, <1>7, <2>3, Esc122Shows
    <3>2. InFrames(c, k)'
      BY <1>6, <3>1
    <3>3. QED
      BY <1>3, <1>8, <2>2, <3>2, FramesShown
  <2>4. CASE Esc130Frame
    <3>1. InFrames(c, 1)'
      BY <1>3, <1>4, <1>7, <2>4, Esc130Shows
    <3>2. InFrames(c, k)'
      BY <1>6, <3>1
    <3>3. QED
      BY <1>3, <1>8, <2>2, <3>2, FramesShown
  <2>5. CASE PassFrame \/ Esc100Frame \/ Esc124Frame \/ TcaFrame \/ Type23Frame
    <3>1. InFrames(c, i + 1)'
      BY <1>3, <1>4, <1>7, <2>5, PassShows, Esc100Shows, Esc124Shows, TcaShows,
         Type23Shows
    <3>2. InFrames(c, n)'
      BY <1>5, <3>1
    <3>3. QED
      BY <1>3, <1>8, <2>2, <3>2, FramesShown
  <2>6. QED
    BY <1>9, <2>3, <2>4, <2>5 DEF ShowFrame
<1>10. CASE ModuleFrame
  <2>1. InFrames(c, i + 1)' /\ Buffered'
    BY <1>3, <1>4, <1>7, <1>10, ModuleShows
  <2>2. InFrames(c, n)'
    BY <1>5, <2>1
  <2>3. QED
    BY <1>3, <1>8, <2>1, <2>2, FramesShown
<1>11. QED
  BY <1>9, <1>10

\* Where a walk that finds nothing has come to.
LEMMA WalkEnds ==
  ASSUME movie \in Movies, NEW c \in 1 .. Chunks, chunk = c, NEW i \in Nat,
         InFrames(c, i), Route \in {"pass", "esc100", "esc124", "module"}, Walked
  PROVE  i = Fit(c)
<1> DEFINE tags == movie.laid[c]
           d == movie.videos[c]
<1>1. CASE Route \in {"pass", "esc100", "esc124"}
  <2>1. /\ i <= Fit(c) /\ data = d /\ pos \in Nat
        /\ IF Route = "pass" THEN Rests(data, pos, movie.cuts[c][i])
           ELSE pos = movie.cuts[c][i]
    BY <1>1 DEF InFrames, Walking
  <2>2. ~ Counts
    BY <1>1 DEF Counts
  <2>3. /\ tags \in Seq(Tag) /\ i \in 0 .. Len(tags)
        /\ i < Fit(c) => i < Len(tags) /\ tags[i + 1] \notin Bad
    BY <2>1, <2>2, StillUsable
  <2>4. d \in Seq(Nat)
    BY MovieParts, ElementOfSeq DEF Chunks
  <2>5. i < Fit(c) => i < Len(tags) /\ tags[i + 1] # Torn /\ tags[i + 1] # Damaged
    BY <2>3 DEF Bad
  <2>6. Fit(c) \in Nat
    BY TagsLie
  <2> HIDE DEF tags, d
  <2>7. ~ (i < Fit(c))
    <3>1. CASE Route = "pass"
      <4>1. video.wrap \in Wrappers
            /\ Spells(video.wrap, d, tags, movie.cuts[c])
        BY <3>1, RouteLaid DEF tags, d
      <4>2. ~ IterNext(data, video.wrap, pos).found
        BY <3>1 DEF Walked, Frame
      <4>3. Rests(d, pos, movie.cuts[c][i])
        BY <2>1, <3>1
      <4> HIDE DEF video
      <4>4. ~ (i < Len(tags) /\ tags[i + 1] # Torn)
        BY <2>1, <2>3, <2>4, <4>1, <4>2, <4>3, WrapperWalk
      <4>5. QED
        BY <2>5, <4>4
    <3>2. CASE Route = "esc100"
      <4>1. Spells("esc100", d, tags, movie.cuts[c])
        BY <3>2, RouteLaid DEF tags, d
      <4>2. Esc100Used = 0
        BY <3>2 DEF Walked
      <4>3. ~ (i < Len(tags) /\ tags[i + 1] # Damaged)
        BY <2>1, <2>3, <2>4, <3>2, <4>1, <4>2, Esc100Walk
      <4>4. QED
        BY <2>5, <4>3
    <3>3. CASE Route = "esc124"
      <4>1. Spells("esc124", d, tags, movie.cuts[c])
        BY <3>3, RouteLaid DEF tags, d
      <4>2. ~ Esc124Fits
        BY <3>3 DEF Walked
      <4>3. ~ (i < Len(tags) /\ tags[i + 1] # Damaged)
        BY <2>1, <2>3, <2>4, <3>3, <4>1, <4>2, Esc124Walk
      <4>4. QED
        BY <2>5, <4>3
    <3>4. QED
      BY <1>1, <3>1, <3>2, <3>3
  <2> HIDE DEF Fit
  <2>8. QED
    BY <2>1, <2>6, <2>7
<1>2. CASE Route = "module"
  <2>1. InModule(c, i)
    BY <1>2 DEF InFrames
  <2>2. left = 0
    BY <1>2 DEF Walked
  <2>3. QED
    BY <1>2, <2>1, <2>2, ModuleWalk
<1>3. QED
  BY <1>1, <1>2

LEMMA ChunkEnded ==
  ASSUME Placed, Counted, ShownWell, EndChunk
  PROVE  ShownWell'
<1>1. Step /\ ~ ShowFrame /\ ~ ModuleShort /\ at = "frames"
  <2>1. at = "frames" /\ (at' = "sound" \/ at' = "close")
    BY DEF EndChunk, NextChunk
  <2>2. ~ ShowFrame
    BY <2>1 DEF ShowFrame, PassFrame, Esc122Frame, Esc130Frame, Esc100Frame,
     Esc124Frame, TcaFrame, Type23Frame, ModuleFrame, Show, OtherThanWalk
  <2>3. ~ ModuleShort
    BY DEF EndChunk, Walked, ModuleShort
  <2>4. QED
    BY <2>1, <2>2, <2>3 DEF Step
<1>2. Kept /\ Steady
  BY <1>1, StillStep DEF Kept
<1>3. PICK c : c = chunk
  OBVIOUS
<1>4. /\ movie \in Movies /\ c \in 1 .. Chunks /\ c \in Nat
      /\ Route # "sound" /\ Buffered /\ \E i \in Nat : InFrames(c, i)
  BY <1>1, <1>3, AtFramesIs
<1>5. PICK i \in Nat : InFrames(c, i)
  BY <1>4
<1>6. Walked /\ NextChunk /\ chunk = c
  BY <1>3 DEF EndChunk
<1>7. Had(c) /\ Route \notin UpFront \cup {"tca"}
  <2>1. CASE Route \in {"pass", "esc100", "esc124", "module"}
    <3>1. i = Fit(c)
      BY <1>4, <1>5, <1>6, <2>1, WalkEnds
    <3>2. Got(c, i)
      BY <1>5, <2>1 DEF InFrames, Walking
    <3>3. QED
      BY <1>4, <2>1, <3>1, <3>2, GotIsHad DEF ByFrame, UpFront
  <2>2. CASE Route \in {"esc122", "esc130"}
    <3>1. i = 1 /\ Had(c - 1 + i)
      BY <1>5, <1>6, <2>2 DEF InFrames, Walked
    <3>2. c - 1 + i = c
      BY <1>4, <3>1
    <3> HIDE DEF Had
    <3>3. QED
      BY <2>2, <3>1, <3>2 DEF UpFront
  <2>3. Route \notin {"tca", "type23"}
    BY <1>6 DEF Walked
  <2>4. QED
    BY <1>4, <2>1, <2>2, <2>3, RouteKnown DEF Walking
<1>8. Had(c)'
  BY <1>2, <1>7, HadSame
<1>9. ShownAt(c)'
  <2>1. Told(Due(c))' /\ Held(Done(c))'
    BY <1>8 DEF Had
  <2>2. QED
    BY <1>2, <1>4, <1>6, <1>7, <2>1, OverChunk
<1>10. Buffered'
  BY <1>2, BufferedSame DEF Kept, ShownWell
<1>11. QED
  BY <1>4, <1>9, <1>10 DEF ShownWell

\* The last chunk may stop short: what it lacks is no usable frame.
LEMMA CutShort ==
  ASSUME Placed, Counted, ShownWell, ModuleShort
  PROVE  ShownWell' /\ \E i \in Nat : InModule(chunk, i) /\ i = Fit(chunk)
<1>1. Step /\ ~ ShowFrame /\ at = "frames"
  <2>1. at = "frames" /\ (at' = "sound" \/ at' = "close")
    BY DEF ModuleShort, NextChunk
  <2>2. ~ ShowFrame
    BY <2>1 DEF ShowFrame, PassFrame, Esc122Frame, Esc130Frame, Esc100Frame,
     Esc124Frame, TcaFrame, Type23Frame, ModuleFrame, Show, OtherThanWalk
  <2>3. QED
    BY <2>1, <2>2 DEF Step
<1>2. Steady /\ Shown' = Shown
  BY <1>1, StillStep
<1>3. PICK c : c = chunk
  OBVIOUS
<1>4. /\ movie \in Movies /\ c \in 1 .. Chunks /\ c \in Nat
      /\ Buffered /\ \E i \in Nat : InFrames(c, i)
  BY <1>1, <1>3, AtFramesIs
<1>5. PICK i \in Nat : InFrames(c, i)
  BY <1>4
<1>6. /\ Route = "module" /\ left > 0 /\ chunk = Chunks /\ FailDecode(pos)
      /\ NextChunk /\ chunk = c
  BY <1>3 DEF ModuleShort, LastChunk
<1>7. Got(c, i) /\ InModule(c, i)
  BY <1>5, <1>6 DEF InFrames
<1>8. ~ Decodes(pos)
  BY <1>6 DEF FailDecode
<1>9. i = Fit(c)
  BY <1>4, <1>6, <1>7, <1>8, ModuleWalk
<1>10. Told(Due(c))
  <2>1. Had(c)
    BY <1>4, <1>6, <1>7, <1>9, GotIsHad DEF ByFrame
  <2>2. QED
    BY <2>1 DEF Had
<1>11. Told(Due(c))'
  <2>1. PICK k : k = Due(c)
    OBVIOUS
  <2>2. Told(k)'
    BY <1>2, <1>10, <2>1, ToldSame
  <2>3. Due(c)' = k
    BY <1>2, <2>1, PlanSame
  <2>4. QED
    BY <2>2, <2>3, Zenon DEF Told
<1>12. ShownAt(c)'
  <2>1. ~ (c < Chunks)
    BY <1>4, <1>6
  <2>2. Route \notin UpFront \cup {"tca"}
    BY <1>6 DEF UpFront
  <2>3. QED
    BY <1>2, <1>4, <1>6, <1>11, <2>1, <2>2, OverChunk
<1>13. Buffered'
  <2>1. /\ UNCHANGED <<cur_out, cur_prev>>
        /\ memory' = memory \/ memory' = [memory EXCEPT ![cur_out] = Garbled]
    BY <1>6 DEF FailDecode
  <2>2. QED
    BY <1>4, <2>1 DEF Buffered
<1>14. QED
  BY <1>4, <1>6, <1>7, <1>9, <1>12, <1>13 DEF ShownWell

\* The film, or the movie, is over when all of it was shown.
LEMMA FilmEnds ==
  ASSUME movie \in Movies, NEW c \in 1 .. Chunks, NEW i \in Nat, InFrames(c, i),
         FilmOver
  PROVE  /\ Told(Len(Promised))
         /\ Route = "tca" => i = Fit(c) /\ Fit(c) = Len(movie.laid[c])
<1>1. Due(Chunks) = Len(Promised) /\ Len(Promised) \in Nat
  BY DueIs
<1>2. CASE Route = "tca"
  <2> DEFINE tags == movie.laid[c]
             d == movie.film.data
             f == Fit(c)
  <2>1. /\ i <= f /\ Got(c, i) /\ data = d /\ pos \in Nat
        /\ pos = movie.cuts[c][i]
    BY <1>2 DEF InFrames, Walking
  <2>2. ~ Counts
    BY <1>2 DEF Counts
  <2>3. /\ tags \in Seq(Tag) /\ i \in 0 .. Len(tags)
        /\ i < f => i < Len(tags)
        /\ f \in 0 .. Len(tags)
    BY <2>1, <2>2, StillUsable, UsableIs
  <2>4. Spells("tca", d, tags, movie.cuts[c]) /\ d \in Seq(Nat)
    BY <1>2, RouteLaid, MovieParts
  <2>5. TcaLength = 0
    BY <1>2 DEF FilmOver
  <2> HIDE DEF tags, d, f
  <2>6. ~ (i < Len(tags))
    BY <2>1, <2>3, <2>4, <2>5, TcaWalk
  <2>7. Len(tags) \in Nat
    BY <2>3
  <2>8. i = f /\ f = Len(tags)
    BY <2>1, <2>3, <2>6, <2>7
  <2>9. c = Chunks
    BY <1>2, FilmIsOneChunk
  <2>10. Had(c)
    BY <1>2, <2>1, <2>8, GotIsHad DEF ByFrame, f
  <2>11. Told(Due(Chunks))
    BY <2>9, <2>10 DEF Had
  <2>12. Told(Len(Promised))
    <3> HIDE DEF Due, Promised
    <3>1. QED
      BY <1>1, <2>11
  <2>13. QED
    BY <2>8, <2>12 DEF f, tags
<1>3. CASE Route = "type23"
  <2>1. Told(i) /\ pos = i
    BY <1>3 DEF InFrames
  <2>2. pos = Type23Before(Chunks + 1)
    BY <1>3 DEF FilmOver
  <2>3. i = Len(Promised)
    BY <1>3, <2>1, <2>2, Type23All
  <2> HIDE DEF Promised
  <2>4. QED
    BY <1>3, <2>1, <2>3
<1>4. QED
  BY <1>2, <1>3 DEF FilmOver

LEMMA FilmEnded ==
  ASSUME Placed, Counted, ShownWell, EndFilm
  PROVE  ShownWell'
<1>1. Step /\ ~ ShowFrame /\ ~ ModuleShort /\ at = "frames" /\ at' = "close"
  <2>1. at = "frames" /\ at' = "close"
    BY DEF EndFilm
  <2>2. ~ ShowFrame
    BY <2>1 DEF ShowFrame, PassFrame, Esc122Frame, Esc130Frame, Esc100Frame,
     Esc124Frame, TcaFrame, Type23Frame, ModuleFrame, Show, OtherThanWalk
  <2>3. ~ ModuleShort
    BY DEF EndFilm, FilmOver, ModuleShort
  <2>4. QED
    BY <2>1, <2>2, <2>3 DEF Step
<1>2. Kept /\ Steady /\ Shown' = Shown
  BY <1>1, StillStep DEF Kept
<1>3. /\ movie \in Movies /\ chunk \in 1 .. Chunks
      /\ Buffered /\ \E i \in Nat : InFrames(chunk, i)
  BY <1>1, AtFramesIs
<1>4. FilmOver
  BY DEF EndFilm
<1>5. Told(Len(Promised))
  BY <1>3, <1>4, FilmEnds
<1>6. PICK k : k = Len(Promised)
  OBVIOUS
<1>7. Told(k)'
  BY <1>2, <1>5, <1>6, ToldSame
<1>8. Promised' = Promised
  BY <1>2, PlanSame
<1>9. Len(Promised)' = k
  <2> HIDE DEF Promised
  <2>1. QED
    BY <1>6, <1>8
<1>10. Told(Len(Promised))'
  BY <1>7, <1>9, Zenon DEF Told
<1>11. ShownAt(0)'
  BY <1>1, <1>10 DEF ShownAt
<1>12. Buffered'
  BY <1>2, <1>3, BufferedSame DEF Kept
<1>13. QED
  BY <1>11, <1>12 DEF ShownWell

\* The program may be looked at twice.
LEMMA InFramesSame ==
  ASSUME Kept, UNCHANGED <<walkVars, cifVars>>, NEW c, NEW i, InFrames(c, i)
  PROVE  InFrames(c, i)'
<1>1. /\ movie' = movie /\ Route' = Route /\ Fit(c)' = Fit(c)
      /\ Want(c)' = Want(c) /\ Payload(c)' = Payload(c)
  BY PlanSame DEF Kept
<1>2. /\ data' = data /\ pos' = pos /\ left' = left /\ source' = source
      /\ payload_loaded' = payload_loaded
  BY DEF walkVars, cifVars
<1>3. Steady /\ Shown' = Shown
  BY DEF Kept
<1>4. ASSUME Got(c, i) PROVE Got(c, i)'
  BY <1>4, GotSame
<1>5. ASSUME Had(c - 1 + i) PROVE Had(c - 1 + i)'
  <2>1. PICK b : b = c - 1 + i
    OBVIOUS
  <2> HIDE DEF Had
  <2>2. Had(b)
    BY <1>5, <2>1
  <2>3. Had(b)'
    BY <2>2, HadSame
  <2>4. QED
    BY <2>1, <2>3
<1>6. ASSUME Told(i) PROVE Told(i)'
  BY <1>3, <1>6, ToldSame
<1> HIDE DEF Route, Fit, Want, Payload, Got, Had, Told
<1>7. ASSUME InModule(c, i) PROVE InModule(c, i)'
  BY <1>1, <1>2, <1>7 DEF InModule
<1> HIDE DEF InModule
<1>8. CASE Route \in Walking
  BY <1>1, <1>2, <1>4, <1>8 DEF InFrames, Walking
<1>9. CASE Route = "module"
  BY <1>1, <1>2, <1>4, <1>7, <1>9 DEF InFrames, Walking
<1>10. CASE Route \in {"esc122", "esc130"}
  BY <1>1, <1>2, <1>5, <1>10 DEF InFrames, Walking
<1>11. CASE Route = "type23"
  BY <1>1, <1>2, <1>6, <1>11 DEF InFrames, Walking
<1>12. CASE Route \notin Walking \cup {"module", "esc122", "esc130", "type23"}
  BY <1>1, <1>12 DEF InFrames
<1>13. QED
  BY <1>8, <1>9, <1>10, <1>11, <1>12

LEMMA UnwrappedSame ==
  ASSUME Kept, UNCHANGED <<walkVars, chunk>>, NEW c, NEW i, Unwrapped(c, i)
  PROVE  Unwrapped(c, i)'
<1>1. movie' = movie /\ video' = video /\ Payload(c)' = Payload(c)
  BY PlanSame DEF Kept
<1>2. data' = data /\ pos' = pos /\ left' = left
  BY DEF walkVars
<1>3. PaletteMissing' = PaletteMissing /\ Unpaletted' = Unpaletted
  BY <1>1 DEF PaletteMissing, Unpaletted, vbytes
<1> HIDE DEF video, Payload, PaletteMissing, Unpaletted
<1>4. QED
  BY <1>1, <1>2, <1>3 DEF Unwrapped

LEMMA Stuttered ==
  ASSUME Placed, Counted, ShownWell, UNCHANGED vars
  PROVE  ShownWell'
<1>1. Steady /\ UNCHANGED <<picture, memory, cur_out, cur_prev>> /\ Silent
      /\ raw_out' = raw_out
  BY NextStreams DEF vars, cifVars, outVars, Silent
<1>2. Kept
  BY <1>1, ShownSame DEF Kept
<1>3. UNCHANGED <<at, status, chunk, walkVars, cifVars>> /\ pos' = pos
  BY DEF vars, walkVars
<1>4. /\ Route' = Route /\ Promised' = Promised
  BY <1>1, PlanSame
<1>5. PICK c \in Nat : ShownAt(c)
  BY DEF ShownWell
<1>6. ASSUME NEW k, Told(k) PROVE Told(k)'
  BY <1>2, <1>6, ToldSame DEF Kept
<1>7. ASSUME Told(Len(Promised)) PROVE Told(Len(Promised))'
  <2>1. PICK k : k = Len(Promised)
    OBVIOUS
  <2>2. Told(k)'
    BY <1>6, <1>7, <2>1
  <2>3. Len(Promised)' = k
    <3> HIDE DEF Promised
    <3>1. QED
      BY <1>4, <2>1
  <2>4. QED
    BY <2>2, <2>3, Zenon DEF Told
<1>8. ASSUME Had(c) PROVE Had(c)'
  BY <1>2, <1>8, HadSame
<1>9. PICK b : b = c + 1
  OBVIOUS
<1>10. ASSUME \E i \in Nat : Unwrapped(c + 1, i)
       PROVE  \E i \in Nat : Unwrapped(c + 1, i)'
  <2>1. PICK i \in Nat : Unwrapped(b, i)
    BY <1>9, <1>10
  <2>2. Unwrapped(b, i)'
    BY <1>2, <1>3, <2>1, UnwrappedSame
  <2>3. QED
    BY <1>9, <2>2
<1>11. ASSUME \E i \in Nat : InFrames(c + 1, i)
       PROVE  \E i \in Nat : InFrames(c + 1, i)'
  <2>1. PICK i \in Nat : InFrames(b, i)
    BY <1>9, <1>11
  <2>2. InFrames(b, i)'
    BY <1>2, <1>3, <2>1, InFramesSame
  <2>3. QED
    BY <1>9, <2>2
<1> HIDE DEF Route, Promised, Told, Had, Unwrapped, InFrames
<1>12. ShownAt(c)'
  <2>1. CASE at \in {"main", "open", "video", "sound", "chunk"}
    BY <1>3, <1>4, <1>5, <1>8, <2>1 DEF ShownAt
  <2>2. CASE at = "unwrap"
    BY <1>3, <1>4, <1>5, <1>8, <1>10, <2>2 DEF ShownAt
  <2>3. CASE at = "frames"
    BY <1>3, <1>4, <1>5, <1>11, <2>3 DEF ShownAt
  <2>4. CASE at \in {"close", "done"}
    BY <1>3, <1>4, <1>5, <1>6, <1>7, <2>4 DEF ShownAt
  <2>5. QED
    BY <1>3, <2>1, <2>2, <2>3, <2>4 DEF ShownAt
<1>13. Buffered'
  BY <1>1, BufferedSame DEF ShownWell
<1>14. QED
  BY <1>12, <1>13 DEF ShownWell

\* The ends of the program.
LEMMA ExitsShown ==
  ASSUME Placed, Counted, ShownWell, Refuse \/ Nothing \/ Close \/ Die
  PROVE  ShownWell'
<1>1. PICK code : Exit(code)
  BY DEF Refuse, Nothing, Close, Die, DieIf
<1>2. Step /\ ~ ShowFrame
  <2>1. at' = "done" /\ at # "done"
    BY <1>1 DEF Exit, Refuse, Nothing, Close, Die
  <2>2. ~ ShowFrame
    BY <2>1 DEF ShowFrame, PassFrame, Esc122Frame, Esc130Frame, Esc100Frame,
     Esc124Frame, TcaFrame, Type23Frame, ModuleFrame, Show, OtherThanWalk
  <2>3. QED
    BY <2>2 DEF Step
<1>3. Steady /\ Shown' = Shown
  BY <1>2, StillStep
<1>4. PICK c \in Nat : ShownAt(c) /\ Buffered
  BY DEF ShownWell
<1>5. movie \in Movies
  BY DEF Placed
<1>6. PICK k : Told(k)
  <2>1. at \in {"main", "open", "video", "sound", "chunk", "unwrap", "frames", "close"}
    BY DEF Refuse, Nothing, Close, Die
  <2>2. QED
    BY <1>4, <2>1, SomeTold
<1>7. CASE Refuse \/ Die
  <2>1. PICK bad : bad = "exit 1" /\ Exit(bad)
    BY <1>7 DEF Refuse, Die, DieIf
  <2>2. bad # "exit 0"
    BY <2>1
  <2>3. QED
    BY <1>3, <1>4, <1>6, <2>1, <2>2, ExitShown
<1>8. CASE Nothing
  <2>1. Exit("exit 0") /\ at = "main" /\ SoundOnly
    BY <1>8 DEF Nothing, NothingToDo
  <2>2. Route = "sound"
    BY <2>1 DEF Route, HaveVideo
  <2>3. Told(Due(0))
    BY <1>4, <2>1 DEF ShownAt, Had
  <2>4. Due(0) = 0 /\ Promised = <<>>
    BY <1>5, <2>2, DueIs, PromisedIs
  <2>5. Told(Len(Promised))
    <3> HIDE DEF Due, Promised
    <3>1. Len(Promised) = Due(0)
      BY <2>4
    <3>2. QED
      BY <2>3, <3>1
  <2>6. QED
    BY <1>3, <1>4, <1>6, <2>1, <2>5, ExitShown
<1>9. CASE Close
  <2>1. Exit("exit 0") /\ Told(Len(Promised))
    BY <1>4, <1>9 DEF Close, ShownAt
  <2>2. QED
    BY <1>3, <1>4, <1>6, <2>1, ExitShown
<1>10. QED
  BY <1>7, <1>8, <1>9

LEMMA FailShown ==
  ASSUME Placed, Counted, ShownWell, Fail
  PROVE  ShownWell'
<1>1. Exit("exit 1") /\ at \in {"open", "video", "sound", "frames", "close"}
  BY DEF Fail
<1>2. Steady
  BY NextStreams DEF Next
<1>3. Silent /\ raw_out' = raw_out
  BY <1>1 DEF Exit, outVars, Silent
<1>4. Shown' = Shown
  BY <1>2, <1>3, ShownSame
<1>5. PICK c \in Nat : ShownAt(c) /\ Buffered
  BY DEF ShownWell
<1>6. PICK k : Told(k)
  BY <1>1, <1>5, SomeTold
<1>7. PICK bad : bad = "exit 1" /\ Exit(bad)
  BY <1>1
<1>8. bad # "exit 0"
  BY <1>7
<1>9. QED
  BY <1>2, <1>4, <1>5, <1>6, <1>7, <1>8, ExitShown

\* Every step keeps the pictures as ShownWell says.
LEMMA ShownWellNext ==
  ASSUME Placed, Counted, ShownWell, [Next]_vars
  PROVE  ShownWell'
<1>1. CASE Decide \/ OpenNut \/ WriteWav
  BY <1>1, StartShown
<1>2. CASE StartVideo \/ EmitSound
  BY <1>2, VideoStarts, SoundEmitted
<1>3. CASE SkipChunk \/ EnterChunk \/ EnterModuleChunk \/ EnterWrappedChunk
  BY <1>3, ChunkSkipped, ChunkEntered, ModuleChunkEntered, WrappedChunkEntered
<1>4. CASE UnwrapFrame \/ LoadUnwrapped
  BY <1>4, FrameUnwrapped, UnwrappedLoaded
<1>5. CASE ShowFrame \/ ModuleShort \/ EndChunk \/ EndFilm
  BY <1>5, PictureShown, CutShort, ChunkEnded, FilmEnded
<1>6. CASE Refuse \/ Nothing \/ Close \/ Die
  BY <1>6, ExitsShown
<1>7. CASE Fail
  BY <1>7, FailShown
<1>8. CASE UNCHANGED vars
  BY <1>8, Stuttered
<1>9. QED
  BY <1>1, <1>2, <1>3, <1>4, <1>5, <1>6, <1>7, <1>8 DEF Next, Step

\* A program that has not started has shown nothing.
LEMMA ShownWellInit ==
  ASSUME Init
  PROVE  ShownWell
<1>1. /\ movie \in Movies /\ at = "main" /\ pos = 0 /\ picture = Blank
      /\ raw_out = <<>> /\ file = <<>>
      /\ memory = [b \in Buffers |-> Blank]
      /\ cur_out = "OUTPUT_BASE" /\ cur_prev = "PREVIOUS_BASE"
  BY DEF Init, MuxClosed, SessionClosed
<1>2. Shown = <<>>
  <2>1. CASE options.nut
    <3>1. Chosen(<<>>, HaveVideo, TRUE) = <<>>
      <4>1. <<>> \in Seq(Nat) /\ 1 .. Len(<<>>) = {}
        OBVIOUS
      <4>2. QED
        BY <4>1, ChosenNone
    <3>2. Streamed = <<>>
      <4>1. Streamed = Data(<<>>)
        BY <1>1, <3>1 DEF Streamed
      <4>2. QED
        BY <4>1 DEF Data
    <3>3. QED
      BY <2>1, <3>2, ShownIs
  <2>2. CASE ~ options.nut
    BY <1>1, <2>2, ShownIs
  <2>3. QED
    BY <2>1, <2>2
<1>3. /\ Due(0) = 0 /\ Done(0) = 0 /\ IsSequence(Promised)
      /\ Len(Promised) \in Nat /\ All \in Seq(Tag)
  BY <1>1, DueIs, TagsLie
<1>4. First(0) = <<>>
  BY <1>3, Beginning DEF First
<1>5. SubSeq(Promised, 1, 0) = <<>>
  BY <1>3, Beginning DEF IsSequence
<1>6. Buffered
  BY <1>1 DEF Buffered, Buffers
<1>7. memory[cur_prev] = <<>> /\ picture = <<>>
  BY <1>1 DEF Buffers, Blank
<1> HIDE DEF Promised, Due, Done, First, Shown
<1>8. Told(0) /\ Held(0)
  BY <1>2, <1>3, <1>4, <1>5, <1>7 DEF Told, Held
<1>9. Had(0)
  BY <1>3, <1>8 DEF Had
<1>10. ShownAt(0)
  BY <1>1, <1>9 DEF ShownAt
<1>11. QED
  BY <1>6, <1>10 DEF ShownWell

Places == {"main", "open", "video", "sound", "chunk", "unwrap", "frames",
           "close", "done"}

\* The program is somewhere.
LEMMA PlaceKnown ==
  ASSUME at \in Places, [Next]_vars
  PROVE  at' \in Places
<1>1. ASSUME NEW code, Exit(code) PROVE at' = "done"
  BY <1>1 DEF Exit
<1>2. CASE Refuse \/ Nothing \/ Close \/ Die \/ Fail
  BY <1>1, <1>2 DEF Refuse, Nothing, Close, Die, DieIf, Fail, Places
<1>3. CASE ShowFrame
  BY <1>3 DEF ShowFrame, PassFrame, Esc122Frame, Esc130Frame, Esc100Frame,
     Esc124Frame, TcaFrame, Type23Frame, ModuleFrame, Show, OtherThanWalk
<1>4. CASE EmitSound
  BY <1>4 DEF EmitSound, AfterSound, Places
<1>5. CASE ~ (Refuse \/ Nothing \/ Close \/ Die \/ ShowFrame \/ EmitSound) /\ Step
  BY <1>5 DEF Step, Decide, OpenNut, WriteWav, StartVideo, SkipChunk,
     EnterChunk, EnterModuleChunk, EnterWrappedChunk, UnwrapFrame,
     LoadUnwrapped, ModuleShort, EndChunk, EndFilm, NextChunk, Places
<1>6. CASE UNCHANGED vars
  BY <1>6 DEF vars
<1>7. QED
  BY <1>2, <1>3, <1>4, <1>5, <1>6 DEF Next

\* and ShownWell is the property.
LEMMA ShownWellTold ==
  ASSUME Placed, Running, ShownWell, at \in Places
  PROVE  PicturesAsLaid
<1>1. PICK c \in Nat : ShownAt(c)
  BY DEF ShownWell
<1>2. movie \in Movies
  BY DEF Placed
<1>3. PICK k : Told(k)
  <2>1. CASE at = "done"
    BY <1>1, <2>1 DEF ShownAt
  <2>2. CASE at # "done"
    BY <1>1, <2>2, SomeTold DEF Places
  <2>3. QED
    BY <2>1, <2>2
<1>4. IsPrefix(Shown, Promised)
  BY <1>2, <1>3, ToldBegins
<1>5. ASSUME status = "exit 0" PROVE Shown = Promised
  <2>1. at = "done"
    BY <1>5 DEF Running
  <2>2. Told(Len(Promised))
    BY <1>1, <1>5, <2>1 DEF ShownAt
  <2>3. PICK n : n = Len(Promised)
    OBVIOUS
  <2>4. Told(n)
    BY <2>2, <2>3
  <2>5. QED
    BY <1>2, <2>3, <2>4, ToldBegins
<1>6. QED
  BY <1>4, <1>5 DEF PicturesAsLaid

\* Every route, padding, damage and cut: what has been shown is the beginning
\* of what the movie's codec frames amount to, whichever of the wrapper
\* iterator, the native decoders and the sandbox replay_transcode.c takes them
\* through, and a run that exits 0 has shown all of it.
THEOREM PicturesAlwaysAsLaid == Spec => []PicturesAsLaid
<1> DEFINE Inv == Placed /\ Counted /\ SoundKept /\ ShownWell /\ at \in Places
<1>1. Init => Inv
  <2> SUFFICES ASSUME Init PROVE Inv
    OBVIOUS
  <2>1. Placed /\ at = "main"
    BY PlacedInit DEF Init
  <2>2. Counted /\ SoundKept /\ ShownWell
    BY <2>1, CountedAtOnce, SoundKeptInit, ShownWellInit
  <2>3. QED
    BY <2>1, <2>2 DEF Places
<1>2. Inv /\ [Next]_vars => Inv'
  BY PlacedNext, CountedNext, SoundKeptNext, ShownWellNext, PlaceKnown
<1>3. Inv => PicturesAsLaid
  BY ShownWellTold DEF SoundKept
<1>4. QED
  BY <1>1, <1>2, <1>3, PTL DEF Spec

-----------------------------------------------------------------------------
\* Nothing is lost unreported.

\* main's decision.
Accepted == ~ Refused /\ (NothingToDo \/ audio = AudioFormat)

Judged ==
  (at \in Places \ {"main", "done"} \/ status = "exit 0") => Accepted

\* What a decompressor was asked for it has delivered,
Delivered ==
  Route = "module" =>
    \A c \in 1 .. Chunks - 1 :
      c < chunk /\ movie.videos[c] # <<>> => Fit(c) = Want(c)

\* for all chunks when the program comes to its end, and a film is all shown.
Finished ==
  at = "close" \/ status = "exit 0" =>
    /\ Route = "module" => \A c \in 1 .. Chunks - 1 : c < chunk
    /\ Route = "tca" => \A c \in 1 .. Chunks : Fit(c) = Len(movie.laid[c])

Lossless == Judged /\ Delivered /\ Finished

\* From main there are three ways on, and none from the end.
LEMMA WaysOn ==
  ASSUME at \in Places, Running, Next
  PROVE  /\ at = "main" => Decide \/ Refuse \/ Nothing
         /\ at # "done"
         /\ status' # "running" => Exit("exit 1") \/ Nothing \/ Close
         /\ status' = "exit 0" => Nothing \/ Close
<1>1. at = "main" => Decide \/ Refuse \/ Nothing
  BY DEF Next, Step, Decide, OpenNut, WriteWav, StartVideo, EmitSound,
       SkipChunk, EnterChunk, EnterModuleChunk, EnterWrappedChunk,
       UnwrapFrame, LoadUnwrapped, ShowFrame, PassFrame, Esc122Frame,
       Esc130Frame, Esc100Frame, Esc124Frame, TcaFrame, Type23Frame,
       ModuleFrame, ModuleShort, EndChunk, EndFilm, Die, Close, Fail
<1>2. at # "done"
  BY DEF Next, Step, Decide, OpenNut, WriteWav, StartVideo, EmitSound,
       SkipChunk, EnterChunk, EnterModuleChunk, EnterWrappedChunk,
       UnwrapFrame, LoadUnwrapped, ShowFrame, PassFrame, Esc122Frame,
       Esc130Frame, Esc100Frame, Esc124Frame, TcaFrame, Type23Frame,
       ModuleFrame, ModuleShort, EndChunk, EndFilm, Die, Close, Fail,
       Refuse, Nothing
<1>3. status' # "running" => Exit("exit 1") \/ Nothing \/ Close
  <2>1. status = "running"
    BY <1>2 DEF Running
  <2>2. CASE Refuse \/ Die \/ Fail
    BY <2>2 DEF Refuse, Die, DieIf, Fail
  <2>3. CASE Nothing \/ Close
    BY <2>3
  <2>4. CASE ~ (Refuse \/ Die \/ Fail \/ Nothing \/ Close)
    <3>1. status' = status
      BY <2>4 DEF Next, Step, Decide, OpenNut, WriteWav, StartVideo, EmitSound,
       SkipChunk, EnterChunk, EnterModuleChunk, EnterWrappedChunk,
       UnwrapFrame, LoadUnwrapped, ShowFrame, PassFrame, Esc122Frame,
       Esc130Frame, Esc100Frame, Esc124Frame, TcaFrame, Type23Frame,
       ModuleFrame, Show, OtherThanWalk, ModuleShort, EndChunk, EndFilm
    <3>2. QED
      BY <2>1, <3>1
  <2>5. QED
    BY <2>2, <2>3, <2>4
<1>4. status' = "exit 0" => Nothing \/ Close
  <2>1. ASSUME Exit("exit 1") PROVE status' # "exit 0"
    <3>1. status' = "exit 1"
      BY <2>1 DEF Exit
    <3>2. QED
      BY <3>1
  <2>2. QED
    BY <1>3, <2>1
<1>5. QED
  BY <1>1, <1>2, <1>3, <1>4

LEMMA DecisionSame ==
  ASSUME Steady
  PROVE  /\ Refused' = Refused /\ NothingToDo' = NothingToDo
         /\ AudioFormat' = AudioFormat
<1>1. movie' = movie /\ options' = options /\ HaveVideo' = HaveVideo
      /\ Route' = Route
  BY PlanSame
<1>2. AudioFormat' = AudioFormat
  BY <1>1 DEF AudioFormat, WantAudio
<1> HIDE DEF HaveVideo, Route, AudioFormat
<1>3. QED
  BY <1>1, <1>2 DEF Refused, NothingToDo, SoundOnly, CanDecode

LEMMA JudgedNext ==
  ASSUME Placed, at \in Places, Running, Judged, [Next]_vars
  PROVE  Judged'
<1>1. Steady
  BY NextStreams
<1>2. /\ Refused' = Refused /\ NothingToDo' = NothingToDo
      /\ AudioFormat' = AudioFormat
  BY <1>1, DecisionSame
<1> HIDE DEF Refused, NothingToDo, AudioFormat
<1>3. CASE UNCHANGED vars
  BY <1>2, <1>3 DEF vars, Judged, Accepted
<1>4. CASE Next /\ at = "main"
  <2>1. CASE Decide
    BY <1>2, <2>1 DEF Decide, Judged, Accepted
  <2>2. CASE Refuse
    <3>1. at' = "done" /\ status' = "exit 1"
      BY <2>2 DEF Refuse, DieIf, Exit
    <3>2. QED
      BY <3>1 DEF Judged
  <2>3. CASE Nothing
    BY <1>2, <2>3 DEF Nothing, Judged, Accepted
  <2>4. QED
    BY <1>4, <2>1, <2>2, <2>3, WaysOn
<1>5. CASE Next /\ at # "main"
  <2>1. at # "done"
    BY <1>5, WaysOn
  <2>2. Accepted /\ audio' = audio
    BY <1>1, <1>5, <2>1 DEF Judged, Steady
  <2>3. Accepted'
    BY <1>2, <2>2 DEF Accepted
  <2>4. QED
    BY <2>3 DEF Judged
<1>6. QED
  BY <1>3, <1>4, <1>5

\* What a chunk is left with is delivered.
LEMMA DeliveredChunk ==
  ASSUME Placed, ShownWell, EndChunk, Route = "module"
  PROVE  Fit(chunk) = Want(chunk)
<1>1. at = "frames" /\ left = 0 /\ Walked
  BY DEF EndChunk, Walked
<1>2. PICK c : c = chunk
  OBVIOUS
<1>3. movie \in Movies /\ c \in 1 .. Chunks /\ \E i \in Nat : InFrames(c, i)
  BY <1>1, <1>2, AtFramesIs
<1>4. PICK i \in Nat : InFrames(c, i)
  BY <1>3
<1>5. i = Fit(c)
  BY <1>1, <1>2, <1>3, <1>4, WalkEnds
<1>6. InModule(c, i)
  BY <1>4 DEF InFrames
<1>7. left = Want(c) - i /\ Want(c) \in Nat
  BY <1>3, <1>6, PayloadIs DEF InModule
<1>8. Want(c) = i
  BY <1>1, <1>7
<1>9. QED
  BY <1>2, <1>5, <1>8

LEMMA DeliveredNext ==
  ASSUME Placed, ShownWell, Delivered, [Next]_vars
  PROVE  Delivered'
<1>1. Steady
  BY NextStreams
<1>2. /\ movie' = movie /\ Route' = Route /\ Chunks' = Chunks
      /\ Chunks \in Nat
      /\ \A c : Fit(c)' = Fit(c) /\ Want(c)' = Want(c)
  BY <1>1, PlanSame, MovieParts DEF Placed
<1>3. SUFFICES ASSUME Route = "module", NEW c \in 1 .. Chunks - 1,
                      c < chunk', movie.videos[c] # <<>>
               PROVE  Fit(c) = Want(c)
  <2> HIDE DEF Route, Fit, Want, Chunks
  <2>1. QED
    BY <1>2 DEF Delivered
<1>4. ASSUME c < chunk PROVE Fit(c) = Want(c)
  BY <1>3, <1>4 DEF Delivered
<1>5. ASSUME NextChunk, c # chunk, chunk \in 1 .. Chunks PROVE c < chunk
  <2>1. chunk' = chunk + 1
    BY <1>5 DEF NextChunk
  <2>2. QED
    BY <1>2, <1>3, <1>5, <2>1
<1>6. CASE SkipChunk
  <2>1. chunk \in 1 .. Chunks /\ Len(movie.videos[chunk]) = 0 /\ NextChunk
    BY <1>6 DEF SkipChunk, Placed, vbytes
  <2>2. movie.videos[chunk] \in Seq(Nat)
    BY <2>1, MovieParts, ElementOfSeq DEF Placed, Chunks
  <2>3. movie.videos[chunk] = <<>>
    BY <2>1, <2>2, EmptySeq
  <2>4. c # chunk
    BY <1>3, <2>3
  <2>5. QED
    BY <1>4, <1>5, <2>1, <2>4
<1>7. CASE EndChunk
  <2>1. chunk \in 1 .. Chunks /\ NextChunk
    BY <1>7 DEF EndChunk, Placed
  <2>2. Fit(chunk) = Want(chunk)
    BY <1>3, <1>7, DeliveredChunk
  <2>3. CASE c = chunk
    BY <2>2, <2>3
  <2>4. CASE c # chunk
    BY <1>4, <1>5, <2>1, <2>4
  <2>5. QED
    BY <2>3, <2>4
<1>8. CASE ModuleShort
  <2>1. chunk \in 1 .. Chunks /\ NextChunk /\ chunk = Chunks
    BY <1>8 DEF ModuleShort, LastChunk, Placed
  <2>2. c # chunk
    BY <1>2, <1>3, <2>1
  <2>3. QED
    BY <1>4, <1>5, <2>1, <2>2
<1>9. CASE [Next]_vars /\ ~ (SkipChunk \/ EndChunk \/ ModuleShort)
  <2>1. chunk' = chunk
    <3>1. CASE EmitSound
      BY <1>3, <3>1 DEF EmitSound, AfterSound, UpFront
    <3>2. CASE ~ EmitSound /\ Next
      BY <1>9, <3>2 DEF Next, Step, Decide, OpenNut, WriteWav, StartVideo,
       EnterChunk, EnterModuleChunk, EnterWrappedChunk,
       UnwrapFrame, LoadUnwrapped, ShowFrame, PassFrame, Esc122Frame,
       Esc130Frame, Esc100Frame, Esc124Frame, TcaFrame, Type23Frame,
       ModuleFrame, Show, OtherThanWalk, EndFilm, Die, DieIf, Close, Fail,
       Refuse, Nothing, Exit
    <3>3. CASE UNCHANGED vars
      BY <3>3 DEF vars
    <3>4. QED
      BY <3>1, <3>2, <3>3
  <2>2. QED
    BY <1>3, <1>4, <2>1
<1>10. QED
  BY <1>6, <1>7, <1>8, <1>9

\* Only these steps come to the end.
LEMMA ToTheEnd ==
  ASSUME Placed, ShownWell, Next, at' = "close"
  PROVE  \/ Route = "sound"
         \/ /\ NextChunk /\ ~ (chunk < Chunks) /\ Route # "tca"
            /\ at \in {"chunk", "frames"}
         \/ EndFilm
<1>1. ASSUME NEW code, Exit(code) PROVE FALSE
  BY <1>1 DEF Exit
<1>2. CASE Refuse \/ Nothing \/ Close \/ Die \/ Fail
  BY <1>1, <1>2 DEF Refuse, Nothing, Close, Die, DieIf, Fail
<1>3. CASE ShowFrame
  BY <1>3 DEF ShowFrame, PassFrame, Esc122Frame, Esc130Frame, Esc100Frame,
     Esc124Frame, TcaFrame, Type23Frame, ModuleFrame, Show, OtherThanWalk
<1>4. CASE EmitSound
  BY <1>4 DEF EmitSound, AfterSound
<1>5. CASE StartVideo
  BY <1>5 DEF StartVideo
<1>6. CASE EndFilm
  BY <1>6
<1>7. CASE SkipChunk
  <2>1. NextChunk /\ at = "chunk"
    BY <1>7 DEF SkipChunk
  <2>2. Route # "tca"
    BY <2>1, AtChunkIs
  <2>3. ~ (chunk < Chunks)
    BY <2>1 DEF NextChunk
  <2>4. QED
    BY <2>1, <2>2, <2>3
<1>8. CASE EndChunk \/ ModuleShort
  <2>1. NextChunk /\ at = "frames"
    BY <1>8 DEF EndChunk, ModuleShort
  <2>2. Route # "tca"
    BY <1>8 DEF EndChunk, ModuleShort, Walked
  <2>3. ~ (chunk < Chunks)
    BY <2>1 DEF NextChunk
  <2>4. QED
    BY <2>1, <2>2, <2>3
<1>9. CASE Decide \/ OpenNut \/ WriteWav \/ EnterChunk \/ EnterModuleChunk
             \/ EnterWrappedChunk \/ UnwrapFrame \/ LoadUnwrapped
  BY <1>9 DEF Decide, OpenNut, WriteWav, EnterChunk, EnterModuleChunk,
     EnterWrappedChunk, UnwrapFrame, LoadUnwrapped
<1>10. QED
  BY <1>2, <1>3, <1>4, <1>5, <1>6, <1>7, <1>8, <1>9 DEF Next, Step

LEMMA FinishedNext ==
  ASSUME Placed, ShownWell, at \in Places, Running, Finished, [Next]_vars
  PROVE  Finished'
<1>1. Steady
  BY NextStreams
<1>2. /\ movie' = movie /\ Route' = Route /\ Chunks' = Chunks
      /\ Chunks \in Nat /\ movie \in Movies
      /\ \A c : Fit(c)' = Fit(c)
  BY <1>1, PlanSame, MovieParts DEF Placed
<1> DEFINE AllShown == \A c \in 1 .. Chunks : Fit(c) = Len(movie.laid[c])
<1>3. AllShown' = AllShown
  <2> HIDE DEF Fit, Chunks
  <2>1. QED
    BY <1>2
<1>4. Finished <=>
        (at = "close" \/ status = "exit 0" =>
           /\ Route = "module" => \A c \in 1 .. Chunks - 1 : c < chunk
           /\ Route = "tca" => AllShown)
  BY DEF Finished
<1>5. SUFFICES ASSUME at' = "close" \/ status' = "exit 0"
               PROVE  /\ Route = "module" => \A c \in 1 .. Chunks - 1 : c < chunk'
                      /\ Route = "tca" => AllShown
  <2> HIDE DEF AllShown, Route, Chunks
  <2>1. QED
    BY <1>2, <1>3 DEF Finished, AllShown
<1>6. CASE UNCHANGED vars
  BY <1>4, <1>5, <1>6 DEF vars
<1>7. CASE Next /\ at' = "close"
  <2>1. CASE Route = "sound"
    BY <2>1
  <2>2. CASE NextChunk /\ ~ (chunk < Chunks) /\ Route # "tca"
               /\ at \in {"chunk", "frames"}
    <3>1. chunk \in 1 .. Chunks /\ chunk' = chunk + 1
      BY <2>2 DEF Placed, NextChunk
    <3>2. \A c \in 1 .. Chunks - 1 : c < chunk'
      BY <1>2, <2>2, <3>1
    <3>3. QED
      BY <2>2, <3>2
  <2>3. CASE EndFilm
    <3>1. FilmOver /\ at = "frames"
      BY <2>3 DEF EndFilm
    <3>2. PICK c : c = chunk
      OBVIOUS
    <3>3. c \in 1 .. Chunks /\ \E i \in Nat : InFrames(c, i)
      BY <3>1, <3>2, AtFramesIs
    <3>4. Route # "module"
      BY <3>1 DEF FilmOver
    <3>5. ASSUME Route = "tca" PROVE AllShown
      <4>1. Chunks = 1
        BY <1>2, <3>5, FilmIsOneChunk
      <4>2. PICK i \in Nat : InFrames(c, i)
        BY <3>3
      <4>3. Fit(c) = Len(movie.laid[c])
        BY <1>2, <3>1, <3>3, <3>5, <4>2, FilmEnds
      <4>4. \A k \in 1 .. Chunks : k = c
        BY <3>3, <4>1
      <4>5. QED
        BY <4>3, <4>4
    <3>6. QED
      BY <3>4, <3>5
  <2>4. QED
    BY <1>7, <2>1, <2>2, <2>3, ToTheEnd
<1>8. CASE Next /\ status' = "exit 0"
  <2>1. CASE Nothing
    <3>1. SoundOnly
      BY <2>1 DEF Nothing, NothingToDo
    <3>2. Route = "sound"
      BY <3>1 DEF Route, HaveVideo
    <3>3. QED
      BY <3>2
  <2>2. CASE Close
    <3>1. at = "close" /\ chunk' = chunk
      BY <2>2 DEF Close, Exit
    <3>2. QED
      BY <1>4, <3>1
  <2>3. QED
    BY <1>8, <2>1, <2>2, WaysOn
<1>9. QED
  BY <1>5, <1>6, <1>7, <1>8

LEMMA LosslessInit ==
  ASSUME Init
  PROVE  Lossless
<1>1. at = "main" /\ status = "running" /\ chunk = 1
  BY DEF Init
<1>2. Judged /\ Finished
  BY <1>1 DEF Judged, Finished
<1>3. Delivered
  BY <1>1 DEF Delivered
<1>4. QED
  BY <1>2, <1>3 DEF Lossless

\* and Lossless is the property.
LEMMA LosslessReports ==
  ASSUME Placed, Lossless
  PROVE  LossIsReported
<1>1. SUFFICES ASSUME status = "exit 0" PROVE LossIsReported
  BY DEF LossIsReported
<1>2. Accepted
  BY <1>1 DEF Lossless, Judged
<1>3. /\ SoundOnly \/ HaveVideo \/ options.skip
      /\ ~ HaveVideo /\ ~ NothingToDo => CanDecode(audio)
      /\ AudioFormat = "unknown" => options.skip
  <2> HIDE DEF SoundOnly, HaveVideo, AudioFormat, Route
  <2>1. QED
    BY <1>2 DEF Accepted, Refused, NothingToDo
<1>4. ASSUME Route = "module", NEW c \in 1 .. Chunks - 1,
             movie.videos[c] # <<>>
      PROVE  Len(Usable[c]) = IF video.wrapper
                              THEN Len(Before(movie.laid[c], {Torn}))
                              ELSE movie.frames_per_chunk
  <2>1. c < chunk
    BY <1>1, <1>4 DEF Lossless, Finished
  <2>2. Fit(c) = Want(c)
    BY <1>4, <2>1 DEF Lossless, Delivered
  <2>3. QED
    BY <2>2 DEF Fit, Want, Payload
<1>5. ASSUME Route = "tca", NEW c \in 1 .. Chunks
      PROVE  Usable[c] = movie.laid[c]
  <2> DEFINE tags == movie.laid[c]
             f == Fit(c)
  <2>1. f = Len(tags)
    BY <1>1, <1>5 DEF Lossless, Finished
  <2>2. tags \in Seq(Tag) /\ Usable[c] = SubSeq(tags, 1, f)
    BY LaidParts, UsableIs DEF Placed
  <2> HIDE DEF tags, f
  <2>3. Usable[c] = SubSeq(tags, 1, Len(tags))
    BY <2>1, <2>2
  <2>4. Usable[c] = tags
    BY <2>2, <2>3, Beginning
  <2>5. QED
    BY <2>4 DEF tags
<1>6. QED
  BY <1>3, <1>4, <1>5 DEF LossIsReported

\* A run that exits 0 has reported every loss: main refuses what it cannot
\* write, and of a chunk before the last the decompressor has delivered every
\* frame it was asked for, or transcode_video has died.
THEOREM LossAlwaysReported == Spec => []LossIsReported
<1> DEFINE Inv == Placed /\ Counted /\ SoundKept /\ ShownWell /\ at \in Places
                    /\ Lossless
<1>1. Init => Inv
  <2> SUFFICES ASSUME Init PROVE Inv
    OBVIOUS
  <2>1. Placed /\ at = "main"
    BY PlacedInit DEF Init
  <2>2. Counted /\ SoundKept /\ ShownWell /\ Lossless
    BY <2>1, CountedAtOnce, SoundKeptInit, ShownWellInit, LosslessInit
  <2>3. QED
    BY <2>1, <2>2 DEF Places
<1>2. Inv /\ [Next]_vars => Inv'
  <2> SUFFICES ASSUME Inv, [Next]_vars PROVE Inv'
    OBVIOUS
  <2>1. Placed' /\ Counted' /\ SoundKept' /\ ShownWell' /\ at' \in Places
    BY PlacedNext, CountedNext, SoundKeptNext, ShownWellNext, PlaceKnown
  <2>2. Running
    BY DEF SoundKept
  <2>3. Lossless'
    BY <2>2, JudgedNext, DeliveredNext, FinishedNext DEF Lossless
  <2>4. QED
    BY <2>1, <2>3
<1>3. Inv => LossIsReported
  BY LosslessReports
<1>4. QED
  BY <1>1, <1>2, <1>3, PTL DEF Spec

-----------------------------------------------------------------------------
\* How far sound and pictures are after so many chunks.

\* Numbers can be added up.
LEMMA SumExists ==
  ASSUME NEW n \in Nat, NEW k \in [1 .. n -> Nat]
  PROVE  \E g \in [0 .. n -> Nat] :
           g[0] = 0 /\ \A i \in 1 .. n : g[i] = g[i - 1] + k[i]
<1> DEFINE d == [i \in 1 .. n |-> [j \in 1 .. k[i] |-> 0]]
           g == [i \in 0 .. n |-> Len(UpTo(d, i))]
<1>1. \A i \in 1 .. n : k[i] \in Nat
  OBVIOUS
<1>2. d \in Seq(Seq(Nat)) /\ Len(d) = n /\ \A i \in 1 .. n : Len(d[i]) = k[i]
  BY <1>1
<1> HIDE DEF d
<1>3. /\ UpTo(d, 0) = <<>>
      /\ \A i \in 0 .. n : UpTo(d, i) \in Seq(Nat)
      /\ \A i \in 1 .. n : UpTo(d, i) = UpTo(d, i - 1) \o d[i]
  BY <1>2, JoinedGrows
<1>4. \A i \in 1 .. n : i - 1 \in 0 .. n /\ i \in 0 .. n
  OBVIOUS
<1>5. \A i \in 1 .. n : Len(UpTo(d, i)) = Len(UpTo(d, i - 1)) + k[i]
  <2>1. SUFFICES ASSUME NEW i \in 1 .. n
                 PROVE  Len(UpTo(d, i)) = Len(UpTo(d, i - 1)) + k[i]
    OBVIOUS
  <2>2. UpTo(d, i - 1) \in Seq(Nat) /\ d[i] \in Seq(Nat)
    BY <1>2, <1>3, <1>4, ElementOfSeq
  <2>3. Len(UpTo(d, i - 1) \o d[i]) = Len(UpTo(d, i - 1)) + Len(d[i])
    BY <2>2, ConcatProperties
  <2>4. QED
    BY <1>2, <1>3, <2>3
<1>6. \A i \in 0 .. n : Len(UpTo(d, i)) \in Nat
  BY <1>3
<1>7. g \in [0 .. n -> Nat] /\ g[0] = 0
  BY <1>3, <1>6
<1>8. \A i \in 1 .. n : g[i] = g[i - 1] + k[i]
  BY <1>4, <1>5
<1>9. QED
  BY <1>7, <1>8

\* and so are the first of them.
LEMMA FirstOfGrows ==
  ASSUME NEW k, NEW n \in Nat, k \in [1 .. n -> Nat], n = Chunks
  PROVE  /\ FirstOf(0, k) = 0 /\ \A i \in 0 .. n : FirstOf(i, k) \in Nat
         /\ \A i \in 1 .. n : FirstOf(i, k) = FirstOf(i - 1, k) + k[i]
<1> DEFINE Adds(u) == u = [i \in 0 .. Chunks |-> IF i = 0 THEN 0 ELSE u[i - 1] + k[i]]
           sum == CHOOSE u : Adds(u)
<1> HIDE DEF Chunks
<1>1. PICK g \in [0 .. n -> Nat] :
        g[0] = 0 /\ \A i \in 1 .. n : g[i] = g[i - 1] + k[i]
  BY SumExists
<1>2. /\ Chunks = n
      /\ \A i \in 0 .. n : i = 0 \/ (i \in 1 .. n /\ i - 1 \in 0 .. n /\ i # 0)
  OBVIOUS
<1>3. \A i \in 0 .. Chunks : g[i] = IF i = 0 THEN 0 ELSE g[i - 1] + k[i]
  BY <1>1, <1>2
<1>4. Adds(g)
  BY <1>2, <1>3
<1>5. Adds(sum)
  BY <1>4, Zenon
<1>6. \A i : FirstOf(i, k) = sum[i]
  BY Zenon DEF FirstOf
<1> HIDE DEF sum
<1>7. \A i \in 0 .. n : sum[i] = IF i = 0 THEN 0 ELSE sum[i - 1] + k[i]
  BY <1>2, <1>5, Zenon
<1>8. sum[0] = 0 /\ \A i \in 1 .. n : sum[i] = sum[i - 1] + k[i]
  BY <1>2, <1>7
<1> DEFINE Off == {i \in 0 .. n : sum[i] # g[i]}
<1>9. Off = {}
  <2>1. SUFFICES ASSUME Off # {} PROVE FALSE
    OBVIOUS
  <2>2. Off \in SUBSET Nat
    OBVIOUS
  <2> HIDE DEF Off
  <2>3. PICK m \in Off : \A i \in Off : m <= i
    BY <2>1, <2>2, LeastNat
  <2> USE DEF Off
  <2>4. m \in 0 .. n /\ sum[m] # g[m]
    OBVIOUS
  <2>5. m \in 1 .. n /\ m - 1 \in 0 .. n /\ ~ (m <= m - 1)
    BY <1>1, <1>8, <2>4
  <2>6. sum[m - 1] = g[m - 1]
    BY <2>3, <2>5
  <2>7. QED
    BY <1>1, <1>8, <2>4, <2>5, <2>6
<1>10. \A i \in 0 .. n : sum[i] \in Nat
  BY <1>9
<1>11. FirstOf(0, k) = 0 /\ \A i \in 0 .. n : FirstOf(i, k) \in Nat
  BY <1>6, <1>8, <1>10, Zenon
<1>12. \A i \in 1 .. n : FirstOf(i, k) = FirstOf(i - 1, k) + k[i]
  BY <1>6, <1>8, Zenon
<1>13. QED
  BY <1>11, <1>12

\* What each chunk's sound adds,
LEMMA SoundAdds ==
  ASSUME movie \in Movies
  PROVE  /\ FirstOf(0, SoundFrames) = 0
         /\ \A c \in 1 .. Chunks :
              /\ SoundFrames[c] = SampleFrames(Part(movie, audio, c))
              /\ FirstOf(c, SoundFrames)
                   = FirstOf(c - 1, SoundFrames) + SoundFrames[c]
<1>1. SoundFields(movie) /\ Len(movie.sounds) = Chunks /\ Chunks \in Nat
      /\ SinkChannels \in Nat \ {0}
  BY MovieParts, ChannelsPositive DEF SoundFields
<1>2. <<>> \in Seq(Sample)
  OBVIOUS
<1>3. \A c \in 1 .. Chunks : SampleFrames(Part(movie, audio, c)) \in Nat
  <2>1. SUFFICES ASSUME NEW c \in 1 .. Chunks
                 PROVE  SampleFrames(Part(movie, audio, c)) \in Nat
    OBVIOUS
  <2>2. Part(movie, audio, c) \in Seq(Sample)
    BY <1>1, <1>2, DecodeAppends
  <2> DEFINE k == Len(Part(movie, audio, c))
  <2>3. k \in Nat
    BY <2>2
  <2> HIDE DEF k, SinkChannels
  <2>4. k \div SinkChannels \in Nat
    BY <1>1, <2>3
  <2>5. QED
    BY <2>4 DEF SampleFrames, k
<1>4. SoundFrames = [c \in 1 .. Chunks |-> SampleFrames(Part(movie, audio, c))]
  BY DEF SoundFrames, Part
<1> HIDE DEF SampleFrames, Part, Chunks
<1>5. SoundFrames \in [1 .. Chunks -> Nat]
  BY <1>3, <1>4
<1>6. PICK k : k = SoundFrames
  OBVIOUS
<1>7. QED
  BY <1>1, <1>4, <1>5, <1>6, FirstOfGrows

\* and its pictures, as they are promised.
LEMMA PicturesAdd ==
  ASSUME movie \in Movies, Route # "sound", NEW c \in 0 .. Chunks
  PROVE  FirstOf(c, Pictures) = Due(c)
<1> DEFINE n == Chunks
<1>1. n \in Nat
  BY MovieParts
<1>2. /\ Due(0) = 0
      /\ \A i \in 1 .. n : Pictures[i] \in Nat /\ Due(i) = Due(i - 1) + Pictures[i]
  <2>1. Due(0) = 0 /\ \A i \in 0 .. n : Due(i) \in Nat
    BY DueIs
  <2>2. SUFFICES ASSUME NEW i \in 1 .. n
                 PROVE  Pictures[i] \in Nat /\ Due(i) = Due(i - 1) + Pictures[i]
    BY <2>1
  <2>3. i - 1 \in 0 .. n
    BY <1>1
  <2>4. Due(i - 1) \in Nat
    BY <2>1, <2>3
  <2>5. CASE ByFrame
    <3>1. Pictures[i] = Fit(i)
      BY <2>5 DEF Pictures, ByFrame, Fit
    <3>2. QED
      BY <2>5, <3>1, DueIs
  <2>6. CASE ~ ByFrame
    <3>1. Route \in {"esc122", "esc130"}
      BY <2>6 DEF ByFrame
    <3>2. /\ Route = "esc122" /\ movie.videos[i] = <<>> => Due(i) = Due(i - 1)
          /\ ~ (Route = "esc122" /\ movie.videos[i] = <<>>) => Due(i) = Due(i - 1) + 1
      BY <3>1, DueIs
    <3>3. Pictures[i] = IF Route = "esc122" /\ movie.videos[i] = <<>> THEN 0 ELSE 1
      BY <3>1 DEF Pictures
    <3> HIDE DEF Due, Route, Pictures
    <3>4. QED
      BY <2>4, <3>2, <3>3
  <2>7. QED
    BY <2>5, <2>6
<1> HIDE DEF Due
<1>3. Pictures = [i \in 1 .. n |-> Pictures[i]]
  BY DEF Pictures
<1> HIDE DEF Pictures, Chunks
<1>4. PICK k : k = Pictures
  OBVIOUS
<1>5. k \in [1 .. n -> Nat]
  BY <1>2, <1>3, <1>4
<1>6. /\ FirstOf(0, k) = 0 /\ \A i \in 0 .. n : FirstOf(i, k) \in Nat
      /\ \A i \in 1 .. n : FirstOf(i, k) = FirstOf(i - 1, k) + k[i]
  BY <1>1, <1>5, FirstOfGrows
<1> DEFINE Off == {i \in 0 .. n : FirstOf(i, k) # Due(i)}
<1>7. Off = {}
  <2>1. SUFFICES ASSUME Off # {} PROVE FALSE
    OBVIOUS
  <2>2. Off \in SUBSET Nat
    BY <1>1
  <2> HIDE DEF Off
  <2>3. PICK m \in Off : \A i \in Off : m <= i
    BY <2>1, <2>2, LeastNat
  <2> USE DEF Off
  <2>4. m \in 0 .. n /\ FirstOf(m, k) # Due(m)
    OBVIOUS
  <2>5. m # 0
    BY <1>2, <1>6, <2>4
  <2>6. m \in 1 .. n /\ m - 1 \in 0 .. n /\ ~ (m <= m - 1)
    BY <1>1, <2>4, <2>5
  <2>7. FirstOf(m - 1, k) = Due(m - 1)
    BY <2>3, <2>6
  <2>8. FirstOf(m, k) = FirstOf(m - 1, k) + k[m] /\ Due(m) = Due(m - 1) + k[m]
    BY <1>2, <1>4, <1>6, <2>6
  <2>9. QED
    BY <2>4, <2>7, <2>8
<1>8. QED
  BY <1>4, <1>7 DEF n

-----------------------------------------------------------------------------
\* The clocks, told by where the program is.

\* The sound's clock is that of the chunks whose sound was written.
SoundTimed ==
  options.nut /\ DoAudio =>
    \E n \in Nat : Emitted(n) /\ sink.audio_pts = FirstOf(n, SoundFrames)

\* Which movies are balanced is told by movie and command line.
LEMMA SumsSame ==
  ASSUME Steady, at # "main"
  PROVE  /\ Balanced' = Balanced /\ DoAudio' = DoAudio
         /\ \A n : FirstOf(n, SoundFrames)' = FirstOf(n, SoundFrames)
<1>1. /\ movie' = movie /\ options' = options /\ audio' = audio
      /\ Chunks' = Chunks /\ Route' = Route /\ Usable' = Usable
  BY PlanSame, Unchanging
<1>2. SinkChannels' = SinkChannels /\ DoAudio' = DoAudio
  BY <1>1 DEF SinkChannels, DoAudio
<1> HIDE DEF Route, Usable, Chunks, SinkChannels, DoAudio
<1>3. Pictures' = Pictures
  BY <1>1, Zenon DEF Pictures
<1>4. SoundFrames' = SoundFrames
  <2>1. \A c : DecodeChunkAudio(movie, audio, c, <<>>)'
               = DecodeChunkAudio(movie, audio, c, <<>>)
    BY <1>1, Zenon DEF DecodeChunkAudio
  <2>2. QED
    BY <1>1, <1>2, <2>1, Zenon DEF SoundFrames, SampleFrames
<1>5. \A n : FirstOf(n, SoundFrames)' = FirstOf(n, SoundFrames)
  BY <1>1, <1>4, Zenon DEF FirstOf
<1>6. \A n : FirstOf(n, Pictures)' = FirstOf(n, Pictures)
  BY <1>1, <1>3, Zenon DEF FirstOf
<1> HIDE DEF FirstOf, SoundFrames, Pictures
<1>7. Balanced' = Balanced
  BY <1>1, <1>2, <1>5, <1>6, Zenon DEF Balanced, UpFront
<1>8. QED
  BY <1>2, <1>5, <1>7

\* With the number of chunks goes the clock.
LEMMA SoundTimedStep ==
  ASSUME Placed, Step, Running, SoundTimed
  PROVE  SoundTimed'
<1>1. StreamStep /\ Steady
  BY StepStreams
<1>2. movie' = movie /\ options' = options /\ movie \in Movies
      /\ (at # "main" => audio' = audio)
  BY <1>1, Unchanging DEF Placed
<1>3. SUFFICES ASSUME options.nut, DoAudio'
               PROVE  \E n \in Nat : Emitted(n)' /\ sink'.audio_pts
                                                    = FirstOf(n, SoundFrames)'
  BY <1>2 DEF SoundTimed
<1>4. CASE at = "main"
  <2>1. CASE Decide
    <3>1. at' = "open" /\ sink' = [video_pts |-> 0, audio_pts |-> 0]
      BY <2>1 DEF Decide, outVars, Placed
    <3>2. Emitted(0)'
      <4>1. Chunks' \in Nat
        BY <1>2, MovieParts DEF Chunks
      <4>2. QED
        BY <3>1, <4>1 DEF Emitted
    <3>3. FirstOf(0, SoundFrames)' = 0
      <4>1. (movie \in Movies)'
        BY <1>2
      <4>2. (movie \in Movies => FirstOf(0, SoundFrames) = 0)'
        BY SoundAdds, PTL
      <4>3. QED
        BY <4>1, <4>2
    <3> HIDE DEF Emitted, FirstOf, SoundFrames
    <3>4. QED
      BY <3>1, <3>2, <3>3
  <2>2. CASE ~ Decide
    <3>1. Refuse \/ Nothing \/ Die
      BY <1>4, <2>2 DEF Step, OpenNut, WriteWav, StartVideo, EmitSound,
         SkipChunk,
         EnterChunk, EnterModuleChunk, EnterWrappedChunk, UnwrapFrame,
         LoadUnwrapped, ShowFrame, PassFrame, Esc122Frame, Esc130Frame,
         Esc100Frame, Esc124Frame, TcaFrame, Type23Frame, ModuleFrame,
         ModuleShort, EndChunk, EndFilm, Close
    <3>2. audio' = audio
      BY <3>1 DEF Refuse, Nothing, Die, DieIf, Exit
    <3>3. audio' = "none"
      BY <1>4, <3>2 DEF Placed
    <3>4. QED
      BY <1>3, <3>3 DEF DoAudio, CanDecode
  <2>3. QED
    BY <2>1, <2>2
<1>5. CASE at # "main"
  <2>1. /\ DoAudio /\ Chunks \in Nat
        /\ \A n : FirstOf(n, SoundFrames)' = FirstOf(n, SoundFrames)
    BY <1>1, <1>2, <1>3, <1>5, SumsSame, MovieParts
  <2>2. PICK n \in Nat : Emitted(n) /\ sink.audio_pts = FirstOf(n, SoundFrames)
    BY <1>3, <2>1 DEF SoundTimed
  <2>3. CASE ~ EmitSound
    <3>1. Emitted(n)'
      BY <1>3, <1>5, <2>2, <2>3, EmittedKept
    <3>2. Silent \/ Opened \/ PictureOut
      <4>1. CASE at # "sound"
        BY <1>1, <4>1 DEF StreamStep, SoundOut
      <4>2. CASE at = "sound"
        BY <2>3, <4>2, OnlyEmitSounds DEF Exit, Silent, outVars
      <4>3. QED
        BY <4>1, <4>2
    <3>3. sink'.audio_pts = sink.audio_pts
      BY <3>2 DEF Silent, Opened, PictureOut, Placed
    <3> HIDE DEF Emitted, FirstOf, SoundFrames
    <3>4. QED
      BY <2>1, <2>2, <3>1, <3>3
  <2>4. CASE EmitSound
    <3>1. PICK k : k = chunk
      OBVIOUS
    <3>2. k \in 1 .. Chunks /\ n = k - 1 /\ Emitted(k)'
      BY <2>2, <2>4, <3>1, EmittedMore
    <3>3. /\ ChunkSound = Part(movie, audio, k)
          /\ FirstOf(k, SoundFrames)
               = FirstOf(k - 1, SoundFrames) + SampleFrames(ChunkSound)
      BY <1>2, <3>1, <3>2, ChunkSoundSeq, SoundAdds
    <3>4. sink'.audio_pts = sink.audio_pts + SampleFrames(ChunkSound)
      <4>1. CASE SoundOut
        BY <4>1 DEF SoundOut, Placed
      <4>2. CASE ~ SoundOut
        <5>1. sink' = sink
          BY <2>4, <4>2 DEF EmitSound, SinkChunkAudio, SoundOut, outVars
        <5>2. ChunkSound = <<>>
          BY <1>3, <2>1, <2>4, <4>2 DEF EmitSound, SinkChunkAudio, SoundOut
        <5>3. SampleFrames(ChunkSound) = 0
          <6>1. SinkChannels \in Nat \ {0}
            BY <1>2, ChannelsPositive
          <6> HIDE DEF SinkChannels
          <6>2. 0 \div SinkChannels = 0
            BY <6>1
          <6>3. Len(ChunkSound) = 0
            BY <5>2
          <6>4. QED
            BY <6>2, <6>3 DEF SampleFrames
        <5>4. QED
          BY <5>1, <5>3 DEF Placed
      <4>3. QED
        BY <4>1, <4>2
    <3>5. k \in Nat
      BY <2>1, <3>2
    <3> HIDE DEF Emitted, FirstOf, SoundFrames, ChunkSound, SampleFrames
    <3>6. QED
      BY <2>1, <2>2, <3>2, <3>3, <3>4, <3>5
  <2>5. QED
    BY <2>3, <2>4
<1>6. QED
  BY <1>4, <1>5

\* and so over every step.
LEMMA SoundTimedNext ==
  ASSUME Placed, Running, SoundTimed, [Next]_vars
  PROVE  SoundTimed'
<1>1. CASE Step
  BY <1>1, SoundTimedStep
<1>2. CASE Fail
  <2>1. at # "main" /\ Exit("exit 1") /\ Steady
    BY <1>2, NextStreams DEF Fail
  <2>2. /\ DoAudio' = DoAudio /\ options' = options /\ sink' = sink
        /\ Chunks' = Chunks
        /\ \A n : FirstOf(n, SoundFrames)' = FirstOf(n, SoundFrames)
    BY <2>1, SumsSame, Unchanging DEF Exit, outVars
  <2>3. \A n : Emitted(n) => Emitted(n)'
    BY <2>1, <2>2 DEF Emitted, Exit
  <2> HIDE DEF Emitted, FirstOf, SoundFrames, DoAudio
  <2>4. QED
    BY <2>2, <2>3 DEF SoundTimed
<1>3. CASE UNCHANGED vars
  <2>1. movie' = movie /\ options' = options /\ audio' = audio /\ at' = at
        /\ chunk' = chunk /\ status' = status /\ sink' = sink
    BY <1>3 DEF vars, inputVars, outVars
  <2>2. Chunks' = Chunks /\ Route' = Route /\ DoAudio' = DoAudio
    BY <1>3, NextStreams, Unchanging, <2>1 DEF DoAudio
  <2>3. \A n : Emitted(n)' = Emitted(n)
    BY <2>1, <2>2 DEF Emitted
  <2>4. CASE at = "main"
    BY <2>1, <2>4 DEF SoundTimed, Placed, DoAudio, CanDecode
  <2>5. CASE at # "main"
    <3>1. \A n : FirstOf(n, SoundFrames)' = FirstOf(n, SoundFrames)
      BY <1>3, <2>5, NextStreams, SumsSame
    <3> HIDE DEF Emitted, FirstOf, SoundFrames, DoAudio
    <3>2. QED
      BY <2>1, <2>2, <2>3, <3>1 DEF SoundTimed
  <2>6. QED
    BY <2>4, <2>5
<1>4. QED
  BY <1>1, <1>2, <1>3 DEF Next

-----------------------------------------------------------------------------
\* The syncpoints' times.

\* A later syncpoint has no earlier time,
InOrder == \A i, j \in Syncs : i < j => Time(i) <= Time(j)

\* and each of them names a picture that was shown or sound that was heard by
\* the end of the last one.
Elapsed ==
  \A i \in Syncs :
    /\ file[i].pts \in Nat
    /\ IF Video(i) THEN file[i].pts < sink.video_pts
       ELSE /\ file[i].pts <= sink.audio_pts
            /\ file[i].pts * SampleTicks <= sink.video_pts * FrameTicks

SyncsLie == Balanced => InOrder /\ Elapsed

SeekWell == SoundTimed /\ SyncsLie

\* A frame brings one syncpoint at most, behind all others.
LEMMA SyncsGrow ==
  ASSUME NEW stream, NEW pts, NEW d, NEW length, IsSequence(file),
         WriteFrame(stream, pts, d, length)
  PROVE  /\ Len(file) \in Nat /\ Syncs \subseteq 1 .. Len(file)
         /\ \A i \in Syncs' :
              \/ i \in Syncs /\ file'[i] = file[i]
              \/ /\ i = Len(file) + 1
                 /\ file'[i].stream = stream /\ file'[i].pts = pts
<1>1. PICK S : file \in Seq(S)
  BY DEF IsSequence
<1> DEFINE n == Len(file)
<1>2. n \in Nat /\ DOMAIN file = 1 .. n /\ Syncs \subseteq 1 .. n
  BY <1>1 DEF Syncs
<1>3. PICK sync, frame :
        /\ sync.stream = stream /\ sync.pts = pts /\ frame.kind = "frame"
        /\ file' = file \o (IF SyncDue THEN <<sync, frame>> ELSE <<frame>>)
  <2> DEFINE framePos == IF SyncDue THEN file_pos + SyncLen(stream, pts)
            ELSE file_pos
             frame0 == FramePacket(framePos, FrameLen(stream, pts, length),
                                   stream, pts, d)
             sync0 == SyncPacket(file_pos, SyncLen(stream, pts), stream, pts,
                                 BackPointer)
  <2>1. file' = file \o (IF SyncDue THEN <<sync0, frame0>> ELSE <<frame0>>)
    BY DEF WriteFrame
  <2>2. sync0.stream = stream /\ sync0.pts = pts /\ frame0.kind = "frame"
    BY DEF FramePacket, SyncPacket
  <2> HIDE DEF frame0, sync0
  <2>3. QED
    BY <2>1, <2>2
<1> DEFINE T == S \cup {sync, frame}
           more == IF SyncDue THEN <<sync, frame>> ELSE <<frame>>
<1>4. file \in Seq(T) /\ <<sync, frame>> \in Seq(T) /\ <<frame>> \in Seq(T)
  BY <1>1
<1>5. more \in Seq(T) /\ file' = file \o more
      /\ Len(more) = (IF SyncDue THEN 2 ELSE 1)
      /\ more[Len(more)] = frame /\ (SyncDue => more[1] = sync)
  BY <1>3, <1>4
<1> HIDE DEF T, more, n
<1>6. /\ file' \in Seq(T) /\ Len(file') = n + Len(more)
      /\ \A i \in 1 .. n + Len(more) :
           file'[i] = IF i <= n THEN file[i] ELSE more[i - n]
  BY <1>4, <1>5, ConcatProperties DEF n
<1>7. DOMAIN file' = 1 .. n + Len(more) /\ Len(more) \in {1, 2}
  BY <1>5, <1>6
<1>8. ASSUME NEW i \in 1 .. n + Len(more), file'[i].kind = "syncpoint"
      PROVE  \/ i \in Syncs /\ file'[i] = file[i]
             \/ /\ i = n + 1
                /\ file'[i].stream = stream /\ file'[i].pts = pts
  <2>1. CASE i <= n
    <3>1. i \in 1 .. n /\ file'[i] = file[i]
      BY <1>2, <1>6, <1>7, <1>8, <2>1
    <3>2. QED
      BY <1>2, <1>8, <3>1 DEF Syncs
  <2>2. CASE ~ (i <= n)
    <3>1. file'[i] = more[i - n]
      BY <1>6, <1>8, <2>2
    <3>2. i - n \in 1 .. Len(more) /\ i - n # Len(more)
      <4>1. i - n \in 1 .. Len(more)
        BY <1>2, <1>7, <1>8, <2>2
      <4>2. i - n # Len(more)
        BY <1>3, <1>5, <1>8, <3>1
      <4>3. QED
        BY <4>1, <4>2
    <3>3. i - n = 1 /\ Len(more) = 2
      <4>1. CASE Len(more) = 1
        BY <3>2, <4>1
      <4>2. CASE Len(more) = 2
        BY <3>2, <4>2
      <4>3. QED
        BY <1>7, <4>1, <4>2
    <3>4. file'[i] = sync
      BY <1>5, <3>1, <3>3
    <3>5. i = n + 1
      BY <1>2, <1>7, <3>3
    <3>6. QED
      BY <1>3, <3>4, <3>5
  <2>3. QED
    BY <2>1, <2>2
<1>9. Syncs' = {i \in 1 .. n + Len(more) : file'[i].kind = "syncpoint"}
  BY <1>7 DEF Syncs
<1>10. QED
  BY <1>2, <1>8, <1>9 DEF n

\* Integer arithmetic: ticks and the times they stand for.
LEMMA TicksOrder ==
  ASSUME NEW p \in Nat, NEW q \in Nat, NEW F \in Nat, p <= q
  PROVE  p * F <= q * F /\ p * F \in Nat /\ (p + 1) * F = p * F + F
<1>1. PICK r \in Nat : q = p + r
  <2>1. q - p \in Nat /\ q = p + (q - p)
    OBVIOUS
  <2>2. QED
    BY <2>1
<1>2. (p + r) * F = p * F + r * F /\ (p + 1) * F = p * F + F
  OBVIOUS
<1>3. r * F \in Nat /\ p * F \in Nat
  OBVIOUS
<1> DEFINE a == p * F
           b == r * F
<1>4. q * F = a + b /\ a \in Nat /\ b \in Nat
  BY <1>1, <1>2, <1>3
<1> HIDE DEF a, b
<1>5. a <= q * F
  BY <1>4
<1>6. QED
  BY <1>2, <1>3, <1>5 DEF a

\* When something of so many ticks is due.
TimeOf(stream, pts) ==
  pts * (IF stream = VideoStream /\ HaveVideo THEN FrameTicks ELSE SampleTicks)

\* Order is kept by a frame that is due no earlier than any syncpoint.
LEMMA OrderKept ==
  ASSUME NEW stream, NEW pts, NEW d, NEW length, IsSequence(file),
         WriteFrame(stream, pts, d, length), HaveVideo' = HaveVideo, InOrder,
         \A i \in Syncs : Time(i) <= TimeOf(stream, pts)
  PROVE  InOrder'
<1>1. /\ Len(file) \in Nat /\ Syncs \subseteq 1 .. Len(file)
      /\ \A i \in Syncs' :
           \/ i \in Syncs /\ file'[i] = file[i]
           \/ /\ i = Len(file) + 1
              /\ file'[i].stream = stream /\ file'[i].pts = pts
  BY SyncsGrow
<1> HIDE DEF HaveVideo, Syncs
<1>2. SUFFICES ASSUME NEW i \in Syncs', NEW j \in Syncs', i < j
               PROVE  Time(i)' <= Time(j)'
  BY DEF InOrder
<1>3. \A k : file'[k] = file[k] => Time(k)' = Time(k)
  BY DEF Time, Video
<1>4. \A k : file'[k].stream = stream /\ file'[k].pts = pts
               => Time(k)' = TimeOf(stream, pts)
  BY DEF Time, Video, TimeOf
<1> HIDE DEF Time, TimeOf
<1>5. CASE j \in Syncs /\ file'[j] = file[j]
  <2>1. i \in Syncs /\ file'[i] = file[i]
    BY <1>1, <1>2, <1>5
  <2>2. QED
    BY <1>2, <1>3, <1>5, <2>1 DEF InOrder
<1>6. CASE j = Len(file) + 1 /\ file'[j].stream = stream /\ file'[j].pts = pts
  <2>1. i \in Syncs /\ file'[i] = file[i]
    BY <1>1, <1>2, <1>6
  <2>2. Time(i)' = Time(i) /\ Time(j)' = TimeOf(stream, pts)
    BY <1>3, <1>4, <1>6, <2>1
  <2>3. QED
    BY <2>1, <2>2
<1>7. QED
  BY <1>1, <1>5, <1>6

\* A picture is shown when those before it were.
LEMMA PictureInOrder ==
  ASSUME Placed, Counted, Steady, PictureOut, InOrder, Elapsed
  PROVE  InOrder' /\ Elapsed'
<1> DEFINE v == sink.video_pts
           a == sink.audio_pts
<1>1. PICK shown : \E length \in Nat :
        WriteFrame(VideoStream, sink.video_pts, shown, length)
  BY DEF PictureOut
<1>2. PICK length \in Nat :
          WriteFrame(VideoStream, sink.video_pts, shown, length)
  BY <1>1
<1>3. /\ IsSequence(file) /\ HaveVideo /\ HaveVideo' = HaveVideo
      /\ FrameTicks \in Nat /\ SampleTicks \in Nat
      /\ v \in Nat /\ a \in Nat /\ sink'.video_pts = v + 1 /\ sink'.audio_pts = a
  BY Unchanging, MovieAssumption DEF Counted, Ticks, PictureOut, Placed
<1> HIDE DEF HaveVideo
<1>4. \A i \in Syncs : Time(i) <= v * FrameTicks
  <2>1. SUFFICES ASSUME NEW i \in Syncs PROVE Time(i) <= v * FrameTicks
    OBVIOUS
  <2>2. PICK p \in Nat : p = file[i].pts
    BY DEF Elapsed
  <2>3. CASE Video(i)
    <3>1. p <= v /\ Time(i) = p * FrameTicks
      BY <1>3, <2>2, <2>3 DEF Elapsed, Time
    <3>2. QED
      BY <1>3, <3>1, TicksOrder
  <2>4. CASE ~ Video(i)
    BY <2>2, <2>4 DEF Elapsed, Time
  <2>5. QED
    BY <2>3, <2>4
<1>5. /\ TimeOf(VideoStream, v) = v * FrameTicks
      /\ v * FrameTicks \in Nat /\ v * FrameTicks <= (v + 1) * FrameTicks
      /\ (v + 1) * FrameTicks \in Nat
  <2>1. v + 1 \in Nat /\ v <= v + 1
    BY <1>3
  <2>2. QED
    BY <1>3, <2>1, TicksOrder DEF TimeOf
<1>6. InOrder'
  BY <1>2, <1>3, <1>4, <1>5, OrderKept
<1>7. Elapsed'
  <2>1. \A i \in Syncs' :
          \/ i \in Syncs /\ file'[i] = file[i]
          \/ file'[i].stream = VideoStream /\ file'[i].pts = v
    BY <1>2, <1>3, SyncsGrow
  <2>2. SUFFICES ASSUME NEW i \in Syncs'
                 PROVE  /\ file'[i].pts \in Nat
                        /\ IF Video(i)' THEN file'[i].pts < v + 1
                           ELSE /\ file'[i].pts <= a
                                /\ file'[i].pts * SampleTicks
                                     <= (v + 1) * FrameTicks
    BY <1>3 DEF Elapsed
  <2>3. CASE i \in Syncs /\ file'[i] = file[i]
    <3>1. Video(i)' <=> Video(i)
      BY <1>3, <2>3 DEF Video
    <3>2. PICK p : p = file[i].pts
      OBVIOUS
    <3>3. PICK u : u = p * SampleTicks
      OBVIOUS
    <3>4. /\ p \in Nat
          /\ IF Video(i) THEN p < v ELSE p <= a /\ u <= v * FrameTicks
      BY <2>3, <3>2, <3>3 DEF Elapsed
    <3>5. u \in Nat
      BY <1>3, <3>3, <3>4
    <3>6. IF Video(i) THEN p < v + 1 ELSE p <= a /\ u <= (v + 1) * FrameTicks
      <4> DEFINE s == v * FrameTicks
                 t == (v + 1) * FrameTicks
      <4>1. s \in Nat /\ t \in Nat /\ s <= t
        BY <1>5
      <4> HIDE DEF s, t
      <4>2. u <= s => u <= t
        BY <3>5, <4>1
      <4>3. p < v => p < v + 1
        BY <1>3, <3>4
      <4>4. QED
        BY <3>4, <4>2, <4>3 DEF s, t
    <3>7. QED
      BY <2>3, <3>1, <3>2, <3>3, <3>4, <3>6
  <2>4. CASE file'[i].stream = VideoStream /\ file'[i].pts = v
    <3>1. Video(i)' /\ v < v + 1
      BY <1>3, <2>4 DEF Video, VideoStream
    <3>2. QED
      BY <1>3, <2>4, <3>1
  <2>5. QED
    BY <2>1, <2>3, <2>4
<1>8. QED
  BY <1>6, <1>7

\* A chunk's sound comes when the pictures before it but the last are over.
LEMMA SoundInOrder ==
  ASSUME Placed, Counted, Steady, SoundOut, HaveVideo, InOrder, Elapsed,
         sink.video_pts * FrameTicks - FrameTicks
           <= sink.audio_pts * SampleTicks,
         sink.audio_pts * SampleTicks <= sink.video_pts * FrameTicks
  PROVE  InOrder' /\ Elapsed'
<1> DEFINE v == sink.video_pts
           a == sink.audio_pts
           steps == SampleFrames(ChunkSound)
<1>1. WriteFrame(AudioStream, a, ChunkSound, 2 * Len(ChunkSound))
  BY DEF SoundOut
<1>2. steps \in Nat
  BY ChunkSoundSeq DEF SoundOut, Placed
<1> HIDE DEF steps
<1>3. /\ IsSequence(file) /\ HaveVideo' = HaveVideo
      /\ FrameTicks \in Nat /\ SampleTicks \in Nat
      /\ v \in Nat /\ a \in Nat /\ sink'.video_pts = v
      /\ sink'.audio_pts = a + steps
  BY Unchanging, MovieAssumption DEF Counted, Ticks, SoundOut, Placed, steps
<1>4. AudioStream = 1 /\ VideoStream = 0
  BY DEF AudioStream, VideoStream
<1> HIDE DEF HaveVideo, AudioStream, VideoStream
<1> DEFINE V == v * FrameTicks
           A == a * SampleTicks
<1>5. V \in Nat /\ A \in Nat /\ V - FrameTicks <= A /\ A <= V
  BY <1>3
<1>6. TimeOf(AudioStream, a) = A
  BY <1>4 DEF TimeOf
<1>7. \A i \in Syncs : Time(i) <= A
  <2>1. SUFFICES ASSUME NEW i \in Syncs PROVE Time(i) <= A
    OBVIOUS
  <2>2. PICK p \in Nat : p = file[i].pts
    BY DEF Elapsed
  <2>3. CASE Video(i)
    <3>1. p < v /\ Time(i) = p * FrameTicks
      BY <2>2, <2>3 DEF Elapsed, Time
    <3>2. p + 1 \in Nat /\ p + 1 <= v
      BY <1>3, <3>1
    <3>3. (p + 1) * FrameTicks <= V /\ (p + 1) * FrameTicks = p * FrameTicks + FrameTicks
          /\ p * FrameTicks \in Nat
      <4>1. p <= p + 1
        OBVIOUS
      <4>2. QED
        BY <1>3, <3>2, <4>1, TicksOrder
    <3> DEFINE t == p * FrameTicks
    <3>4. t \in Nat /\ t + FrameTicks <= V
      BY <3>3
    <3> HIDE DEF t, V, A
    <3>5. t <= A
      BY <1>3, <1>5, <3>4
    <3>6. QED
      BY <3>1, <3>5 DEF t
  <2>4. CASE ~ Video(i)
    <3>1. p <= a /\ Time(i) = p * SampleTicks
      BY <2>2, <2>4 DEF Elapsed, Time
    <3>2. QED
      BY <1>3, <3>1, TicksOrder
  <2>5. QED
    BY <2>3, <2>4
<1>8. InOrder'
  BY <1>1, <1>3, <1>6, <1>7, OrderKept
<1>9. Elapsed'
  <2>1. \A i \in Syncs' :
          \/ i \in Syncs /\ file'[i] = file[i]
          \/ file'[i].stream = AudioStream /\ file'[i].pts = a
    BY <1>1, <1>3, SyncsGrow
  <2>2. SUFFICES ASSUME NEW i \in Syncs'
                 PROVE  /\ file'[i].pts \in Nat
                        /\ IF Video(i)' THEN file'[i].pts < v
                           ELSE /\ file'[i].pts <= a + steps
                                /\ file'[i].pts * SampleTicks <= V
    BY <1>3 DEF Elapsed
  <2>3. CASE i \in Syncs /\ file'[i] = file[i]
    <3>1. Video(i)' <=> Video(i)
      BY <1>3, <2>3 DEF Video, VideoStream
    <3>2. PICK p : p = file[i].pts
      OBVIOUS
    <3>3. PICK u : u = p * SampleTicks
      OBVIOUS
    <3>4. p \in Nat /\ IF Video(i) THEN p < v ELSE p <= a /\ u <= V
      BY <2>3, <3>2, <3>3 DEF Elapsed
    <3>5. p <= a => p <= a + steps
      BY <1>2, <1>3, <3>4
    <3>6. QED
      BY <2>3, <3>1, <3>2, <3>3, <3>4, <3>5
  <2>4. CASE file'[i].stream = AudioStream /\ file'[i].pts = a
    <3>1. ~ Video(i)' /\ a <= a + steps
      BY <1>2, <1>3, <1>4, <2>4 DEF Video, VideoStream
    <3>2. QED
      BY <1>3, <1>5, <2>4, <3>1
  <2>5. QED
    BY <2>1, <2>3, <2>4
<1>10. QED
  BY <1>8, <1>9

\* The pictures' clock is that of the chunks whose pictures were shown.
LEMMA PicturesTimed ==
  ASSUME movie \in Movies, Counted, ShownWell, options.nut, at = "sound",
         Route \notin UpFront, chunk \in 1 .. Chunks
  PROVE  sink.video_pts = Due(chunk - 1)
<1>1. PICK c \in Nat : ShownAt(c)
  BY DEF ShownWell
<1>2. c = chunk - 1 /\ Told(Due(c))
  BY <1>1 DEF ShownAt, Had
<1>3. PICK k : k = Due(c)
  OBVIOUS
<1>4. k \in 0 .. Len(Promised) /\ Shown = SubSeq(Promised, 1, k)
  BY <1>2, <1>3 DEF Told
<1>5. PICK S : Promised \in Seq(S)
  BY DueIs DEF IsSequence
<1>6. PICK V : V = Chosen(file, HaveVideo, TRUE)
  OBVIOUS
<1>7. IsSequence(V) /\ sink.video_pts = Len(V)
  BY <1>6 DEF Counted, Ticks, PictureClock
<1>8. Shown = Data(V)
  BY <1>6, ShownIs DEF Streamed
<1> HIDE DEF Shown, Promised, Due
<1>9. Len(SubSeq(Promised, 1, k)) = k
  BY <1>4, <1>5, Beginning
<1>10. Len(Data(V)) = Len(V)
  <2>1. DOMAIN V = 1 .. Len(V) /\ Len(V) \in Nat
    BY <1>7 DEF IsSequence
  <2>2. QED
    BY <2>1 DEF Data
<1>11. sink.video_pts = k
  BY <1>4, <1>7, <1>8, <1>9, <1>10
<1>12. QED
  BY <1>2, <1>3, <1>11

\* Of a balanced movie a chunk's sound is neither late nor early.
LEMMA SoundOnTime ==
  ASSUME Placed, Counted, ShownWell, SoundTimed, SoundOut, Balanced
  PROVE  /\ HaveVideo
         /\ sink.video_pts * FrameTicks - FrameTicks
              <= sink.audio_pts * SampleTicks
         /\ sink.audio_pts * SampleTicks <= sink.video_pts * FrameTicks
<1>1. /\ movie \in Movies /\ at = "sound" /\ chunk \in 1 .. Chunks
      /\ options.nut /\ DoAudio /\ Route \notin UpFront /\ Chunks \in Nat
      /\ FrameTicks \in Nat /\ SampleTicks \in Nat
  BY MovieParts, MovieAssumption DEF Placed, SoundOut, Balanced
<1>2. HaveVideo /\ Route # "sound"
  BY <1>1, RouteHasVideo DEF UpFront
<1>3. PICK c : c = chunk - 1
  OBVIOUS
<1>4. c \in 0 .. Chunks /\ (c = 0 \/ c \in 1 .. Chunks - 1)
  BY <1>1, <1>3
<1>5. sink.video_pts = FirstOf(c, Pictures)
  BY <1>1, <1>2, <1>3, <1>4, PicturesTimed, PicturesAdd
<1>6. sink.audio_pts = FirstOf(c, SoundFrames)
  <2>1. PICK n \in Nat : Emitted(n) /\ sink.audio_pts = FirstOf(n, SoundFrames)
    BY <1>1 DEF SoundTimed
  <2>2. n = c
    BY <1>1, <1>3, <2>1 DEF Emitted
  <2>3. QED
    BY <2>1, <2>2
<1>7. CASE c = 0
  <2>1. sink.audio_pts = 0
    BY <1>1, <1>6, <1>7, SoundAdds
  <2>2. sink.video_pts = 0
    BY <1>1, <1>2, <1>4, <1>5, <1>7, PicturesAdd, DueIs
  <2>3. QED
    BY <1>1, <1>2, <2>1, <2>2
<1>8. CASE c \in 1 .. Chunks - 1
  BY <1>1, <1>2, <1>5, <1>6, <1>8 DEF Balanced
<1>9. QED
  BY <1>4, <1>7, <1>8

\* While there is no syncpoint all is in order.
LEMMA NoSyncs ==
  ASSUME Syncs = {}
  PROVE  InOrder /\ Elapsed
BY DEF InOrder, Elapsed

\* Every step keeps the order.
LEMMA SyncsLieNext ==
  ASSUME Placed, Placed', Counted, ShownWell, SoundTimed, SyncsLie, [Next]_vars
  PROVE  SyncsLie'
<1>1. StreamStep /\ Steady
  BY NextStreams
<1>2. ASSUME Syncs' = {} PROVE SyncsLie'
  <2>1. (Syncs = {} => InOrder /\ Elapsed)'
    BY NoSyncs, PTL
  <2>2. QED
    BY <1>2, <2>1 DEF SyncsLie
<1>3. CASE at \in {"main", "open"} /\ Silent
  <2>1. file' = <<>>
    BY <1>3 DEF Silent, muxVars, Placed
  <2>2. QED
    BY <1>2, <2>1 DEF Syncs
<1>4. CASE Opened
  <2>1. PICK streams \in Nat : OpenMux(streams)
    BY <1>4 DEF Opened
  <2>2. \A i \in DOMAIN file' : file'[i].kind # "syncpoint"
    <3>1. \A i \in 1 .. streams + 2 : HeaderAt(i).kind # "syncpoint"
      BY DEF HeaderAt, Packet
    <3>2. file' = [i \in 1 .. streams + 2 |-> HeaderAt(i)]
      BY <2>1 DEF OpenMux
    <3>3. QED
      BY <3>1, <3>2
  <2>3. QED
    BY <1>2, <2>2 DEF Syncs
<1>5. SUFFICES ASSUME at \notin {"main", "open"}, Balanced'
               PROVE  InOrder' /\ Elapsed'
  BY <1>1, <1>3, <1>4 DEF StreamStep, PictureOut, SoundOut, SyncsLie, Opened
<1>6. Balanced /\ InOrder /\ Elapsed
  BY <1>1, <1>5, SumsSame DEF SyncsLie
<1>7. CASE Silent
  <2>1. file' = file /\ sink' = sink /\ HaveVideo' = HaveVideo
    BY <1>1, <1>7, Unchanging DEF Silent, muxVars
  <2> HIDE DEF HaveVideo
  <2>2. Syncs' = Syncs /\ \A i : Video(i)' = Video(i) /\ Time(i)' = Time(i)
    BY <2>1 DEF Syncs, Video, Time
  <2> HIDE DEF Syncs, Video, Time
  <2>3. InOrder'
    BY <1>6, <2>2 DEF InOrder
  <2>4. Elapsed'
    BY <1>6, <2>1, <2>2 DEF Elapsed
  <2>5. QED
    BY <2>3, <2>4
<1>8. CASE PictureOut
  BY <1>1, <1>6, <1>8, PictureInOrder
<1>9. CASE SoundOut
  BY <1>1, <1>6, <1>9, SoundOnTime, SoundInOrder
<1>10. QED
  BY <1>1, <1>5, <1>7, <1>8, <1>9 DEF StreamStep, Opened

\* A seek by time finds its place: the times of the syncpoints, whichever
\* stream they name, never go back in a movie whose sound keeps up with its
\* pictures, since sink_chunk_audio writes a chunk's sound before any picture
\* of it is shown.
THEOREM SeekPointsAlwaysAdvance == Spec => []SeekPointsAdvance
<1> DEFINE Inv == Placed /\ Counted /\ SoundKept /\ ShownWell /\ at \in Places
                    /\ SeekWell
<1>1. Init => Inv
  <2> SUFFICES ASSUME Init PROVE Inv
    OBVIOUS
  <2>1. Placed /\ at = "main"
    BY PlacedInit DEF Init
  <2>2. Counted /\ SoundKept /\ ShownWell
    BY <2>1, CountedAtOnce, SoundKeptInit, ShownWellInit
  <2>3. SoundTimed
    BY <2>1 DEF SoundTimed, Placed, DoAudio, CanDecode
  <2>4. Syncs = {}
    BY <2>1 DEF Syncs, Placed
  <2>5. SyncsLie
    BY <2>4, NoSyncs DEF SyncsLie
  <2>6. QED
    BY <2>1, <2>2, <2>3, <2>5 DEF Places, SeekWell
<1>2. Inv /\ [Next]_vars => Inv'
  <2> SUFFICES ASSUME Inv, [Next]_vars PROVE Inv'
    OBVIOUS
  <2>1. Placed' /\ Counted' /\ SoundKept' /\ ShownWell' /\ at' \in Places
    BY PlacedNext, CountedNext, SoundKeptNext, ShownWellNext, PlaceKnown
  <2>2. SoundTimed /\ SyncsLie /\ Running
    BY DEF SeekWell, SoundKept
  <2>3. SoundTimed'
    BY <2>2, SoundTimedNext
  <2>4. SyncsLie'
    BY <2>1, <2>2, SyncsLieNext
  <2>5. QED
    BY <2>1, <2>3, <2>4 DEF SeekWell
<1>3. Inv => SeekPointsAdvance
  BY DEF SeekWell, SyncsLie, InOrder, SeekPointsAdvance
<1>4. QED
  BY <1>1, <1>2, <1>3, PTL DEF Spec
=============================================================================
