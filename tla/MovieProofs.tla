----------------------------- MODULE MovieProofs -----------------------------
(***************************************************************************)
(* A movie from the encoder's last frame to the player, of any length, any *)
(* frames per chunk, any target that is a whole number of half frames,     *)
(* slipped or not, and any sound track: the partition loses no frame and   *)
(* does not drift, the sound is cut into slices that tile it and is heard  *)
(* where it was cut, and the player passes over no frame of a movie with   *)
(* sound.                                                                  *)
(*                                                                         *)
(* The writer's frames and its sound are the two halves of the plan: what  *)
(* the player may rely on follows from PlanStep and SliceStep, and the     *)
(* player's own steps add where it stands.                                 *)
(***************************************************************************)
EXTENDS ChunkPlayback, SequenceTheorems, FiniteSetTheorems,
        WellFoundedInduction, TLAPS

\* Padding never drops a frame, and asks the writer for at least one a chunk.
LEMMA PaddingKeeps ==
  ASSUME NEW n \in Nat, n >= 1, NEW fpc \in Nat, NEW audio \in BOOLEAN
  PROVE  /\ EffectiveFrames(n, fpc, audio) \in Nat
         /\ EffectiveFrames(n, fpc, audio) >= 1
         /\ PaddedCount(n, fpc, audio) \in Nat
         /\ PaddedCount(n, fpc, audio) >= n
<1>1. CASE SplitInTwo(n, fpc, audio)
  BY <1>1 DEF EffectiveFrames, PaddedCount, AtLeast, CeilDiv, MinimumFrames
<1>2. CASE ~ SplitInTwo(n, fpc, audio)
  <2> DEFINE chunk == EffectiveFrames(n, fpc, audio)
  <2>1. chunk \in Nat /\ chunk >= 1
    BY <1>2 DEF EffectiveFrames, Requested
  <2>2. PaddedCount(n, fpc, audio) = CeilDiv(n, chunk) * chunk
    BY <1>2 DEF PaddedCount
  <2>3. CeilDiv(n, chunk) * chunk \in Nat /\ CeilDiv(n, chunk) * chunk >= n
    <3>1. \A a \in Nat, b \in Nat \ {0} :
            (a + b - 1) \div b \in Nat /\ ((a + b - 1) \div b) * b >= a
      OBVIOUS
    <3>2. QED
      BY <2>1, <3>1 DEF CeilDiv
  <2>4. QED
    BY <2>1, <2>2, <2>3
<1>3. QED
  BY <1>1, <1>2

-----------------------------------------------------------------------------

(***************************************************************************)
(* The target leaves something for a second chunk, and the first chunk     *)
(* takes no more than the target.                                          *)
(***************************************************************************)
TwoChunksInv ==
  sound /\ count >= 2 =>
    /\ phase \in {"partition", "planned"} => Floor(1) < count
    /\ Len(chunks) = 1 => assigned < count

IInv ==
  /\ TypeOK
  /\ phase \in {"pad", "target"} => assigned = 0 /\ chunks = <<>>
  /\ Partition
  /\ TwoChunksInv

\* The end of the next chunk is past what is assigned and within the movie.
LEMMA EndInRange ==
  ASSUME IInv, assigned < count
  PROVE  ChunkEnd \in Nat /\ assigned < ChunkEnd /\ ChunkEnd <= count
<1>1. Floor(Len(chunks) + 1) \in Int
  <2>1. (Len(chunks) + 1) * halves \in Int
    BY DEF IInv, TypeOK
  <2>2. QED
    BY <2>1 DEF Floor, IInv, TypeOK
<1>2. QED
  BY <1>1 DEF ChunkEnd, AtLeast, IInv, TypeOK

\* A target that is not a whole movie leaves a frame for the second chunk.
LEMMA LeavesAFrame ==
  ASSUME NEW h \in Nat, NEW s \in {0, 1}, NEW c \in Nat, h - s < 2 * c
  PROVE  h \div 2 - s < c
<1>1. CASE s = 0
  BY <1>1
<1>2. CASE s = 1
  BY <1>2
<1>3. QED
  BY <1>1, <1>2

\* The target chosen leaves something for a second chunk of a movie with sound.
LEMMA TargetStep ==
  ASSUME IInv, ChooseTarget
  PROVE  IInv'
<1>1. PICK target \in Targets :
        IF sound /\ count >= 2 /\ OneChunk(target)
        THEN halves' = count /\ slip' = 0
        ELSE halves' = target.halves /\ slip' = target.slip
  BY DEF ChooseTarget
<1>2. target.halves \in Nat /\ target.halves >= 2 /\ target.slip \in {0, 1}
  BY PlanAssumption DEF Targets, Target, AtLeast, IInv, TypeOK
<1>3. /\ count \in Nat /\ count' = count
      /\ halves' \in Nat /\ halves' >= 2 /\ slip' \in {0, 1}
  BY <1>1, <1>2 DEF ChooseTarget, IInv, TypeOK
<1>4. halves' - slip' < 2 * count => Floor(1)' < count
  <2>1. Floor(1)' = halves' \div 2 - slip'
    BY <1>3 DEF Floor
  <2>2. QED
    BY <1>3, <2>1, LeavesAFrame
<1>5. sound /\ count >= 2 => halves' - slip' < 2 * count
  <2>1. CASE sound /\ count >= 2 /\ OneChunk(target)
    <3>1. halves' = count /\ slip' = 0 /\ count >= 2
      BY <1>1, <2>1
    <3>2. QED
      BY <1>3, <3>1
  <2>2. CASE ~ OneChunk(target)
    <3>1. halves' = target.halves /\ slip' = target.slip
      BY <1>1, <2>2
    <3>2. halves' - slip' < 2 * count
      BY <1>2, <1>3, <2>2, <3>1 DEF OneChunk
    <3>3. QED
      BY <3>2
  <2>3. QED
    BY <2>1, <2>2
<1>6. /\ UNCHANGED <<inputVars, count, requested, assigned, chunks>>
      /\ phase' = "partition" /\ phase = "target"
  BY DEF ChooseTarget
<1>7. TypeOK'
  BY <1>3, <1>6 DEF IInv, TypeOK, inputVars
<1>8. QED
  BY <1>4, <1>5, <1>6, <1>7
  DEF IInv, Partition, TwoChunksInv, Boundary, ChunkIndices, inputVars

\* Every chunk starts where the last one ended.
LEMMA ChunkStep ==
  ASSUME IInv, NextChunk
  PROVE  IInv'
<1> DEFINE chunk == [first |-> assigned, frames |-> ChunkEnd - assigned]
<1>1. /\ assigned \in Nat /\ assigned < count /\ count \in Nat
      /\ phase = "partition" /\ phase' = "partition"
      /\ chunks' = Append(chunks, chunk) /\ assigned' = ChunkEnd
      /\ UNCHANGED <<inputVars, count, requested, halves, slip, phase>>
  BY DEF NextChunk, IInv, TypeOK
<1>2. ChunkEnd \in Nat /\ assigned < ChunkEnd /\ ChunkEnd <= count
  BY <1>1, EndInRange
<1>3. chunk \in [first : Nat, frames : Nat] /\ chunk.frames >= 1
  BY <1>1, <1>2
<1>4. chunks \in Seq([first : Nat, frames : Nat])
  BY DEF IInv, TypeOK
<1>5. /\ chunks' \in Seq([first : Nat, frames : Nat])
      /\ Len(chunks') = Len(chunks) + 1
      /\ chunks'[Len(chunks) + 1] = chunk
      /\ \A i \in 1 .. Len(chunks) : chunks'[i] = chunks[i]
  BY <1>1, <1>3, <1>4
<1>6. TypeOK'
  BY <1>1, <1>2, <1>5 DEF IInv, TypeOK, inputVars
<1>7. Partition'
  <2>1. assigned = IF chunks = <<>> THEN 0 ELSE Boundary(Len(chunks)) + 1
    BY DEF IInv, Partition
  <2>2. Len(chunks) \in Nat /\ (chunks = <<>> <=> Len(chunks) = 0)
    BY <1>4
  <2>3. \A i \in 1 .. Len(chunks) : chunks[i].first \in Int /\ chunks[i].frames \in Int
    <3>1. ASSUME NEW i \in 1 .. Len(chunks) PROVE chunks[i] \in [first : Nat, frames : Nat]
      BY <1>4, ElementOfSeq
    <3>2. QED
      BY <3>1
  <2>4. /\ Len(chunks) = 0 => assigned = 0
        /\ Len(chunks) # 0 =>
             assigned = chunks[Len(chunks)].first + chunks[Len(chunks)].frames
    <3>1. CASE Len(chunks) = 0
      BY <2>1, <2>2, <3>1
    <3>2. CASE Len(chunks) # 0
      <4>1. Len(chunks) \in 1 .. Len(chunks)
        BY <2>2, <3>2
      <4>2. /\ chunks[Len(chunks)].first \in Int
            /\ chunks[Len(chunks)].frames \in Int
        BY <2>3, <4>1
      <4>3. assigned = Boundary(Len(chunks)) + 1
        BY <2>1, <2>2, <3>2
      <4>4. assigned =
              (chunks[Len(chunks)].first + chunks[Len(chunks)].frames - 1) + 1
        BY <4>3 DEF Boundary
      <4>5. QED
        BY <3>2, <4>2, <4>4
    <3>3. QED
      BY <3>1, <3>2
  <2>5. ASSUME NEW i \in 1 .. Len(chunks) + 1
        PROVE  /\ chunks'[i].frames >= 1
               /\ chunks'[i].first = IF i = 1 THEN 0 ELSE Boundary(i - 1)' + 1
    <3>1. CASE i = Len(chunks) + 1
      <4>1. i # 1 => Boundary(i - 1)' + 1 = assigned
        <5>1. SUFFICES ASSUME i # 1 PROVE Boundary(i - 1)' + 1 = assigned
          OBVIOUS
        <5>2. i - 1 = Len(chunks) /\ i - 1 \in 1 .. Len(chunks)
          BY <2>2, <3>1, <5>1
        <5>3. Boundary(i - 1)' =
                chunks[Len(chunks)].first + chunks[Len(chunks)].frames - 1
          BY <1>5, <5>2 DEF Boundary
        <5>4. QED
          BY <2>3, <2>4, <5>2, <5>3
      <4>2. chunks'[i] = chunk /\ chunk.first = assigned
        BY <1>5, <3>1
      <4>3. QED
        BY <1>3, <2>2, <2>4, <3>1, <4>1, <4>2
    <3>2. CASE i \in 1 .. Len(chunks)
      <4>1. /\ chunks[i].frames >= 1
            /\ chunks[i].first = IF i = 1 THEN 0 ELSE Boundary(i - 1) + 1
        BY <3>2 DEF IInv, Partition, ChunkIndices
      <4>2. ASSUME i # 1 PROVE Boundary(i - 1)' = Boundary(i - 1)
        <5>1. i - 1 \in 1 .. Len(chunks)
          BY <2>2, <3>2, <4>2
        <5>2. QED
          BY <1>5, <5>1 DEF Boundary
      <4>3. QED
        BY <1>5, <3>2, <4>1, <4>2
    <3>3. QED
      BY <2>2, <3>1, <3>2
  <2>6. assigned' = chunks'[Len(chunks) + 1].first + chunks'[Len(chunks) + 1].frames
    BY <1>1, <1>2, <1>5
  <2>7. assigned' = Boundary(Len(chunks))' + 1
    BY <1>1, <1>2, <1>5, <2>2, <2>6 DEF Boundary
  <2>8. ChunkIndices' = 1 .. Len(chunks) + 1 /\ chunks' # <<>>
    BY <1>5, <2>2 DEF ChunkIndices
  <2>9. QED
    BY <1>1, <2>5, <2>7, <2>8 DEF Partition
<1>8. TwoChunksInv'
  <2>1. Floor(1)' = Floor(1) /\ Floor(1) \in Int
    BY <1>1 DEF Floor, IInv, TypeOK
  <2>2. Len(chunks) \in Nat /\ (chunks = <<>> <=> Len(chunks) = 0)
    BY <1>4
  <2>3. Len(chunks') = 1 => Len(chunks) = 0 /\ chunks = <<>>
    <3>1. Len(chunks') = Len(chunks) + 1
      BY <1>5
    <3>2. Len(chunks) \in Nat
      BY <2>2
    <3>3. \A a, b \in Nat : a = b + 1 /\ a = 1 => b = 0
      OBVIOUS
    <3>4. Len(chunks') = 1 => Len(chunks) = 0
      BY <3>1, <3>2, <3>3
    <3>5. QED
      BY <2>2, <3>4
  <2>4. chunks = <<>> => assigned = 0
    BY DEF IInv, Partition
  <2>5. ASSUME Floor(1) < count, count >= 2, Len(chunks') = 1
        PROVE  assigned' < count
    <3>1. Len(chunks) = 0 /\ assigned = 0
      BY <2>3, <2>4, <2>5
    <3>2. ChunkEnd \in {1, Floor(1)} /\ 1 < count
      BY <1>1, <2>1, <2>5, <3>1 DEF ChunkEnd, AtLeast
    <3>3. QED
      BY <1>1, <2>5, <3>2
  <2>6. sound /\ count >= 2 => Floor(1) < count
    BY <1>1 DEF IInv, TwoChunksInv
  <2>7. count' = count /\ sound' = sound
    BY <1>1 DEF inputVars
  <2>8. QED
    BY <2>1, <2>5, <2>6, <2>7 DEF TwoChunksInv
<1>9. QED
  BY <1>1, <1>5, <1>6, <1>7, <1>8 DEF IInv

\* One step keeps the inductive invariant.
LEMMA PlanStep ==
  ASSUME IInv, [Next]_vars
  PROVE  IInv'
<1>1. CASE PadSink
  <2>1. /\ count' \in Nat /\ count' >= real
        /\ requested' \in Nat
        /\ real \in 1 .. MaxFrames
    BY <1>1, PaddingKeeps, PlanAssumption DEF PadSink, IInv, TypeOK
  <2>2. QED
    BY <1>1, <2>1 DEF PadSink, IInv, TypeOK, Partition, TwoChunksInv, Boundary,
       ChunkIndices, inputVars
<1>2. CASE Planned
  BY <1>2 DEF Planned, IInv, TypeOK, Partition, TwoChunksInv, Boundary,
     ChunkIndices, inputVars, Floor
<1>3. CASE UNCHANGED vars
  BY <1>3 DEF vars, IInv, TypeOK, Partition, TwoChunksInv, Boundary,
     ChunkIndices, inputVars, Floor
<1>4. QED
  BY <1>1, <1>2, <1>3, TargetStep, ChunkStep DEF Next

\* The partition starts empty.
LEMMA PlanInit == Init => IInv
<1> SUFFICES ASSUME Init PROVE IInv
  OBVIOUS
<1>1. chunks \in Seq([first : Nat, frames : Nat]) /\ Len(chunks) = 0
  BY DEF Init
<1>2. TypeOK
  BY <1>1, PlanAssumption DEF Init, TypeOK, ChunkIndices
<1>3. QED
  BY <1>1, <1>2 DEF Init, IInv, Partition, TwoChunksInv, ChunkIndices

\* The chunks follow each other without a gap, none is empty, and a finished
\* plan holds every frame.
THEOREM PartitionCorrect == Spec => [](TypeOK /\ Partition)
<1>1. IInv => TypeOK /\ Partition
  BY DEF IInv
<1>2. QED
  BY <1>1, PlanInit, PlanStep, PTL DEF Spec

\* A movie with sound and two frames or more never gets a single chunk.
THEOREM TwoChunks == Spec => []SoundHasTwoChunks
<1>1. IInv => SoundHasTwoChunks
  <2> SUFFICES ASSUME IInv, phase = "planned", sound, count >= 2
               PROVE  Len(chunks) >= 2
    BY DEF SoundHasTwoChunks
  <2>1. assigned = count /\ count \in Nat
    BY DEF IInv, Partition, TypeOK
  <2>2. Len(chunks) # 1
    BY <2>1 DEF IInv, TwoChunksInv
  <2>3. Len(chunks) # 0
    <3>1. chunks # <<>>
      BY <2>1 DEF IInv, Partition
    <3>2. QED
      BY <3>1 DEF IInv, TypeOK
  <2>4. Len(chunks) \in Nat
    BY DEF IInv, TypeOK
  <2>5. \A n \in Nat : n # 0 /\ n # 1 => n >= 2
    OBVIOUS
  <2>6. QED
    BY <2>2, <2>3, <2>4, <2>5
<1>2. QED
  BY <1>1, PlanInit, PlanStep, PTL DEF Spec

-----------------------------------------------------------------------------
(* Where the chunks end.                                                   *)

(***************************************************************************)
(* A target that slips was a whole number of frames, two or more, so that  *)
(* each multiple lies past the one before it and every chunk that does not *)
(* end the movie ends at its multiple.  No chunk is longer than the movie. *)
(***************************************************************************)
DriftInv ==
  /\ slip = 1 => halves >= 4 /\ \E n \in Nat : halves = 2 * n
  /\ \A i \in ChunkIndices : chunks[i].frames <= count
  /\ \A i \in ChunkIndices : i < Len(chunks) => Boundary(i) + 1 = Floor(i)
  /\ chunks # <<>> /\ assigned < count => assigned = Floor(Len(chunks))

\* The next multiple is past this one, and the first leaves a frame.
LEMMA FloorGrows ==
  ASSUME IInv, DriftInv, NEW i \in Nat
  PROVE  /\ Floor(i) \in Int
         /\ Floor(i) < Floor(i + 1)
         /\ Floor(1) >= 1
<1> DEFINE p == i * halves
<1>1. halves \in Nat /\ halves >= 2 /\ slip \in {0, 1} /\ (slip = 1 => halves >= 4)
  BY DEF IInv, TypeOK, DriftInv
<1>2. p \in Nat /\ (i + 1) * halves = p + halves /\ 1 * halves = halves
  BY <1>1
<1> HIDE DEF p
<1>3. p \div 2 \in Nat /\ (p + halves) \div 2 >= p \div 2 + 1
  BY <1>1, <1>2
<1>4. Floor(i) = p \div 2 - slip /\ Floor(i + 1) = (p + halves) \div 2 - slip
  BY <1>2 DEF Floor, p
<1>5. Floor(1) = halves \div 2 - slip
  BY <1>2 DEF Floor
<1>6. p \div 2 - slip \in Int /\ p \div 2 - slip < (p + halves) \div 2 - slip
  BY <1>1, <1>2, <1>3
<1>7. halves \div 2 - slip >= 1
  BY <1>1
<1>8. QED
  BY <1>4, <1>5, <1>6, <1>7

\* The chunks but the last end at their multiples.
LEMMA DriftStep ==
  ASSUME IInv, DriftInv, [Next]_vars
  PROVE  DriftInv'
<1>1. CASE PadSink
  <2>1. chunks' = <<>> /\ slip' = slip /\ halves' = halves
    BY <1>1 DEF PadSink, IInv
  <2>2. QED
    BY <2>1 DEF DriftInv, ChunkIndices
<1>2. CASE ChooseTarget
  <2>1. chunks' = <<>>
    BY <1>2 DEF ChooseTarget, IInv
  <2>2. PICK target \in Targets :
          IF sound /\ count >= 2 /\ OneChunk(target)
          THEN halves' = count /\ slip' = 0
          ELSE halves' = target.halves /\ slip' = target.slip
    BY <1>2 DEF ChooseTarget
  <2>3. ASSUME slip' = 1
        PROVE  halves' >= 4 /\ \E n \in Nat : halves' = 2 * n
    <3>1. halves' = target.halves /\ target.slip = 1
      BY <2>2, <2>3
    <3>2. requested # 0 /\ requested # 1 /\ target.halves = 2 * requested
      BY <3>1 DEF Targets, Target
    <3>3. requested \in Nat
      BY DEF IInv, TypeOK
    <3>4. QED
      BY <3>1, <3>2, <3>3
  <2>4. QED
    BY <2>1, <2>3 DEF DriftInv, ChunkIndices
<1>3. CASE NextChunk
  <2> DEFINE n == Len(chunks)
             chunk == [first |-> assigned, frames |-> ChunkEnd - assigned]
  <2>1. /\ assigned < count /\ chunks' = Append(chunks, chunk)
        /\ assigned' = ChunkEnd /\ count' = count
        /\ halves' = halves /\ slip' = slip
    BY <1>3 DEF NextChunk
  <2>2. ChunkEnd \in Nat /\ assigned < ChunkEnd /\ ChunkEnd <= count
        /\ assigned \in Nat /\ count \in Nat
    BY <2>1, EndInRange DEF IInv, TypeOK
  <2>3. chunks \in Seq([first : Nat, frames : Nat]) /\ n \in Nat
        /\ (chunks = <<>> <=> n = 0)
    BY DEF IInv, TypeOK
  <2>4. chunk \in [first : Nat, frames : Nat]
    BY <2>2
  <2>5. /\ Len(chunks') = n + 1
        /\ chunks'[n + 1] = chunk
        /\ \A i \in 1 .. n : chunks'[i] = chunks[i]
    BY <2>1, <2>3, <2>4
  <2>6. \A i \in Nat : Floor(i)' = Floor(i)
    BY <2>1 DEF Floor
  <2>7. \A i \in 1 .. n : Boundary(i)' = Boundary(i)
    BY <2>5 DEF Boundary
  <2>8. ASSUME NEW i \in 1 .. n
        PROVE  Boundary(i) + 1 = Floor(i)
    <3>1. CASE i < n
      BY <3>1 DEF DriftInv, ChunkIndices
    <3>2. CASE i = n
      <4>1. chunks # <<>>
        BY <2>3, <3>2
      <4>2. assigned = Floor(n) /\ assigned = Boundary(n) + 1
        BY <2>1, <4>1 DEF DriftInv, IInv, Partition
      <4>3. QED
        BY <3>2, <4>2
    <3>3. QED
      BY <2>3, <3>1, <3>2
  <2>9. ASSUME ChunkEnd < count
        PROVE  ChunkEnd = Floor(n + 1)
    <3>1. ChunkEnd = AtLeast(assigned + 1, Floor(n + 1))
      BY <2>2, <2>9 DEF ChunkEnd
    <3>2. /\ Floor(n) \in Int /\ Floor(n + 1) \in Int
          /\ Floor(n) < Floor(n + 1) /\ Floor(1) >= 1
      BY <2>3, FloorGrows
    <3>3. assigned + 1 <= Floor(n + 1)
      <4>1. CASE n = 0
        <5>1. assigned = 0
          BY <2>3, <4>1 DEF IInv, Partition
        <5>2. QED
          BY <3>2, <4>1, <5>1
      <4>2. CASE n # 0
        <5>1. assigned = Floor(n)
          BY <2>1, <2>3, <4>2 DEF DriftInv
        <5>2. QED
          BY <3>2, <5>1
      <4>3. QED
        BY <4>1, <4>2
    <3>4. QED
      BY <2>2, <3>1, <3>2, <3>3 DEF AtLeast
  <2>10. \A i \in ChunkIndices' : i < Len(chunks') => Boundary(i)' + 1 = Floor(i)'
    <3>1. SUFFICES ASSUME NEW i \in 1 .. n + 1, i < n + 1
                   PROVE  Boundary(i)' + 1 = Floor(i)'
      BY <2>5 DEF ChunkIndices
    <3>2. i \in 1 .. n /\ i \in Nat
      BY <2>3, <3>1
    <3>3. QED
      BY <2>6, <2>7, <2>8, <3>2
  <2>11. assigned' < count' => assigned' = Floor(Len(chunks))'
    <3>1. Floor(Len(chunks))' = Floor(n + 1)
      BY <2>1, <2>5 DEF Floor
    <3>2. QED
      BY <2>1, <2>9, <3>1
  <2>12. \A i \in ChunkIndices' : chunks'[i].frames <= count'
    <3>1. SUFFICES ASSUME NEW i \in 1 .. n + 1
                   PROVE  chunks'[i].frames <= count
      BY <2>1, <2>5 DEF ChunkIndices
    <3>2. CASE i = n + 1
      BY <2>2, <2>5, <3>2
    <3>3. CASE i \in 1 .. n
      BY <2>5, <3>3 DEF DriftInv, ChunkIndices
    <3>4. QED
      BY <2>3, <3>2, <3>3
  <2>13. QED
    BY <2>1, <2>10, <2>11, <2>12 DEF DriftInv
<1>4. CASE Planned
  BY <1>4 DEF Planned, DriftInv, ChunkIndices, Boundary, Floor
<1>5. CASE UNCHANGED vars
  BY <1>5 DEF vars, DriftInv, ChunkIndices, Boundary, Floor
<1>6. QED
  BY <1>1, <1>2, <1>3, <1>4, <1>5 DEF Next

\* A multiple of the target and the frame below it.
LEMMA EarlyEnd ==
  ASSUME IInv, DriftInv, NEW i \in Nat
  PROVE  i * halves - 2 * Floor(i) \in IF slip = 1 THEN {2} ELSE {0, 1}
<1> DEFINE p == i * halves
<1>1. halves \in Nat /\ slip \in {0, 1} /\ Floor(i) = p \div 2 - slip
  BY DEF IInv, TypeOK, Floor
<1>2. p \in Nat
  BY <1>1
<1>3. CASE slip = 0
  <2> HIDE DEF p
  <2>1. p - 2 * (p \div 2) \in {0, 1} /\ p \div 2 \in Nat
    BY <1>2
  <2>2. QED
    BY <1>1, <1>2, <1>3, <2>1 DEF p
<1>4. CASE slip = 1
  <2>1. PICK n \in Nat : halves = 2 * n
    BY <1>4 DEF DriftInv
  <2> DEFINE q == i * n
  <2>2. q \in Nat /\ p = 2 * q
    BY <2>1
  <2> HIDE DEF p, q
  <2>3. p \div 2 = q
    BY <2>2
  <2>4. QED
    BY <1>1, <1>4, <2>2, <2>3 DEF p
<1>5. QED
  BY <1>1, <1>3, <1>4

LEMMA DriftInit == Init => DriftInv
<1> SUFFICES ASSUME Init PROVE DriftInv
  OBVIOUS
<1>1. chunks = <<>> /\ slip = 0
  BY DEF Init
<1>2. QED
  BY <1>1 DEF DriftInv, ChunkIndices

\* The rounding never accumulates, whatever the target in half frames, over
\* any number of chunks.
THEOREM DriftBounded == Spec => []NoDrift
<1>1. ASSUME IInv, DriftInv
      PROVE  NoDrift
  <2>1. SUFFICES ASSUME NEW i \in 1 .. Len(chunks) - 1
                 PROVE  i * halves - 2 * (Boundary(i) + 1)
                          \in IF slip = 1 THEN {2} ELSE {0, 1}
    BY DEF NoDrift
  <2>2. Len(chunks) \in Nat
    BY <1>1 DEF IInv, TypeOK
  <2>3. i \in ChunkIndices /\ i < Len(chunks) /\ i \in Nat
    BY <2>2 DEF ChunkIndices
  <2>4. Boundary(i) + 1 = Floor(i)
    BY <1>1, <2>3 DEF DriftInv
  <2>5. QED
    BY <1>1, <2>3, <2>4, EarlyEnd
<1>2. QED
  BY <1>1, PlanInit, PlanStep, DriftInit, DriftStep, PTL DEF Spec

-----------------------------------------------------------------------------
(* A padded movie is whole chunks.                                         *)

(***************************************************************************)
(* After the padding the movie is a whole number of the chunks the writer  *)
(* is asked for, two at least if there is sound, so that the target is     *)
(* what was asked for and the chunks so far are of that length.            *)
(***************************************************************************)
UniformInv ==
  /\ padded /\ phase # "pad" =>
       /\ requested >= 1
       /\ \E m \in Nat : count = m * requested
       /\ sound => count > requested
  /\ padded /\ phase \in {"partition", "planned"} => halves = 2 * requested
  /\ padded /\ slip = 0 /\ chunks # <<>> =>
       /\ assigned = Len(chunks) * requested
       /\ \A i \in ChunkIndices : chunks[i].frames = requested

\* The padding is whole chunks, and a movie with sound gets two.
LEMMA PaddingWhole ==
  ASSUME NEW n \in Nat, n >= 1, NEW fpc \in Nat, NEW audio \in BOOLEAN
  PROVE  /\ \E m \in Nat : PaddedCount(n, fpc, audio)
                             = m * EffectiveFrames(n, fpc, audio)
         /\ audio => PaddedCount(n, fpc, audio) > EffectiveFrames(n, fpc, audio)
<1> DEFINE chunk == EffectiveFrames(n, fpc, audio)
<1>1. /\ chunk \in Nat /\ chunk >= 1
      /\ PaddedCount(n, fpc, audio) \in Nat /\ PaddedCount(n, fpc, audio) >= n
  BY PaddingKeeps
<1>2. CASE SplitInTwo(n, fpc, audio)
  <2>1. PaddedCount(n, fpc, audio) = 2 * chunk
    BY <1>2 DEF PaddedCount
  <2>2. QED
    BY <1>1, <2>1
<1>3. CASE ~ SplitInTwo(n, fpc, audio)
  <2>1. /\ chunk = Requested(n, fpc)
        /\ PaddedCount(n, fpc, audio) = CeilDiv(n, chunk) * chunk
    BY <1>3 DEF PaddedCount, EffectiveFrames
  <2>2. CeilDiv(n, chunk) \in Nat
    BY <1>1 DEF CeilDiv
  <2>3. audio => n > chunk
    BY <1>1, <1>3, <2>1 DEF SplitInTwo
  <2>4. QED
    BY <1>1, <2>1, <2>2, <2>3
<1>4. QED
  BY <1>2, <1>3

\* Below a multiple of r there is room for another r.
LEMMA RoomForOne ==
  ASSUME NEW a \in Nat, NEW m \in Nat, NEW r \in Nat, a * r < m * r
  PROVE  a * r + r <= m * r
<1>1. a < m
  <2>1. ASSUME m <= a
        PROVE  FALSE
    <3>1. PICK d \in Nat : a = m + d
      <4>1. a - m \in Nat /\ a = m + (a - m)
        BY <2>1
      <4>2. QED
        BY <4>1
    <3>2. a * r = m * r + d * r
      BY <3>1
    <3>3. d * r \in Nat /\ m * r \in Nat
      OBVIOUS
    <3>4. QED
      BY <3>2, <3>3
  <2>2. QED
    BY <2>1
<1>2. PICK d \in Nat : m = a + 1 + d
  <2>1. m - a - 1 \in Nat /\ m = a + 1 + (m - a - 1)
    BY <1>1
  <2>2. QED
    BY <2>1
<1>3. m * r = a * r + r + d * r
  BY <1>2
<1>4. d * r \in Nat /\ a * r \in Nat
  OBVIOUS
<1>5. QED
  BY <1>3, <1>4

\* The chunks of a padded movie are of the length asked for.
LEMMA UniformStep ==
  ASSUME IInv, UniformInv, [Next]_vars
  PROVE  UniformInv'
<1>1. CASE PadSink
  <2>1. chunks' = <<>> /\ phase' = "target" /\ padded' = padded /\ sound' = sound
    BY <1>1 DEF PadSink, IInv, inputVars
  <2>2. ASSUME padded
        PROVE  /\ requested' >= 1
               /\ \E m \in Nat : count' = m * requested'
               /\ sound => count' > requested'
    <3>1. /\ count' = PaddedCount(real, requested, sound)
          /\ requested' = EffectiveFrames(real, requested, sound)
      BY <1>1, <2>2 DEF PadSink
    <3>2. /\ real \in Nat /\ real >= 1 /\ requested \in Nat /\ sound \in BOOLEAN
      BY PlanAssumption DEF IInv, TypeOK
    <3>3. QED
      BY <3>1, <3>2, PaddingKeeps, PaddingWhole
  <2>3. QED
    BY <2>1, <2>2 DEF UniformInv
<1>2. CASE ChooseTarget
  <2>1. /\ chunks' = <<>> /\ phase = "target" /\ phase' = "partition"
        /\ UNCHANGED <<padded, sound, count, requested>>
    BY <1>2 DEF ChooseTarget, IInv, inputVars
  <2>2. PICK target \in Targets :
          IF sound /\ count >= 2 /\ OneChunk(target)
          THEN halves' = count /\ slip' = 0
          ELSE halves' = target.halves /\ slip' = target.slip
    BY <1>2 DEF ChooseTarget
  <2>3. ASSUME padded
        PROVE  halves' = 2 * requested
    <3>1. requested \in Nat /\ requested >= 1 /\ count \in Nat
          /\ (sound => count > requested)
      BY <2>1, <2>3 DEF UniformInv, IInv, TypeOK
    <3>2. target.halves = 2 * requested /\ target.slip \in {0, 1}
      BY <3>1 DEF Targets, Target
    <3>3. ~ (sound /\ OneChunk(target))
      BY <3>1, <3>2 DEF OneChunk
    <3>4. QED
      BY <2>2, <3>2, <3>3
  <2>4. QED
    BY <2>1, <2>3 DEF UniformInv
<1>3. CASE NextChunk
  <2> DEFINE n == Len(chunks)
             chunk == [first |-> assigned, frames |-> ChunkEnd - assigned]
  <2>1. /\ assigned < count /\ chunks' = Append(chunks, chunk)
        /\ assigned' = ChunkEnd /\ phase = "partition"
        /\ UNCHANGED <<padded, sound, count, requested, halves, slip, phase>>
    BY <1>3 DEF NextChunk, inputVars
  <2>2. chunks \in Seq([first : Nat, frames : Nat]) /\ n \in Nat
        /\ (chunks = <<>> <=> n = 0)
    BY DEF IInv, TypeOK
  <2>3. ChunkEnd \in Nat /\ assigned < ChunkEnd /\ ChunkEnd <= count
        /\ assigned \in Nat /\ count \in Nat
    BY <2>1, EndInRange DEF IInv, TypeOK
  <2>4. chunk \in [first : Nat, frames : Nat]
    BY <2>3
  <2>5. /\ Len(chunks') = n + 1 /\ chunks'[n + 1] = chunk
        /\ \A i \in 1 .. n : chunks'[i] = chunks[i]
    BY <2>1, <2>2, <2>4
  <2>6. ASSUME padded, slip = 0
        PROVE  /\ assigned' = Len(chunks') * requested
               /\ \A i \in ChunkIndices' : chunks'[i].frames = requested
    <3>1. requested \in Nat /\ requested >= 1 /\ halves = 2 * requested
      BY <2>1, <2>6 DEF UniformInv, IInv, TypeOK
    <3>2. PICK m \in Nat : count = m * requested
      BY <2>1, <2>6 DEF UniformInv
    <3>3. assigned = n * requested
      <4>1. CASE n = 0
        <5>1. assigned = 0
          BY <2>2, <4>1 DEF IInv, Partition
        <5>2. QED
          BY <3>1, <4>1, <5>1
      <4>2. CASE n # 0
        BY <2>2, <2>6, <4>2 DEF UniformInv
      <4>3. QED
        BY <4>1, <4>2
    <3>4. n * requested + requested <= count
      BY <2>1, <2>2, <3>1, <3>2, <3>3, RoomForOne
    <3>5. Floor(n + 1) = n * requested + requested
      <4> DEFINE q == n * requested + requested
      <4>1. q \in Nat /\ (n + 1) * halves = 2 * q
        BY <2>2, <3>1
      <4> HIDE DEF q
      <4>2. (2 * q) \div 2 - 0 = q
        BY <4>1
      <4>3. QED
        BY <2>6, <4>1, <4>2 DEF Floor, q
    <3>6. ChunkEnd = n * requested + requested
      <4> DEFINE q == n * requested
      <4>1. q \in Nat
        BY <2>2, <3>1
      <4> HIDE DEF q
      <4>2. /\ assigned = q /\ q + requested <= count
            /\ Floor(n + 1) = q + requested
        BY <3>3, <3>4, <3>5 DEF q
      <4>3. QED
        BY <2>3, <3>1, <4>1, <4>2 DEF ChunkEnd, AtLeast, q
    <3>7. n * requested \in Nat
      BY <2>2, <3>1
    <3>8. chunk.frames = requested
      BY <3>1, <3>3, <3>6, <3>7
    <3>9. assigned' = (n + 1) * requested
      BY <2>1, <2>2, <3>1, <3>6
    <3>10. \A i \in 1 .. n : chunks[i].frames = requested
      BY <2>2, <2>6 DEF UniformInv, ChunkIndices
    <3>11. \A i \in 1 .. n + 1 : chunks'[i].frames = requested
      <4>1. TAKE i \in 1 .. n + 1
      <4>2. i \in 1 .. n \/ i = n + 1
        BY <2>2
      <4>3. QED
        BY <2>5, <3>8, <3>10, <4>2
    <3>12. QED
      BY <2>5, <3>9, <3>11 DEF ChunkIndices
  <2>7. QED
    BY <2>1, <2>6 DEF UniformInv
<1>4. CASE Planned
  BY <1>4 DEF Planned, UniformInv, ChunkIndices, inputVars
<1>5. CASE UNCHANGED vars
  BY <1>5 DEF vars, UniformInv, ChunkIndices, inputVars
<1>6. QED
  BY <1>1, <1>2, <1>3, <1>4, <1>5 DEF Next

LEMMA UniformStart == Init => UniformInv
BY DEF Init, UniformInv

\* A movie that was padded gets only full chunks, unless the target slips.
THEOREM PaddedIsUniform == Spec => []UniformUnlessSlipped
<1>1. ASSUME IInv, UniformInv
      PROVE  UniformUnlessSlipped
  <2>1. SUFFICES ASSUME phase = "planned", padded, slip = 0,
                        NEW i \in ChunkIndices
                 PROVE  chunks[i].frames = requested
    BY DEF UniformUnlessSlipped
  <2>2. chunks # <<>>
    BY DEF ChunkIndices
  <2>3. QED
    BY <1>1, <2>1, <2>2 DEF UniformInv
<1>2. QED
  BY <1>1, PlanInit, PlanStep, UniformStart, UniformStep, PTL DEF Spec

-----------------------------------------------------------------------------
(* The sound of the movie.                                                 *)

\* The frame a chunk ends before, 0 before the first.
EndOf(n) == IF n = 0 THEN 0 ELSE chunks[n].first + chunks[n].frames

SliceType == [start : Int, units : Int]

(***************************************************************************)
(* Every chunk sliced so far was cut at its two ends, and the cuts already *)
(* made are not made again: the next end is past all of them.              *)
(***************************************************************************)
SliceInv ==
  /\ adpcm \in BOOLEAN /\ stereo \in BOOLEAN /\ track \in Nat /\ ratio \in Ratios
  /\ slices \in Seq(SliceType) /\ Len(slices) <= Len(chunks)
  /\ slices # <<>> => phase = "planned" /\ sound
  /\ \A frame \in DOMAIN cut :
       cut[frame] \in Int /\ frame \in Nat /\ frame <= EndOf(Len(slices))
  /\ \A n \in 0 .. Len(slices) : EndOf(n) \in DOMAIN cut
  /\ cut[0] = 0
  /\ \A i \in 1 .. Len(slices) :
       slices[i] = Slice(cut[EndOf(i - 1)], cut[EndOf(i)])

RegionType == [from : Int, copied : Int, silent : Int, state : Int, bytes : Int]

(***************************************************************************)
(* Nothing is stored before all is sliced, the predictor is that after the *)
(* slices stored, and a region's bytes are those of its slice.             *)
(***************************************************************************)
StoreInv ==
  /\ stored \in Seq(RegionType) /\ Len(stored) <= Len(slices)
  /\ stored # <<>> => Sliced
  /\ adpcm => predictor = IF Len(stored) = 0 THEN 0
                          ELSE slices[Len(stored)].start
                                 + slices[Len(stored)].units
  /\ \A i \in 1 .. Len(stored) :
       /\ adpcm => stored[i].state = slices[i].start
       /\ stored[i].bytes = IF adpcm THEN Header + CodeBytes(slices[i].units)
                            ELSE slices[i].units

SoundInv == IInv /\ SliceInv /\ StoreInv

\* Chunk ends grow by at least a frame, and the last is what is assigned.
LEMMA EndsGrow ==
  ASSUME IInv, NEW n \in 0 .. Len(chunks)
  PROVE  /\ EndOf(n) \in Nat
         /\ n < Len(chunks) => /\ chunks[n + 1].first = EndOf(n)
                               /\ EndOf(n) < EndOf(n + 1)
         /\ n = Len(chunks) => assigned = EndOf(n)
<1>1. chunks \in Seq([first : Nat, frames : Nat]) /\ Len(chunks) \in Nat
      /\ (chunks = <<>> <=> Len(chunks) = 0)
  BY DEF IInv, TypeOK
<1>2. \A i \in 1 .. Len(chunks) :
        /\ chunks[i].first \in Nat /\ chunks[i].frames \in Nat
        /\ chunks[i].frames >= 1
        /\ chunks[i].first = IF i = 1 THEN 0 ELSE Boundary(i - 1) + 1
  <2>1. TAKE i \in 1 .. Len(chunks)
  <2>2. chunks[i] \in [first : Nat, frames : Nat]
    BY <1>1, ElementOfSeq
  <2>3. QED
    BY <2>2 DEF IInv, Partition, ChunkIndices
<1>3. EndOf(n) \in Nat
  BY <1>1, <1>2 DEF EndOf
<1>4. n # 0 => Boundary(n) + 1 = EndOf(n)
  <2>1. SUFFICES ASSUME n # 0 PROVE Boundary(n) + 1 = EndOf(n)
    OBVIOUS
  <2>2. n \in 1 .. Len(chunks)
    BY <1>1, <2>1
  <2>3. chunks[n].first \in Nat /\ chunks[n].frames \in Nat
    BY <1>2, <2>2
  <2>4. QED
    BY <2>1, <2>3 DEF Boundary, EndOf
<1>5. ASSUME n < Len(chunks)
      PROVE  chunks[n + 1].first = EndOf(n) /\ EndOf(n) < EndOf(n + 1)
  <2>1. n + 1 \in 1 .. Len(chunks) /\ n + 1 # 0 /\ n + 1 - 1 = n
        /\ (n + 1 = 1 <=> n = 0)
    BY <1>1, <1>5
  <2>2. chunks[n + 1].first = EndOf(n)
    <3>1. chunks[n + 1].first = IF n + 1 = 1 THEN 0 ELSE Boundary(n + 1 - 1) + 1
      BY <1>2, <2>1
    <3>2. CASE n = 0
      BY <2>1, <3>1, <3>2 DEF EndOf
    <3>3. CASE n # 0
      BY <1>4, <2>1, <3>1, <3>3
    <3>4. QED
      BY <3>2, <3>3
  <2>3. EndOf(n + 1) = EndOf(n) + chunks[n + 1].frames
    BY <2>1, <2>2 DEF EndOf
  <2>4. chunks[n + 1].frames \in Nat /\ chunks[n + 1].frames >= 1
    BY <1>2, <2>1
  <2>5. QED
    BY <1>3, <2>2, <2>3, <2>4
<1>6. ASSUME n = Len(chunks)
      PROVE  assigned = EndOf(n)
  <2>1. assigned = IF chunks = <<>> THEN 0 ELSE Boundary(Len(chunks)) + 1
    BY DEF IInv, Partition
  <2>2. QED
    BY <1>1, <1>4, <1>6, <2>1 DEF EndOf
<1>7. QED
  BY <1>3, <1>5, <1>6

\* A cut is a whole unit, and a clamped one stays so.
LEMMA CutsWhole ==
  ASSUME SliceInv, NEW end \in Nat, NEW to \in Cuts(end)
  PROVE  to \in Int
<1>1. ratio.num \in Nat /\ ratio.den \in Nat /\ ratio.den >= 1
  BY SoundAssumption DEF SliceInv
<1> DEFINE exact == 2 * end * ratio.num + ratio.den
<1>2. exact \in Nat /\ 2 * ratio.den \in Nat /\ 2 * ratio.den >= 1
  BY <1>1
<1> HIDE DEF exact
<1>3. exact \div (2 * ratio.den) \in Int
  BY <1>2
<1>4. to = exact \div (2 * ratio.den) \/ to = exact \div (2 * ratio.den) - 1
  BY DEF Cuts, exact
<1>5. QED
  BY <1>3, <1>4

LEMMA SliceWhole ==
  ASSUME SliceInv, NEW from \in Int, NEW to \in Int
  PROVE  /\ Slice(from, to) \in SliceType
         /\ Slice(from, to).start = Clamp(from)
         /\ Slice(from, to).start + Slice(from, to).units = Clamp(to)
<1>1. Clamp(from) \in Int /\ Clamp(to) \in Int
  BY DEF Clamp, AtMost, SliceInv
<1>2. QED
  BY <1>1 DEF Slice, SliceType

\* The slices of the invariant tile the track.
LEMMA SlicesMeet ==
  ASSUME IInv, SliceInv
  PROVE  SlicesTile
<1>1. slices \in Seq(SliceType) /\ Len(slices) \in Nat /\ Len(chunks) \in Nat
      /\ Len(slices) <= Len(chunks)
  BY DEF SliceInv, IInv, TypeOK
<1>2. ASSUME NEW i \in 1 .. Len(slices)
      PROVE  /\ slices[i].start = Clamp(cut[EndOf(i - 1)])
             /\ slices[i].start + slices[i].units = Clamp(cut[EndOf(i)])
  <2>1. i \in 0 .. Len(slices) /\ i - 1 \in 0 .. Len(slices)
    BY <1>1
  <2>2. cut[EndOf(i - 1)] \in Int /\ cut[EndOf(i)] \in Int
    BY <2>1 DEF SliceInv
  <2>3. slices[i] = Slice(cut[EndOf(i - 1)], cut[EndOf(i)])
    BY DEF SliceInv
  <2>4. QED
    BY <2>2, <2>3, SliceWhole
<1>3. Clamp(cut[EndOf(0)]) = 0
  BY DEF Clamp, AtMost, EndOf, SliceInv
<1>4. ASSUME NEW i \in 1 .. Len(slices)
      PROVE  slices[i].start = IF i = 1 THEN 0
                               ELSE slices[i - 1].start + slices[i - 1].units
  <2>1. CASE i = 1
    <3>1. i - 1 = 0
      BY <2>1
    <3>2. QED
      BY <1>2, <1>3, <2>1, <3>1
  <2>2. CASE i # 1
    <3>1. i - 1 \in 1 .. Len(slices)
      BY <1>1, <2>2
    <3>2. QED
      BY <1>2, <2>2, <3>1
  <2>3. QED
    BY <2>1, <2>2
<1>5. ASSUME Sliced
      PROVE  slices[Len(slices)].start + slices[Len(slices)].units
               = Clamp(cut[count])
  <2>1. assigned = count /\ count >= 1 /\ count \in Nat
    BY <1>5, PlanAssumption DEF Sliced, IInv, Partition, TypeOK
  <2>2. Len(chunks) \in 0 .. Len(chunks)
    BY <1>1
  <2>3. EndOf(Len(chunks)) = count
    BY <2>1, <2>2, EndsGrow
  <2>4. Len(slices) = Len(chunks) /\ Len(chunks) # 0
    BY <1>5, <2>1, <2>3 DEF Sliced, EndOf
  <2>5. Len(slices) \in 1 .. Len(slices)
    BY <1>1, <2>4
  <2>6. QED
    BY <1>2, <2>3, <2>4, <2>5
<1>6. DOMAIN slices = 1 .. Len(slices)
  BY <1>1
<1>7. QED
  BY <1>4, <1>5, <1>6 DEF SlicesTile

\* Cutting the next chunk's sound leaves the cuts before it alone.
LEMMA SliceStep ==
  ASSUME SoundInv, SliceChunk
  PROVE  SoundInv'
<1> DEFINE n == Len(slices)
           end == EndOf(n + 1)
<1>1. IInv /\ SliceInv /\ StoreInv
  BY DEF SoundInv
<1>2. /\ phase = "planned" /\ sound /\ n \in Nat /\ n + 1 <= Len(chunks)
      /\ Len(chunks) \in Nat /\ slices \in Seq(SliceType)
      /\ UNCHANGED <<vars, trackVars, predictor, stored>>
  BY <1>1 DEF SliceChunk, SliceInv, IInv, TypeOK
<1>3. PICK to \in Cuts(end) :
        /\ cut' = [frame \in DOMAIN cut \cup {end} |->
                     IF frame = end THEN to ELSE cut[frame]]
        /\ slices' = Append(slices, Slice(SliceStart(n + 1), to))
  <2>1. end = chunks[n + 1].first + chunks[n + 1].frames
    BY <1>2 DEF EndOf
  <2>2. QED
    BY <2>1 DEF SliceChunk
<1>4. /\ n \in 0 .. Len(chunks) /\ n + 1 \in 0 .. Len(chunks)
      /\ n < Len(chunks)
  BY <1>2
<1>5. /\ end \in Nat /\ EndOf(n) \in Nat /\ EndOf(n) < end
      /\ chunks[n + 1].first = EndOf(n)
  BY <1>1, <1>4, EndsGrow
<1>6. to \in Int
  BY <1>1, <1>5, CutsWhole
<1>7. end \notin DOMAIN cut
  BY <1>1, <1>5 DEF SliceInv
<1>8. /\ DOMAIN cut' = DOMAIN cut \cup {end} /\ cut'[end] = to
      /\ \A frame \in DOMAIN cut : cut'[frame] = cut[frame]
  BY <1>3, <1>7
<1>9. SliceStart(n + 1) = cut[EndOf(n)] /\ cut[EndOf(n)] \in Int
  <2>1. EndOf(n) \in DOMAIN cut
    BY <1>1, <1>2 DEF SliceInv
  <2>2. QED
    BY <1>1, <1>5, <2>1 DEF SliceStart, SliceInv
<1>10. Slice(cut[EndOf(n)], to) \in SliceType
  BY <1>1, <1>6, <1>9, SliceWhole
<1>11. /\ slices' \in Seq(SliceType) /\ Len(slices') = n + 1
       /\ slices'[n + 1] = Slice(cut[EndOf(n)], to)
       /\ \A i \in 1 .. n : slices'[i] = slices[i]
  BY <1>2, <1>3, <1>9, <1>10
<1>12. /\ UNCHANGED <<chunks, phase, sound, track, adpcm, stereo, ratio, stored,
                      predictor>>
  BY <1>2 DEF vars, inputVars, trackVars
<1>13. \A k : EndOf(k)' = EndOf(k)
  BY <1>12 DEF EndOf
<1>14. \A from, upto : Slice(from, upto)' = Slice(from, upto)
  BY <1>12 DEF Slice, Clamp
<1>15. SliceInv'
  <2>1. \A frame \in DOMAIN cut' :
          cut'[frame] \in Int /\ frame \in Nat /\ frame <= end
    BY <1>1, <1>5, <1>6, <1>8 DEF SliceInv
  <2>2. \A k \in 0 .. n + 1 : EndOf(k) \in DOMAIN cut'
    <3>1. TAKE k \in 0 .. n + 1
    <3>2. k \in 0 .. n \/ k = n + 1
      BY <1>2
    <3>3. QED
      BY <1>1, <1>8, <3>2 DEF SliceInv
  <2>3. 0 \in DOMAIN cut
    <3>1. EndOf(0) = 0 /\ 0 \in 0 .. n
      BY <1>2 DEF EndOf
    <3>2. QED
      BY <1>1, <3>1 DEF SliceInv
  <2>4. cut'[0] = 0
    BY <1>1, <1>8, <2>3 DEF SliceInv
  <2>5. \A i \in 1 .. n + 1 :
          slices'[i] = Slice(cut'[EndOf(i - 1)], cut'[EndOf(i)])
    <3>1. TAKE i \in 1 .. n + 1
    <3>2. CASE i = n + 1
      <4>1. i - 1 = n /\ EndOf(n) \in DOMAIN cut
        BY <1>1, <1>2, <3>2 DEF SliceInv
      <4>2. cut'[EndOf(n)] = cut[EndOf(n)] /\ cut'[EndOf(n + 1)] = to
        BY <1>8, <4>1
      <4>3. QED
        BY <1>11, <3>2, <4>1, <4>2, Zenon
    <3>3. CASE i \in 1 .. n
      <4>1. i \in 0 .. n /\ i - 1 \in 0 .. n
        BY <1>2, <3>3
      <4>2. cut'[EndOf(i - 1)] = cut[EndOf(i - 1)] /\ cut'[EndOf(i)] = cut[EndOf(i)]
        BY <1>1, <1>8, <4>1 DEF SliceInv
      <4>3. slices[i] = Slice(cut[EndOf(i - 1)], cut[EndOf(i)])
        BY <1>1, <3>3 DEF SliceInv
      <4>4. QED
        BY <1>11, <3>3, <4>2, <4>3, Zenon
    <3>4. QED
      BY <1>2, <3>2, <3>3
  <2>6. EndOf(Len(slices))' = end
    BY <1>11, <1>12 DEF EndOf
  <2>7. \A k \in 0 .. n + 1 : EndOf(k)' \in DOMAIN cut'
    BY <1>13, <2>2
  <2>8. \A i \in 1 .. n + 1 :
          slices'[i] = Slice(cut[EndOf(i - 1)], cut[EndOf(i)])'
    BY <1>12, <2>5 DEF Slice, Clamp, EndOf
  <2>9. /\ adpcm' \in BOOLEAN /\ stereo' \in BOOLEAN /\ track' \in Nat
        /\ ratio' \in Ratios /\ phase' = "planned" /\ sound'
        /\ n + 1 <= Len(chunks')
    BY <1>1, <1>2, <1>12 DEF SliceInv
  <2>10. QED
    BY <1>11, <2>1, <2>4, <2>6, <2>7, <2>8, <2>9 DEF SliceInv
<1>16. StoreInv'
  <2>1. stored = <<>> /\ Len(stored) = 0
    BY <1>1, <1>2 DEF StoreInv, Sliced
  <2>2. QED
    BY <1>1, <1>2, <1>11, <1>12, <2>1 DEF StoreInv
<1>17. IInv'
  BY <1>1, <1>2, PlanStep
<1>18. QED
  BY <1>15, <1>16, <1>17 DEF SoundInv

\* A stored chunk starts from the predictor after all before it.
LEMMA StoreStep ==
  ASSUME SoundInv, StoreAdpcm \/ StorePcm
  PROVE  SoundInv'
<1> DEFINE n == Len(stored)
<1>1. IInv /\ SliceInv /\ StoreInv /\ SlicesTile
  BY SlicesMeet DEF SoundInv
<1>2. /\ Sliced /\ n < Len(slices) /\ n \in Nat /\ Len(slices) \in Nat
      /\ UNCHANGED <<vars, trackVars, cut, slices>>
  BY <1>1 DEF StoreAdpcm, StorePcm, StoreInv, SliceInv
<1>3. UNCHANGED <<chunks, phase, sound, track, adpcm, stereo, ratio>>
  BY <1>2 DEF vars, inputVars, trackVars
<1>4. IInv'
  BY <1>1, <1>2, PlanStep
<1>5. SliceInv'
  BY <1>1, <1>2, <1>3 DEF SliceInv, EndOf, Slice, Clamp
<1>6. n + 1 \in 1 .. Len(slices) /\ slices[n + 1] \in SliceType
  <2>1. n + 1 \in 1 .. Len(slices)
    BY <1>2
  <2>2. QED
    BY <1>1, <2>1, ElementOfSeq DEF SliceInv
<1>7. slices[n + 1].start \in Int /\ slices[n + 1].units \in Int
  BY <1>6 DEF SliceType
<1>8. slices[n + 1].start = IF n = 0 THEN 0
                            ELSE slices[n].start + slices[n].units
  <2>1. n + 1 \in DOMAIN slices
    BY <1>1, <1>6 DEF SliceInv
  <2>2. slices[n + 1].start = IF n + 1 = 1 THEN 0
                              ELSE slices[n + 1 - 1].start + slices[n + 1 - 1].units
    BY <1>1, <2>1 DEF SlicesTile
  <2>3. n + 1 - 1 = n /\ (n + 1 = 1 <=> n = 0)
    BY <1>2
  <2>4. QED
    BY <2>2, <2>3
<1>9. ASSUME NEW region \in RegionType, stored' = Append(stored, region),
             adpcm => region.state = slices[n + 1].start,
             adpcm => predictor' = slices[n + 1].start + slices[n + 1].units,
             region.bytes = IF adpcm THEN Header + CodeBytes(slices[n + 1].units)
                            ELSE slices[n + 1].units
      PROVE  StoreInv'
  <2>1. /\ stored' \in Seq(RegionType) /\ Len(stored') = n + 1
        /\ stored'[n + 1] = region
        /\ \A i \in 1 .. n : stored'[i] = stored[i]
    BY <1>1, <1>9 DEF StoreInv
  <2>2. n + 1 <= Len(slices) /\ n + 1 # 0
    BY <1>2
  <2>3. Sliced'
    BY <1>2, <1>3 DEF Sliced
  <2>4. ASSUME NEW i \in 1 .. n + 1
        PROVE  /\ adpcm => stored'[i].state = slices[i].start
               /\ stored'[i].bytes = IF adpcm THEN Header + CodeBytes(slices[i].units)
                                     ELSE slices[i].units
    <3>1. CASE i = n + 1
      BY <1>9, <2>1, <3>1
    <3>2. CASE i \in 1 .. n
      BY <1>1, <2>1, <3>2 DEF StoreInv
    <3>3. QED
      BY <1>2, <3>1, <3>2
  <2>5. Header' = Header /\ \A u : CodeBytes(u)' = CodeBytes(u)
    BY <1>3 DEF Header, CodeBytes
  <2>6. \A i \in 1 .. n + 1 :
          /\ adpcm' => stored'[i].state = slices'[i].start
          /\ stored'[i].bytes = IF adpcm' THEN Header' + CodeBytes(slices[i].units)'
                                ELSE slices'[i].units
    BY <1>2, <1>3, <2>4 DEF Header, CodeBytes
  <2>7. adpcm' => predictor' = slices'[n + 1].start + slices'[n + 1].units
    BY <1>2, <1>3, <1>9
  <2>8. QED
    BY <1>2, <2>1, <2>2, <2>3, <2>6, <2>7 DEF StoreInv
<1>10. Header + CodeBytes(slices[n + 1].units) \in Int
  <2>1. CodeBytes(slices[n + 1].units) \in Int
    BY <1>7 DEF CodeBytes
  <2>2. QED
    BY <2>1 DEF Header
<1>11. CASE StoreAdpcm
  <2> DEFINE region == [from |-> slices[n + 1].start, copied |-> slices[n + 1].units,
                        silent |-> 0, state |-> HeaderState,
                        bytes |-> Header + CodeBytes(slices[n + 1].units)]
  <2>1. /\ adpcm /\ stored' = Append(stored, region)
        /\ predictor' = HeaderState + slices[n + 1].units
    BY <1>11 DEF StoreAdpcm
  <2>2. HeaderState = slices[n + 1].start
    BY <1>1, <1>8, <2>1 DEF HeaderState, StoreInv
  <2>3. region \in RegionType
    BY <1>7, <1>10, <2>2 DEF RegionType
  <2>4. QED
    BY <1>4, <1>5, <1>9, <2>1, <2>2, <2>3 DEF SoundInv
<1>12. CASE StorePcm
  <2> DEFINE copied == AtMost(Available(slices[n + 1].start), slices[n + 1].units)
             region == [from |-> slices[n + 1].start, copied |-> copied,
                        silent |-> slices[n + 1].units - copied,
                        state |-> 0, bytes |-> slices[n + 1].units]
  <2>1. ~ adpcm /\ stored' = Append(stored, region)
    BY <1>12 DEF StorePcm
  <2>2. copied \in Int
    BY <1>1, <1>7 DEF AtMost, Available, SliceInv
  <2>3. region \in RegionType
    BY <1>7, <2>2 DEF RegionType
  <2>4. QED
    BY <1>4, <1>5, <1>9, <2>1, <2>3 DEF SoundInv
<1>13. QED
  BY <1>11, <1>12

\* The plan is made before any sound is cut.
LEMMA PlanLeavesSound ==
  ASSUME SoundInv, Plan
  PROVE  SoundInv'
<1>1. IInv /\ SliceInv /\ StoreInv
  BY DEF SoundInv
<1>2. phase # "planned" /\ UNCHANGED <<trackVars, cut, slices, predictor, stored>>
  BY DEF Plan, Next, PadSink, ChooseTarget, NextChunk, Planned
<1>3. /\ slices = <<>> /\ Len(slices) = 0
      /\ stored = <<>> /\ Len(stored) = 0
  BY <1>1, <1>2 DEF SliceInv, StoreInv, Sliced
<1>4. IInv'
  BY <1>1, PlanStep DEF Plan
<1>5. Len(chunks') \in Nat
  BY <1>4 DEF IInv, TypeOK
<1>6. SliceInv'
  BY <1>1, <1>2, <1>3, <1>5 DEF SliceInv, trackVars, EndOf
<1>7. StoreInv'
  BY <1>1, <1>2, <1>3 DEF StoreInv, trackVars
<1>8. QED
  BY <1>4, <1>6, <1>7 DEF SoundInv

\* Each step of the playback keeps the plan's and the sound's invariants.
LEMMA PlaybackPlanStep ==
  ASSUME [PlaybackNext]_playbackVars
  PROVE  [Next]_vars
BY DEF PlaybackNext, Write, SoundNext, Plan, SliceChunk, StoreAdpcm, StorePcm,
   Open, SinkSound, SoundOf, DecodeFrame, DecodePastEnd, ChunkDone, ModuleDone,
   UnpackAll, inputs, soundVars, playbackVars

LEMMA SoundUnchanged ==
  ASSUME SoundInv, UNCHANGED soundVars
  PROVE  SoundInv'
<1>1. UNCHANGED vars /\ UNCHANGED <<trackVars, cut, slices, predictor, stored>>
  BY DEF soundVars
<1>2. IInv'
  BY <1>1, PlanStep DEF SoundInv
<1>3. /\ UNCHANGED <<count, halves, slip, assigned, chunks, phase, sound>>
      /\ UNCHANGED <<adpcm, stereo, ratio, track, cut, slices, predictor, stored>>
  BY <1>1 DEF vars, inputVars, trackVars
<1>4. SliceInv'
  BY <1>3 DEF SoundInv, SliceInv, EndOf, Slice, Clamp, AtMost, Sliced
<1>5. StoreInv'
  BY <1>3 DEF SoundInv, StoreInv, Sliced, Header, CodeBytes
<1>6. QED
  BY <1>2, <1>4, <1>5 DEF SoundInv

LEMMA PlaybackSoundStep ==
  ASSUME SoundInv, [PlaybackNext]_playbackVars
  PROVE  SoundInv'
<1>1. CASE Write
  BY <1>1, PlanLeavesSound, SliceStep, StoreStep DEF Write, SoundNext
<1>2. CASE ~ Write
  <2>1. UNCHANGED soundVars
    BY <1>2 DEF PlaybackNext, Open, SinkSound, SoundOf, DecodeFrame,
       DecodePastEnd, ChunkDone, ModuleDone, UnpackAll, inputs, playbackVars
  <2>2. QED
    BY <2>1, SoundUnchanged
<1>3. QED
  BY <1>1, <1>2

LEMMA PlaybackStart ==
  ASSUME PlaybackInit
  PROVE  SoundInv /\ DriftInv
<1>1. IInv /\ DriftInv
  BY PlanInit, DriftInit DEF PlaybackInit, SoundInit
<1>2. /\ slices = <<>> /\ stored = <<>> /\ chunks = <<>>
      /\ Len(slices) = 0 /\ Len(stored) = 0 /\ Len(chunks) = 0
  BY DEF PlaybackInit, SoundInit, Init
<1>3. DOMAIN cut = {0} /\ cut[0] = 0
  BY DEF PlaybackInit, SoundInit
<1>4. SliceInv
  BY <1>2, <1>3, SoundAssumption DEF PlaybackInit, SoundInit, SliceInv, EndOf
<1>5. StoreInv
  BY <1>2 DEF PlaybackInit, SoundInit, StoreInv
<1>6. QED
  BY <1>1, <1>4, <1>5 DEF SoundInv

LEMMA MovieInvariant == PlaybackSpec => [](SoundInv /\ DriftInv)
<1>1. SoundInv => IInv
  BY DEF SoundInv
<1>2. QED
  BY <1>1, PlaybackStart, PlaybackSoundStep, PlaybackPlanStep, DriftStep, PTL
  DEF PlaybackSpec

\* The slices tile the track, for every target in half frames, every ratio of
\* sound units to frames and every track.
THEOREM SlicesAlwaysTile == PlaybackSpec => []SlicesTile
<1>1. SoundInv => SlicesTile
  BY SlicesMeet DEF SoundInv
<1>2. QED
  BY <1>1, MovieInvariant, PTL

\* Every chunk's state header is the predictor after all units before it.
THEOREM AdpcmHeadersRight == PlaybackSpec => []AdpcmStartsAnywhere
<1>1. SoundInv => AdpcmStartsAnywhere
  BY DEF SoundInv, StoreInv, AdpcmStartsAnywhere
<1>2. QED
  BY <1>1, MovieInvariant, PTL

-----------------------------------------------------------------------------

(***************************************************************************)
(* The file is opened once it is complete, and it is not written after.    *)
(***************************************************************************)
ReaderInv ==
  /\ outcome \in {"closed", "playing", "played", "died"}
  /\ outcome = "closed" =>
       audioPts = <<0>> /\ cursor = 1 /\ decoded = 0 /\ played = <<>>
  /\ outcome # "closed" =>
       /\ phase = "planned"
       /\ sound => Len(stored) = Len(chunks)
       /\ perChunk = HeaderFrames

LEMMA WriterIsDone ==
  ASSUME SoundInv, ReaderInv, outcome # "closed"
  PROVE  ~ Write
<1>1. phase = "planned" /\ ~ Plan
  BY DEF ReaderInv, Plan, Next, PadSink, ChooseTarget, NextChunk, Planned
<1>2. CASE sound
  <2>1. Len(stored) = Len(chunks) /\ Len(stored) <= Len(slices)
        /\ Len(slices) <= Len(chunks)
        /\ Len(stored) \in Nat /\ Len(slices) \in Nat /\ Len(chunks) \in Nat
    BY <1>2 DEF SoundInv, IInv, TypeOK, ReaderInv, SliceInv, StoreInv
  <2>2. ~ (Len(slices) + 1 <= Len(chunks)) /\ ~ (Len(stored) < Len(slices))
    BY <2>1
  <2>3. QED
    BY <1>1, <2>2 DEF Write, SoundNext, SliceChunk, StoreAdpcm, StorePcm
<1>3. CASE ~ sound
  BY <1>1, <1>3
  DEF Write, SoundNext, SliceChunk, StoreAdpcm, StorePcm, Sliced
<1>4. QED
  BY <1>2, <1>3

LEMMA ReaderStep ==
  ASSUME SoundInv, ReaderInv, [PlaybackNext]_playbackVars
  PROVE  ReaderInv'
<1>1. CASE Write
  BY <1>1, WriterIsDone DEF Write, readerVars, ReaderInv
<1>2. ASSUME UNCHANGED soundVars PROVE HeaderFrames' = HeaderFrames
  <2>1. UNCHANGED <<chunks, sound, halves>>
    BY <1>2 DEF soundVars, vars, inputVars
  <2>2. Longest' = Longest
    BY <2>1 DEF Longest, ChunkIndices
  <2>3. QED
    BY <2>1, <2>2 DEF HeaderFrames, NominalHalves
<1>3. ASSUME UNCHANGED soundVars PROVE UNCHANGED <<phase, sound, stored, chunks>>
  BY <1>3 DEF soundVars, vars, inputVars
<1>4. CASE Open
  BY <1>2, <1>3, <1>4 DEF Open, inputs, ReaderInv
<1>5. ASSUME UNCHANGED inputs, UNCHANGED perChunk, outcome = "playing",
             outcome' \in {"playing", "played", "died"}
      PROVE  ReaderInv'
  BY <1>2, <1>3, <1>5 DEF inputs, ReaderInv
<1>6. CASE SinkSound
  BY <1>5, <1>6 DEF SinkSound, SoundOf
<1>7. CASE DecodeFrame
  BY <1>5, <1>7 DEF DecodeFrame, Decoding, Reading
<1>8. CASE DecodePastEnd
  BY <1>5, <1>8 DEF DecodePastEnd, Decoding, Reading
<1>9. CASE ChunkDone
  BY <1>5, <1>9 DEF ChunkDone, Decoding, Reading
<1>10. CASE ModuleDone
  BY <1>5, <1>10 DEF ModuleDone, Reading
<1>11. CASE UnpackAll
  BY <1>5, <1>11 DEF UnpackAll, Reading
<1>12. CASE UNCHANGED playbackVars
  BY <1>2, <1>3, <1>12 DEF playbackVars, readerVars, inputs, ReaderInv
<1>13. QED
  BY <1>1, <1>4, <1>6, <1>7, <1>8, <1>9, <1>10, <1>11, <1>12 DEF PlaybackNext

-----------------------------------------------------------------------------

(***************************************************************************)
(* The sound handed on so far stands where it was cut, but for the unit    *)
(* that each odd mono ADPCM slice before it has gained.                    *)
(***************************************************************************)
HearInv ==
  /\ audioPts \in Seq(Int)
  /\ Len(audioPts) >= 1 /\ Len(audioPts) <= Len(chunks) + 1
  /\ HeardAtCut

Gained(c) == IF adpcm /\ ~ stereo THEN Cardinality(OddBefore(c)) ELSE 0

\* The sound of a slice is decoded to its units, or one more.
LEMMA DecodedUnits ==
  ASSUME SoundInv, NEW c \in 1 .. Len(stored)
  PROVE  /\ slices[c].units \in Int /\ slices[c].start \in Int
         /\ Decoded(stored[c]) = slices[c].units
              + (IF adpcm /\ ~ stereo THEN slices[c].units % 2 ELSE 0)
<1>1. /\ slices \in Seq(SliceType) /\ stored \in Seq(RegionType)
      /\ Len(stored) <= Len(slices) /\ Len(slices) \in Nat /\ Len(stored) \in Nat
  BY DEF SoundInv, SliceInv, StoreInv
<1>2. slices[c] \in SliceType
  BY <1>1, ElementOfSeq
<1>3. slices[c].units \in Int /\ slices[c].start \in Int
  BY <1>2 DEF SliceType
<1>4. stored[c].bytes = IF adpcm THEN Header + CodeBytes(slices[c].units)
                        ELSE slices[c].units
  BY DEF SoundInv, StoreInv
<1>5. CASE ~ adpcm
  BY <1>3, <1>4, <1>5 DEF Decoded
<1>6. CASE adpcm /\ stereo
  BY <1>3, <1>4, <1>6 DEF Decoded, Header, CodeBytes
<1>7. CASE adpcm /\ ~ stereo
  <2>1. \A u \in Int : ((u + 1) \div 2) * 2 = u + (u % 2)
    OBVIOUS
  <2>2. Decoded(stored[c]) = ((slices[c].units + 1) \div 2) * 2
    BY <1>3, <1>4, <1>7 DEF Decoded, Header, CodeBytes
  <2>3. QED
    BY <1>3, <1>7, <2>1, <2>2
<1>8. QED
  BY <1>3, <1>5, <1>6, <1>7

\* A slice with an odd number of units adds one to those before the next.
LEMMA GainedNext ==
  ASSUME NEW c \in Nat, c >= 1, slices[c].units \in Int
  PROVE  /\ Gained(c) \in Nat
         /\ Gained(c + 1) = Gained(c)
              + (IF adpcm /\ ~ stereo THEN slices[c].units % 2 ELSE 0)
<1>1. IsFiniteSet(OddBefore(c))
  <2>1. IsFiniteSet(1 .. c - 1)
    BY FS_Interval
  <2>2. OddBefore(c) \subseteq 1 .. c - 1
    BY DEF OddBefore
  <2>3. QED
    BY <2>1, <2>2, FS_Subset
<1>2. Cardinality(OddBefore(c)) \in Nat
  BY <1>1, FS_CardinalityType
<1>3. slices[c].units % 2 \in {0, 1}
  OBVIOUS
<1>4. CASE slices[c].units % 2 = 1
  <2>1. OddBefore(c + 1) = OddBefore(c) \cup {c} /\ c \notin OddBefore(c)
    BY <1>4 DEF OddBefore
  <2>2. Cardinality(OddBefore(c + 1)) = Cardinality(OddBefore(c)) + 1
    BY <1>1, <2>1, FS_AddElement
  <2>3. QED
    BY <1>2, <1>4, <2>2 DEF Gained
<1>5. CASE slices[c].units % 2 = 0
  <2>1. OddBefore(c + 1) = OddBefore(c)
    BY <1>5 DEF OddBefore
  <2>2. QED
    BY <1>2, <1>5, <2>1 DEF Gained
<1>6. QED
  BY <1>3, <1>4, <1>5

\* The first slice starts the track.
LEMMA FirstHeard ==
  ASSUME SoundInv, audioPts = << 0 >>
  PROVE  HearInv
<1>1. audioPts \in Seq(Int) /\ Len(audioPts) = 1 /\ audioPts[1] = 0
  OBVIOUS
<1>2. Len(chunks) \in Nat
  BY DEF SoundInv, IInv, TypeOK
<1>3. slices \in Seq(SliceType) /\ DOMAIN slices = 1 .. Len(slices)
  BY DEF SoundInv, SliceInv
<1>4. 1 <= Len(slices) => slices[1].start = 0
  <2>1. \A i \in DOMAIN slices : i = 1 => slices[i].start = 0
    BY SlicesMeet DEF SoundInv, SlicesTile
  <2>2. 1 <= Len(slices) => 1 \in DOMAIN slices
    BY <1>3
  <2>3. QED
    BY <2>1, <2>2
<1>5. Cardinality(OddBefore(1)) = 0
  <2>1. OddBefore(1) = {}
    BY DEF OddBefore
  <2>2. QED
    BY <2>1, FS_EmptySet
<1>6. QED
  BY <1>1, <1>2, <1>4, <1>5 DEF HearInv, HeardAtCut

LEMMA SinkStep ==
  ASSUME SoundInv, ReaderInv, HearInv, SinkSound
  PROVE  HearInv'
<1> DEFINE c == Len(audioPts)
           next == audioPts[c] + Decoded(stored[c])
<1>1. /\ audioPts \in Seq(Int) /\ c \in Nat /\ c >= 1 /\ c <= Len(chunks)
      /\ sound /\ phase = "planned" /\ Len(stored) = Len(chunks)
      /\ Len(chunks) \in Nat
      /\ slices \in Seq(SliceType) /\ Len(slices) = Len(chunks)
  <2>1. sound /\ c <= Len(chunks) /\ outcome = "playing"
    BY DEF SinkSound, SoundOf, SoundDue
  <2>2. Len(stored) = Len(chunks) /\ phase = "planned"
    BY <2>1 DEF ReaderInv
  <2>3. /\ Len(stored) <= Len(slices) /\ Len(slices) <= Len(chunks)
        /\ Len(stored) \in Nat /\ Len(slices) \in Nat /\ Len(chunks) \in Nat
    BY DEF SoundInv, IInv, TypeOK, SliceInv, StoreInv
  <2>4. QED
    BY <2>1, <2>2, <2>3 DEF HearInv, SoundInv, SliceInv
<1>2. c \in 1 .. Len(stored) /\ c \in 1 .. Len(slices)
  BY <1>1
<1>3. /\ audioPts' = Append(audioPts, next)
      /\ UNCHANGED <<chunks, sound, slices, adpcm, stereo, stored>>
  BY DEF SinkSound, SoundOf, inputs, soundVars, vars, inputVars, trackVars
<1>4. audioPts[c] = slices[c].start + Gained(c)
  BY <1>1, <1>2 DEF HearInv, HeardAtCut, Gained
<1>5. /\ slices[c].units \in Int /\ slices[c].start \in Int
      /\ Decoded(stored[c]) = slices[c].units
           + (IF adpcm /\ ~ stereo THEN slices[c].units % 2 ELSE 0)
  BY <1>2, DecodedUnits
<1>6. /\ Gained(c) \in Nat
      /\ Gained(c + 1) = Gained(c)
           + (IF adpcm /\ ~ stereo THEN slices[c].units % 2 ELSE 0)
  BY <1>1, <1>5, GainedNext
<1>7. slices[c].units % 2 \in {0, 1}
  BY <1>5
<1>8. next \in Int /\ next = slices[c].start + slices[c].units + Gained(c + 1)
  <2>1. PICK odd \in {0, 1} :
          odd = IF adpcm /\ ~ stereo THEN slices[c].units % 2 ELSE 0
    BY <1>7
  <2>2. next = (slices[c].start + Gained(c)) + (slices[c].units + odd)
    BY <1>4, <1>5, <2>1
  <2>3. Gained(c + 1) = Gained(c) + odd
    BY <1>6, <2>1
  <2>4. PICK s \in Int, u \in Int, g \in Nat :
          s = slices[c].start /\ u = slices[c].units /\ g = Gained(c)
    BY <1>5, <1>6
  <2>5. next = (s + g) + (u + odd) /\ Gained(c + 1) = g + odd
    BY <2>2, <2>3, <2>4
  <2>6. (s + g) + (u + odd) \in Int /\ (s + g) + (u + odd) = s + u + (g + odd)
    OBVIOUS
  <2>7. next \in Int /\ next = s + u + Gained(c + 1)
    BY <2>5, <2>6
  <2>8. QED
    BY <2>4, <2>7
<1>9. c + 1 <= Len(slices) => slices[c + 1].start = slices[c].start + slices[c].units
  <2>1. \A i \in DOMAIN slices :
          i # 1 => slices[i].start = slices[i - 1].start + slices[i - 1].units
    BY SlicesMeet DEF SoundInv, SlicesTile
  <2>2. PICK n \in Nat : n = c + 1
    BY <1>1
  <2>3. n - 1 = c /\ n # 1 /\ (n <= Len(slices) => n \in DOMAIN slices)
    BY <1>1, <2>2
  <2>4. n <= Len(slices) => slices[n].start = slices[c].start + slices[c].units
    BY <2>1, <2>3, Zenon
  <2>5. QED
    BY <2>2, <2>4, Zenon
<1> HIDE DEF next
<1>10. /\ audioPts' \in Seq(Int) /\ Len(audioPts') = c + 1
       /\ audioPts'[c + 1] = next
       /\ \A i \in 1 .. c : audioPts'[i] = audioPts[i]
  BY <1>1, <1>3, <1>8
<1>11. ASSUME NEW i \in 1 .. c + 1, i <= Len(slices)
       PROVE  audioPts'[i] = slices[i].start + Gained(i)
  <2>1. CASE i = c + 1
    BY <1>8, <1>9, <1>10, <1>11, <2>1
  <2>2. CASE i \in 1 .. c
    BY <1>1, <1>10, <1>11, <2>2 DEF HearInv, HeardAtCut, Gained
  <2>3. QED
    BY <1>1, <2>1, <2>2
<1>12. HeardAtCut'
  <2>1. \A i : OddBefore(i)' = OddBefore(i)
    BY <1>3 DEF OddBefore
  <2>2. \A i \in 1 .. c + 1 : i <= Len(slices) =>
          audioPts'[i] = slices'[i].start
             + (IF adpcm' /\ ~ stereo' THEN Cardinality(OddBefore(i)') ELSE 0)
    BY <1>3, <1>11, <2>1 DEF Gained
  <2>3. QED
    BY <1>3, <1>10, <2>2 DEF HeardAtCut
<1>13. QED
  BY <1>1, <1>3, <1>10, <1>12 DEF HearInv

LEMMA HearStep ==
  ASSUME SoundInv, ReaderInv, HearInv, [PlaybackNext]_playbackVars
  PROVE  HearInv'
<1>1. SoundInv'
  BY PlaybackSoundStep
<1>2. CASE Write
  <2>1. audioPts = <<0>> /\ audioPts' = audioPts
    BY <1>2, WriterIsDone DEF ReaderInv, Write, readerVars
  <2>2. audioPts' = <<0>>
    BY <2>1
  <2>3. (SoundInv /\ audioPts = <<0>> => HearInv)'
    BY FirstHeard, PTL
  <2>4. QED
    BY <1>1, <2>2, <2>3
<1>3. CASE ~ Write /\ ~ SinkSound
  <2>1. UNCHANGED <<soundVars, audioPts>>
    BY <1>3 DEF PlaybackNext, Open, DecodeFrame, DecodePastEnd, ChunkDone,
       ModuleDone, UnpackAll, inputs, playbackVars, readerVars
  <2>2. UNCHANGED <<chunks, sound, slices, adpcm, stereo, audioPts>>
    BY <2>1 DEF soundVars, vars, inputVars, trackVars
  <2>3. \A i : OddBefore(i)' = OddBefore(i)
    BY <2>2 DEF OddBefore
  <2>4. QED
    BY <2>2, <2>3 DEF HearInv, HeardAtCut
<1>4. QED
  BY <1>2, <1>3, SinkStep

LEMMA HearInvariant == PlaybackSpec => [](SoundInv /\ ReaderInv /\ HearInv)
<1>1. PlaybackInit => SoundInv /\ ReaderInv /\ HearInv
  <2>1. SUFFICES ASSUME PlaybackInit PROVE SoundInv /\ ReaderInv /\ HearInv
    OBVIOUS
  <2>2. SoundInv /\ audioPts = <<0>>
    BY <2>1, PlaybackStart DEF PlaybackInit
  <2>3. ReaderInv
    BY <2>1 DEF PlaybackInit, ReaderInv
  <2>4. QED
    BY <2>2, <2>3, FirstHeard
<1>2. QED
  BY <1>1, PlaybackSoundStep, ReaderStep, HearStep, PTL DEF PlaybackSpec

\* A chunk's sound is heard where it was cut, plus a unit for every odd mono
\* ADPCM chunk before it: sink_chunk_audio, for every track and rate.
THEOREM SoundIsHeardAtItsCut == PlaybackSpec => []HeardAtCut
<1>1. HearInv => HeardAtCut
  BY DEF HearInv
<1>2. QED
  BY <1>1, HearInvariant, PTL

-----------------------------------------------------------------------------

\* Every set of naturals that is not empty has a least member.
LEMMA LeastNat ==
  ASSUME NEW T \in SUBSET Nat, T # {}
  PROVE  \E m \in T : \A k \in T : m <= k
<1> DEFINE R == OpToRel(<, Nat)
<1>1. IsWellFoundedOn(R, Nat)
  BY NatLessThanWellFounded
<1>2. \A x, y \in Nat : x < y => <<x, y>> \in R
  BY Zenon DEF OpToRel
<1> HIDE DEF R
<1>3. PICK m \in T : \A y \in T : <<y, m>> \notin R
  BY <1>1, WFMin
<1>4. \A k \in T : k \in Nat /\ m \in Nat /\ ~ (k < m)
  BY <1>2, <1>3
<1>5. QED
  BY <1>3, <1>4

\* There is a longest chunk: none is longer than the movie.
LEMMA LongestBounds ==
  ASSUME IInv, DriftInv, NEW i \in ChunkIndices
  PROVE  Longest \in Nat /\ chunks[i].frames <= Longest
<1>1. \A n \in ChunkIndices : chunks[n].frames \in 0 .. count
  <2>1. TAKE n \in ChunkIndices
  <2>2. chunks[n] \in [first : Nat, frames : Nat]
    BY ElementOfSeq DEF IInv, TypeOK, ChunkIndices
  <2>3. QED
    BY <2>2 DEF DriftInv, IInv, TypeOK
<1> DEFINE Lengths == {chunks[n].frames : n \in ChunkIndices}
           Short == {m \in Nat : \E l \in Lengths : count - m = l}
<1>2. count \in Nat
  BY DEF IInv, TypeOK
<1>3. Short # {}
  <2>1. count - chunks[i].frames \in Nat
        /\ count - (count - chunks[i].frames) = chunks[i].frames
    BY <1>1, <1>2
  <2>2. QED
    BY <2>1
<1>4. PICK m \in Short : \A k \in Short : m <= k
  BY <1>3, LeastNat
<1>5. PICK l \in Lengths : m \in Nat /\ count - m = l
  BY <1>4
<1>6. \A n \in ChunkIndices : chunks[n].frames <= l
  <2>1. TAKE n \in ChunkIndices
  <2>2. PICK k \in Nat : count - k = chunks[n].frames
    <3>1. count - chunks[n].frames \in Nat
          /\ count - (count - chunks[n].frames) = chunks[n].frames
      BY <1>1, <1>2
    <3>2. QED
      BY <3>1
  <2>3. k \in Short
    BY <2>2
  <2>4. m <= k /\ m \in Nat
    BY <1>4, <1>5, <2>3
  <2>5. QED
    BY <1>2, <1>5, <2>2, <2>4
<1>7. Longest \in Lengths /\ \A n \in ChunkIndices : chunks[n].frames <= Longest
  BY <1>5, <1>6 DEF Longest
<1>8. Longest \in Nat
  BY <1>1, <1>7
<1>9. QED
  BY <1>7, <1>8

(***************************************************************************)
(* No chunk is longer than the reader takes.  A movie with sound fits by   *)
(* its header, which is why the header reports the longest chunk.          *)
(***************************************************************************)
Fits == \A i \in ChunkIndices : chunks[i].frames <= HeaderFrames

LEMMA SoundFits ==
  ASSUME IInv, DriftInv, sound
  PROVE  Fits
<1>1. SUFFICES ASSUME NEW i \in ChunkIndices
               PROVE  chunks[i].frames <= HeaderFrames
  BY DEF Fits
<1>2. Longest \in Nat /\ chunks[i].frames <= Longest
  BY LongestBounds
<1>3. chunks[i].frames \in Nat /\ halves \in Nat
  <2>1. chunks[i] \in [first : Nat, frames : Nat]
    BY ElementOfSeq DEF IInv, TypeOK, ChunkIndices
  <2>2. QED
    BY <2>1 DEF IInv, TypeOK
<1>4. CASE 2 * Longest > halves
  <2>1. HeaderFrames = (2 * Longest) \div 2
    BY <1>4 DEF HeaderFrames, NominalHalves
  <2>2. QED
    BY <1>2, <1>3, <2>1
<1>5. CASE ~ (2 * Longest > halves)
  <2>1. HeaderFrames = halves \div 2
    BY <1>5 DEF HeaderFrames, NominalHalves
  <2>2. QED
    BY <1>2, <1>3, <1>5, <2>1
<1>6. QED
  BY <1>4, <1>5

PlayedType == [frame : Int, reference : Int]

\* The first n frames were shown, each against its predecessor.
ShowsFirst(frames, n) ==
  /\ frames \in Seq(PlayedType) /\ Len(frames) = n
  /\ \A k \in 1 .. n : frames[k] = FrameShown(k - 1)

\* The frames before the one about to be decoded.
Reached == EndOf(cursor - 1) + decoded

(***************************************************************************)
(* A reader of a movie that fits has shown every frame up to where it is,  *)
(* and is stopped only by a chunk before the last that is short.           *)
(***************************************************************************)
ModuleInv ==
  /\ cursor \in 1 .. Len(chunks) + 1
  /\ decoded \in Nat
  /\ cursor <= Len(chunks) => decoded <= chunks[cursor].frames
  /\ cursor = Len(chunks) + 1 => decoded = 0
  /\ ShowsFirst(played, Reached)
  /\ outcome = "played" => cursor = Len(chunks) + 1
  /\ outcome = "died" =>
       \E i \in ChunkIndices : i < Len(chunks) /\ chunks[i].frames < HeaderFrames

FramesInv ==
  /\ route \in {"module", "packed"}
  /\ route = "module" /\ outcome # "closed" /\ Fits => ModuleInv
  /\ route = "packed" =>
       IF outcome = "played" THEN played = [k \in 1 .. count |-> FrameShown(k - 1)]
       ELSE played = <<>>

\* A frame decoded takes its reference from the frame before it.
LEMMA ShowsOneMore ==
  ASSUME NEW n \in Nat, ShowsFirst(played, n),
         played' = Append(played, [frame |-> n, reference |-> LastShown])
  PROVE  ShowsFirst(played', n + 1)
<1>1. played \in Seq(PlayedType) /\ Len(played) = n
      /\ \A k \in 1 .. n : played[k] = FrameShown(k - 1)
  BY DEF ShowsFirst
<1>2. LastShown = n - 1
  <2>1. CASE n = 0
    <3>1. played = <<>>
      BY <1>1, <2>1
    <3>2. QED
      BY <2>1, <3>1 DEF LastShown
  <2>2. CASE n # 0
    <3>1. played # <<>> /\ n \in 1 .. n
      BY <1>1, <2>2
    <3>2. played[n] = FrameShown(n - 1)
      BY <1>1, <3>1
    <3>3. QED
      BY <1>1, <3>1, <3>2 DEF LastShown, FrameShown
  <2>3. QED
    BY <2>1, <2>2
<1>3. played' = Append(played, FrameShown(n))
  BY <1>2 DEF FrameShown
<1>4. FrameShown(n) \in PlayedType
  BY DEF FrameShown, PlayedType
<1>5. /\ played' \in Seq(PlayedType) /\ Len(played') = n + 1
      /\ played'[n + 1] = FrameShown(n)
      /\ \A k \in 1 .. n : played'[k] = played[k]
  BY <1>1, <1>3, <1>4
<1>6. ASSUME NEW k \in 1 .. n + 1
      PROVE  played'[k] = FrameShown(k - 1)
  <2>1. CASE k = n + 1
    <3>1. k - 1 = n
      BY <2>1
    <3>2. played'[k] = FrameShown(n)
      BY <1>5, <2>1
    <3>3. FrameShown(k - 1) = FrameShown(n)
      BY <3>1
    <3>4. QED
      BY <3>2, <3>3
  <2>2. CASE k \in 1 .. n
    BY <1>1, <1>5, <2>2
  <2>3. k = n + 1 \/ k \in 1 .. n
    OBVIOUS
  <2>4. QED
    BY <2>1, <2>2, <2>3, Zenon
<1>7. QED
  BY <1>5, <1>6 DEF ShowsFirst, FrameShown

LEMMA ChunkTyped ==
  ASSUME IInv, NEW i \in 1 .. Len(chunks)
  PROVE  chunks[i].first \in Nat /\ chunks[i].frames \in Nat
<1>1. chunks[i] \in [first : Nat, frames : Nat]
  BY ElementOfSeq DEF IInv, TypeOK
<1>2. QED
  BY <1>1

\* Where the reader is in the movie.
LEMMA WhereReading ==
  ASSUME IInv, cursor \in 1 .. Len(chunks)
  PROVE  /\ EndOf(cursor - 1) = chunks[cursor].first
         /\ chunks[cursor].first \in Nat /\ chunks[cursor].frames \in Nat
         /\ EndOf(cursor) = chunks[cursor].first + chunks[cursor].frames
<1>1. Len(chunks) \in Nat
  BY DEF IInv, TypeOK
<1>2. PICK n \in 0 .. Len(chunks) : n = cursor - 1
  BY <1>1
<1>3. n < Len(chunks) /\ n + 1 = cursor
  BY <1>1, <1>2
<1>4. chunks[n + 1].first = EndOf(n)
  BY <1>3, EndsGrow
<1>5. chunks[cursor] \in [first : Nat, frames : Nat]
  BY ElementOfSeq DEF IInv, TypeOK
<1>6. QED
  BY <1>1, <1>2, <1>3, <1>4, <1>5 DEF EndOf

\* The steps that leave the file as it is leave what fits and where.
LEMMA FileStays ==
  ASSUME UNCHANGED inputs
  PROVE  /\ UNCHANGED <<count, chunks, sound, route>>
         /\ HeaderFrames' = HeaderFrames /\ Fits' = Fits
         /\ \A n : EndOf(n)' = EndOf(n)
<1>1. UNCHANGED <<count, chunks, sound, halves, route>>
  BY DEF inputs, soundVars, vars, inputVars
<1>2. Longest' = Longest
  BY <1>1 DEF Longest, ChunkIndices
<1>3. HeaderFrames' = HeaderFrames
  BY <1>1, <1>2 DEF HeaderFrames, NominalHalves
<1>4. QED
  BY <1>1, <1>3 DEF Fits, ChunkIndices, EndOf

LEMMA DecodeStep ==
  ASSUME IInv, ModuleInv, DecodeFrame
  PROVE  ModuleInv'
<1>1. /\ Len(chunks) \in Nat /\ cursor \in 1 .. Len(chunks) /\ decoded \in Nat
      /\ decoded < chunks[cursor].frames
  BY DEF IInv, TypeOK, ModuleInv, DecodeFrame, Decoding
<1>2. /\ EndOf(cursor - 1) = chunks[cursor].first
      /\ chunks[cursor].first \in Nat /\ chunks[cursor].frames \in Nat
  BY <1>1, WhereReading
<1>3. UNCHANGED inputs /\ UNCHANGED <<cursor, outcome>> /\ decoded' = decoded + 1
  BY DEF DecodeFrame
<1>4. /\ UNCHANGED chunks /\ HeaderFrames' = HeaderFrames
      /\ EndOf(cursor - 1)' = EndOf(cursor - 1)
  <2>1. UNCHANGED chunks /\ HeaderFrames' = HeaderFrames
    BY <1>3, FileStays
  <2>2. QED
    BY <1>3, <2>1 DEF EndOf
<1> DEFINE n == EndOf(cursor - 1) + decoded
<1>5. n \in Nat /\ n = chunks[cursor].first + decoded
  BY <1>1, <1>2
<1>6. played' = Append(played, [frame |-> n, reference |-> LastShown])
  BY <1>5 DEF DecodeFrame
<1>7. ShowsFirst(played', n + 1)
  <2>1. ShowsFirst(played, n)
    BY DEF ModuleInv, Reached
  <2> HIDE DEF n
  <2>2. QED
    BY <1>5, <1>6, <2>1, ShowsOneMore
<1>8. Reached' = n + 1
  <2>1. Reached' = EndOf(cursor - 1) + decoded'
    BY <1>3, <1>4 DEF Reached, EndOf
  <2>2. QED
    BY <1>1, <1>2, <1>3, <2>1
<1> HIDE DEF n
<1>9. ShowsFirst(played', Reached')
  BY <1>7, <1>8
<1>10. outcome = "playing"
  BY DEF DecodeFrame, Decoding, Reading
<1>11. decoded' \in Nat /\ decoded' <= chunks'[cursor'].frames
  BY <1>1, <1>2, <1>3, <1>4
<1>12. QED
  BY <1>1, <1>3, <1>4, <1>9, <1>10, <1>11 DEF ModuleInv, ShowsFirst, FrameShown

\* The next chunk starts where this one ends.
LEMMA NextReached ==
  ASSUME IInv, cursor \in 1 .. Len(chunks), decoded = chunks[cursor].frames,
         UNCHANGED chunks, cursor' = cursor + 1, decoded' = 0
  PROVE  Reached' = Reached
<1>1. /\ EndOf(cursor - 1) = chunks[cursor].first
      /\ chunks[cursor].first \in Nat /\ chunks[cursor].frames \in Nat
  BY WhereReading
<1>2. Reached = chunks[cursor].first + chunks[cursor].frames
  BY <1>1 DEF Reached
<1>3. cursor' - 1 = cursor /\ cursor # 0
  BY DEF IInv, TypeOK
<1>4. Reached' = chunks[cursor].first + chunks[cursor].frames + 0
  BY <1>3 DEF Reached, EndOf
<1>5. QED
  BY <1>1, <1>2, <1>4

\* The last chunk may be short; a chunk before it stops the reader.
LEMMA PastEndStep ==
  ASSUME IInv, ModuleInv, perChunk = HeaderFrames, DecodePastEnd
  PROVE  ModuleInv'
<1>1. /\ Len(chunks) \in Nat /\ cursor \in 1 .. Len(chunks) /\ decoded \in Nat
      /\ decoded = chunks[cursor].frames /\ decoded < HeaderFrames
      /\ outcome = "playing"
  BY DEF IInv, TypeOK, ModuleInv, DecodePastEnd, Decoding, Reading
<1>2. UNCHANGED <<inputs, played>>
  BY DEF DecodePastEnd
<1>3. /\ UNCHANGED chunks /\ HeaderFrames' = HeaderFrames
      /\ \A n : EndOf(n)' = EndOf(n)
  BY <1>2, FileStays
<1>4. CASE cursor = Len(chunks)
  <2>1. cursor' = cursor + 1 /\ decoded' = 0 /\ outcome' = "playing"
    BY <1>1, <1>4 DEF DecodePastEnd
  <2>2. Reached' = Reached
    BY <1>1, <1>2, <1>3, <2>1, NextReached
  <2>3. QED
    BY <1>1, <1>2, <1>3, <1>4, <2>1, <2>2 DEF ModuleInv, ShowsFirst, FrameShown
<1>5. CASE cursor # Len(chunks)
  <2>1. UNCHANGED <<cursor, decoded>> /\ outcome' = "died"
    BY <1>5 DEF DecodePastEnd
  <2>2. Reached' = Reached
    BY <1>3, <2>1 DEF Reached, EndOf
  <2>3. cursor \in ChunkIndices /\ cursor < Len(chunks)
        /\ chunks[cursor].frames < HeaderFrames
    BY <1>1, <1>5 DEF ChunkIndices
  <2>4. \E i \in ChunkIndices' :
          i < Len(chunks') /\ chunks'[i].frames < HeaderFrames'
    BY <1>3, <2>3 DEF ChunkIndices
  <2>5. QED
    BY <1>1, <1>2, <1>3, <2>1, <2>2, <2>4
    DEF ModuleInv, ShowsFirst, FrameShown, ChunkIndices
<1>6. QED
  BY <1>4, <1>5

\* A chunk that fits is decoded to its end.
LEMMA DoneStep ==
  ASSUME IInv, ModuleInv, Fits, perChunk = HeaderFrames, ChunkDone
  PROVE  ModuleInv'
<1>1. /\ Len(chunks) \in Nat /\ cursor \in 1 .. Len(chunks) /\ decoded \in Nat
      /\ decoded <= chunks[cursor].frames /\ decoded = HeaderFrames
      /\ outcome = "playing"
  BY DEF IInv, TypeOK, ModuleInv, ChunkDone, Decoding, Reading
<1>2. /\ UNCHANGED <<inputs, played, outcome>>
      /\ cursor' = cursor + 1 /\ decoded' = 0
  BY DEF ChunkDone
<1>3. UNCHANGED chunks
  BY <1>2, FileStays
<1>4. decoded = chunks[cursor].frames
  BY <1>1, WhereReading DEF Fits, ChunkIndices
<1>5. Reached' = Reached
  BY <1>1, <1>2, <1>3, <1>4, NextReached
<1>6. cursor' <= Len(chunks) => chunks[cursor'].frames \in Nat
  <2>1. \A i \in 1 .. Len(chunks) : chunks[i].frames \in Nat
    BY ChunkTyped
  <2>2. QED
    BY <1>1, <1>2, <2>1
<1>7. cursor' \in 1 .. Len(chunks) + 1
  BY <1>1, <1>2
<1>8. QED
  BY <1>1, <1>2, <1>3, <1>5, <1>6, <1>7 DEF ModuleInv, ShowsFirst, FrameShown

\* At the end of the module's movie every frame was reached.
LEMMA ReachedAll ==
  ASSUME IInv, ModuleInv, phase = "planned", cursor = Len(chunks) + 1
  PROVE  Reached = count
<1>1. Len(chunks) \in Nat /\ decoded = 0 /\ cursor - 1 = Len(chunks)
  BY DEF IInv, TypeOK, ModuleInv
<1>2. assigned = EndOf(Len(chunks)) /\ EndOf(Len(chunks)) \in Nat
  <2>1. Len(chunks) \in 0 .. Len(chunks)
    BY <1>1
  <2>2. QED
    BY <2>1, EndsGrow
<1>3. QED
  BY <1>1, <1>2 DEF IInv, Partition, Reached

\* The first chunk starts the movie.
LEMMA OpenStep ==
  ASSUME IInv, ReaderInv, Open
  PROVE  ModuleInv'
<1>1. /\ cursor = 1 /\ decoded = 0 /\ played = <<>>
      /\ UNCHANGED <<inputs, cursor, decoded, played>> /\ outcome' = "playing"
  BY DEF ReaderInv, Open
<1>2. UNCHANGED chunks /\ Len(chunks) \in Nat
  BY <1>1, FileStays DEF IInv, TypeOK
<1>3. Reached' = 0
  BY <1>1 DEF Reached, EndOf
<1>4. ShowsFirst(played', 0)
  BY <1>1 DEF ShowsFirst
<1>5. 1 <= Len(chunks) => chunks[1].frames \in Nat
  <2>1. \A i \in 1 .. Len(chunks) : chunks[i].frames \in Nat
    BY ChunkTyped
  <2>2. QED
    BY <1>2, <2>1
<1>6. QED
  BY <1>1, <1>2, <1>3, <1>4, <1>5 DEF ModuleInv, ShowsFirst, FrameShown

LEMMA FramesStep ==
  ASSUME SoundInv, ReaderInv, FramesInv, [PlaybackNext]_playbackVars
  PROVE  FramesInv'
<1>1. IInv /\ (outcome # "closed" => perChunk = HeaderFrames /\ phase = "planned")
  BY DEF SoundInv, ReaderInv
<1>2. CASE Write
  BY <1>2, WriterIsDone DEF ReaderInv, FramesInv, Write, readerVars
<1>3. CASE ~ Write
  <2>1. UNCHANGED inputs
    BY <1>3 DEF PlaybackNext, Open, SinkSound, SoundOf, DecodeFrame,
       DecodePastEnd, ChunkDone, ModuleDone, UnpackAll, playbackVars
  <2>2. /\ UNCHANGED <<count, chunks, route>> /\ HeaderFrames' = HeaderFrames
        /\ Fits' = Fits
    BY <2>1, FileStays
  <2>3. ASSUME route = "module", outcome' # "closed", Fits PROVE ModuleInv'
    <3>1. CASE Open
      BY <1>1, <3>1, OpenStep
    <3>2. CASE ~ Open
      <4>1. outcome # "closed"
        BY <1>3, <2>3, <3>2 DEF PlaybackNext, SinkSound, SoundOf, DecodeFrame,
           DecodePastEnd, ChunkDone, ModuleDone, UnpackAll, Decoding, Reading,
           playbackVars, readerVars
      <4>2. ModuleInv /\ perChunk = HeaderFrames
        BY <1>1, <2>3, <4>1 DEF FramesInv
      <4>3. ASSUME cursor' = cursor, decoded' = decoded, played' = played,
                   outcome' = "played" => \/ cursor = Len(chunks) + 1
                                          \/ outcome = "played",
                   outcome' = "died" => outcome = "died"
            PROVE  ModuleInv'
        <5>1. Reached' = Reached
          BY <2>2, <4>3 DEF Reached, EndOf
        <5>2. QED
          BY <2>2, <4>2, <4>3, <5>1
          DEF ModuleInv, ShowsFirst, FrameShown, ChunkIndices
      <4>4. CASE SinkSound
        <5>1. /\ cursor' = cursor /\ decoded' = decoded /\ played' = played
              /\ outcome' = outcome
          BY <4>4 DEF SinkSound, SoundOf
        <5>2. QED
          BY <4>3, <5>1
      <4>5. CASE DecodeFrame
        BY <1>1, <4>2, <4>5, DecodeStep
      <4>6. CASE DecodePastEnd
        BY <1>1, <4>2, <4>6, PastEndStep
      <4>7. CASE ChunkDone
        BY <1>1, <2>3, <4>2, <4>7, DoneStep
      <4>8. CASE ModuleDone
        <5>1. /\ cursor' = cursor /\ decoded' = decoded /\ played' = played
              /\ outcome' = "played" /\ cursor = Len(chunks) + 1
          BY <4>8 DEF ModuleDone
        <5>2. QED
          BY <4>3, <5>1
      <4>9. CASE UNCHANGED playbackVars
        <5>1. /\ cursor' = cursor /\ decoded' = decoded /\ played' = played
              /\ outcome' = outcome
          BY <4>9 DEF playbackVars, readerVars
        <5>2. QED
          BY <4>3, <5>1
      <4>10. ~ UnpackAll
        BY <2>3 DEF UnpackAll, Reading
      <4>11. QED
        BY <1>3, <3>2, <4>4, <4>5, <4>6, <4>7, <4>8, <4>9, <4>10 DEF PlaybackNext
    <3>3. QED
      BY <3>1, <3>2
  <2>4. ASSUME route = "packed"
        PROVE  IF outcome' = "played"
               THEN played' = [k \in 1 .. count' |-> FrameShown(k - 1)]
               ELSE played' = <<>>
    <3>1. CASE UnpackAll
      BY <2>2, <2>4, <3>1 DEF FramesInv, UnpackAll, Reading
    <3>2. CASE ~ UnpackAll
      BY <1>3, <2>2, <2>4, <3>2 DEF FramesInv, PlaybackNext, Open, SinkSound,
         SoundOf, DecodeFrame, DecodePastEnd, ChunkDone, ModuleDone, Decoding,
         Reading, playbackVars, readerVars
    <3>3. QED
      BY <3>1, <3>2
  <2>5. QED
    BY <2>2, <2>3, <2>4 DEF FramesInv, FrameShown
<1>4. QED
  BY <1>2, <1>3

LEMMA FramesInvariant ==
  PlaybackSpec => [](SoundInv /\ DriftInv /\ ReaderInv /\ FramesInv)
<1>1. PlaybackInit => ReaderInv /\ FramesInv
  BY DEF PlaybackInit, ReaderInv, FramesInv
<1>2. QED
  BY <1>1, MovieInvariant, PlaybackSoundStep, ReaderStep, FramesStep, PTL
  DEF PlaybackSpec

\* What a reader of a movie that fits has shown is faithful, and complete
\* when it reaches the end.
LEMMA FitsPlays ==
  ASSUME SoundInv, ReaderInv, FramesInv, Fits
  PROVE  Faithful /\ (outcome = "played" => Complete)
<1>1. CASE outcome = "closed"
  BY <1>1 DEF ReaderInv, Faithful
<1>2. CASE outcome # "closed" /\ route = "module"
  <2>1. ModuleInv /\ IInv /\ phase = "planned"
    BY <1>2 DEF FramesInv, SoundInv, ReaderInv
  <2>2. Faithful
    BY <2>1 DEF ModuleInv, ShowsFirst, Faithful
  <2>3. outcome = "played" => Complete
    BY <2>1, ReachedAll DEF ModuleInv, ShowsFirst, Complete
  <2>4. QED
    BY <2>2, <2>3
<1>3. CASE outcome # "closed" /\ route = "packed"
  <2>1. CASE outcome = "played"
    <3>1. played = [k \in 1 .. count |-> FrameShown(k - 1)] /\ count \in Nat
      BY <1>3, <2>1 DEF FramesInv, SoundInv, IInv, TypeOK
    <3>2. Len(played) = count
      BY <3>1
    <3>3. QED
      BY <3>1, <3>2 DEF Faithful, Complete
  <2>2. CASE outcome # "played"
    BY <1>3, <2>2 DEF FramesInv, Faithful
  <2>3. QED
    BY <2>1, <2>2
<1>4. QED
  BY <1>1, <1>2, <1>3 DEF FramesInv

\* A movie with sound is never played past a frame: the header's frames per
\* chunk are at least the longest chunk's, for every length and every target
\* in half frames.
THEOREM SoundPlaysEveryFrame == PlaybackSpec => []SoundNeverSkips
<1>1. ASSUME SoundInv, DriftInv, ReaderInv, FramesInv
      PROVE  SoundNeverSkips
  <2>1. sound => Fits
    BY <1>1, SoundFits DEF SoundInv
  <2>2. QED
    BY <1>1, <2>1, FitsPlays DEF SoundNeverSkips
<1>2. QED
  BY <1>1, FramesInvariant, PTL

\* A movie of full chunks is played to its last frame and never refused.
THEOREM FullChunksAlwaysPlay == PlaybackSpec => []FullChunksPlay
<1>1. ASSUME SoundInv, ReaderInv, FramesInv, FullChunks, route = "module"
      PROVE  /\ Faithful
             /\ outcome # "died"
             /\ outcome = "played" => Complete
  <2>1. Fits
    BY <1>1 DEF FullChunks, Fits
  <2>2. outcome # "died"
    <3>1. SUFFICES ASSUME outcome = "died" PROVE FALSE
      OBVIOUS
    <3>2. PICK i \in ChunkIndices :
            i < Len(chunks) /\ chunks[i].frames < HeaderFrames
      BY <1>1, <2>1, <3>1 DEF FramesInv, ModuleInv
    <3>3. chunks[i].frames = HeaderFrames
      BY <1>1, <3>2 DEF FullChunks
    <3>4. chunks[i].frames \in Nat
      BY <1>1, ChunkTyped DEF SoundInv, ChunkIndices
    <3>5. QED
      BY <3>2, <3>3, <3>4
  <2>3. QED
    BY <1>1, <2>1, <2>2, FitsPlays
<1>2. QED
  BY <1>1, FramesInvariant, PTL DEF FullChunksPlay
=============================================================================
