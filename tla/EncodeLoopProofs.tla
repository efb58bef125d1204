--------------------------- MODULE EncodeLoopProofs ---------------------------
(***************************************************************************)
(* The encoder's frame loop keeps its reference in step with the decoder,  *)
(* and its motion cache in step with the frame, for every set of pictures, *)
(* every length of input and every sequence of retries.                    *)
(***************************************************************************)
EXTENDS EncodeLoop, WellFoundedInduction, TLAPS

References == Pictures \cup {NoPicture, Alone, AnyPicture}
AnyPayload == [from : References, shows : Pictures \cup {NoPicture}]

(***************************************************************************)
(* The strengthening of KeysFollow: the sink's two arrays grow together,   *)
(* one entry per finished frame until the padding starts; the reference is *)
(* a picture from the first frame on, so that it is none of the marks of a *)
(* payload that needs no particular picture.                               *)
(***************************************************************************)
SinkInv ==
  /\ frame \in Nat
  /\ status \in {"encoding", "padding", "assembled", "failed"}
  /\ payload \in AnyPayload
  /\ payloads \in Seq(AnyPayload) /\ keys \in Seq(Pictures)
  /\ Len(keys) = Len(payloads)
  /\ status = "encoding" => Len(keys) = frame
  /\ status = "padding" => Len(keys) > 0
  /\ Len(keys) >= frame
  /\ frame > 0 => previous \in Pictures
  /\ phase \in {"idle", "encode", "observe"}
  /\ phase = "observe" => recon \in Pictures

KeysInv == SinkInv /\ KeysFollow

\* An empty sink has no chain to break.
LEMMA InitKeys == EncodeInit => KeysInv
BY DEF EncodeInit, Init, LoopInit, KeysInv, SinkInv, KeysFollow, Positions,
   RepeatPayload, Payload, AnyPayload, References

\* A payload decoded against the picture it was coded against shows the
\* picture it was coded for.
LEMMA DecodeOwn ==
  ASSUME SinkInv, NEW picture \in Pictures, payload' = Payload(Reference, picture)
  PROVE  Decode(payload', IF frame = 0 THEN NoPicture ELSE previous) = picture
<1> USE EncodeAssumption DEF SinkInv, Payload, Decode, Alone, AnyPicture
<1>1. CASE Reference = Alone
  BY <1>1
<1>2. CASE Reference # Alone
  <2>1. Reference = previous /\ frame # 0 /\ previous \in Pictures
    BY <1>2 DEF Reference
  <2>2. QED
    BY <2>1
<1>3. QED
  BY <1>1, <1>2

\* Appending a frame to the sink keeps what was in it, and adds one position.
LEMMA AppendKeeps ==
  ASSUME SinkInv, NEW p \in AnyPayload, NEW k \in Pictures,
         payloads' = Append(payloads, p), keys' = Append(keys, k)
  PROVE  /\ payloads' \in Seq(AnyPayload) /\ keys' \in Seq(Pictures)
         /\ Len(keys') = Len(keys) + 1 /\ Len(payloads') = Len(keys')
         /\ \A i \in 1 .. Len(keys) :
              payloads'[i] = payloads[i] /\ keys'[i] = keys[i]
         /\ payloads'[Len(keys')] = p /\ keys'[Len(keys')] = k
BY DEF SinkInv

\* The chain of keys is extended by a payload that takes the last key to the
\* new one.
LEMMA ChainExtends ==
  ASSUME KeysInv, NEW p \in AnyPayload, NEW k \in Pictures,
         payloads' = Append(payloads, p), keys' = Append(keys, k),
         Decode(p, IF Len(keys) = 0 THEN NoPicture ELSE keys[Len(keys)]) = k
  PROVE  /\ Decode(payloads'[1], NoPicture) = keys'[1]
         /\ \A i \in Positions' \ {1} : Decode(payloads'[i], keys'[i - 1]) = keys'[i]
<1>1. SinkInv /\ KeysFollow
  BY DEF KeysInv
<1>2. /\ Len(keys) \in Nat /\ Len(keys') = Len(keys) + 1
      /\ Len(payloads') = Len(keys') /\ Len(payloads) = Len(keys)
      /\ \A i \in 1 .. Len(keys) :
           payloads'[i] = payloads[i] /\ keys'[i] = keys[i]
      /\ payloads'[Len(keys')] = p /\ keys'[Len(keys')] = k
  <2>1. Len(keys) \in Nat /\ Len(payloads) = Len(keys)
    BY <1>1 DEF SinkInv
  <2>2. QED
    BY <1>1, <2>1, AppendKeeps
<1>3. Decode(payloads'[1], NoPicture) = keys'[1]
  <2>1. CASE Len(keys) = 0
    BY <1>2, <2>1
  <2>2. CASE Len(keys) > 0
    BY <1>1, <1>2, <2>2 DEF KeysFollow
  <2>3. QED
    BY <1>2, <2>1, <2>2
<1>4. ASSUME NEW i \in Positions' \ {1}
      PROVE  Decode(payloads'[i], keys'[i - 1]) = keys'[i]
  <2>1. i \in Nat /\ i > 1 /\ i <= Len(keys) + 1
    BY <1>2 DEF Positions
  <2>2. CASE i <= Len(keys)
    <3>1. i \in Positions \ {1}
      BY <1>2, <2>1, <2>2 DEF Positions
    <3>2. Decode(payloads[i], keys[i - 1]) = keys[i]
      BY <1>1, <3>1 DEF KeysFollow
    <3>3. /\ payloads'[i] = payloads[i] /\ keys'[i] = keys[i]
          /\ keys'[i - 1] = keys[i - 1]
      BY <1>2, <2>1, <2>2
    <3>4. QED
      BY <3>2, <3>3
  <2>3. CASE i = Len(keys) + 1
    <3>1. keys'[i - 1] = keys[Len(keys)] /\ Len(keys) # 0
      BY <1>2, <2>1, <2>3
    <3>2. payloads'[i] = p /\ keys'[i] = k
      BY <1>2, <2>3
    <3>3. QED
      BY <3>1, <3>2
  <2>4. QED
    BY <1>2, <2>1, <2>2, <2>3
<1>5. QED
  BY <1>3, <1>4

\* A step that leaves the sink, the reference and the frame alone keeps the
\* invariant unless it starts an observation.
LEMMA SinkUntouched ==
  ASSUME KeysInv, UNCHANGED <<sinkVars, frame, previous, payload, recon>>,
         phase' \in {"idle", "encode", "observe"},
         phase' = "observe" => phase = "observe",
         status' \in {"encoding", "padding", "assembled", "failed"},
         status' = "encoding" => status = "encoding",
         status' = "padding" => Len(keys) > 0
  PROVE  KeysInv'
BY DEF KeysInv, SinkInv, KeysFollow, Positions, sinkVars, Payload

\* An attempt replaces the payload and the reconstruction together.
LEMMA AttemptStep ==
  ASSUME KeysInv, EncodeAttempt
  PROVE  KeysInv'
<1> PICK picture \in Pictures :
      recon' = picture /\ payload' = Payload(Reference, picture)
  BY DEF EncodeAttempt
<1>1. /\ phase' = "observe"
      /\ UNCHANGED <<frame, previous, payloads, keys, status>>
  BY DEF EncodeAttempt, Encode, sinkVars
<1>2. Decode(payload', IF frame = 0 THEN NoPicture ELSE previous) = recon'
  BY DecodeOwn DEF KeysInv
<1>3. payload' \in AnyPayload
  BY DEF AnyPayload, Payload, References, Reference, KeysInv, SinkInv
<1>4. SinkInv'
  BY <1>1, <1>3 DEF KeysInv, SinkInv
<1>5. KeysFollow'
  BY <1>1, <1>2 DEF KeysInv, KeysFollow, Positions
<1>6. QED
  BY <1>4, <1>5 DEF KeysInv

\* A kept attempt adds one link and becomes the reference.
LEMMA FinishStep ==
  ASSUME KeysInv, FinishFrame
  PROVE  KeysInv'
<1>1. SinkInv /\ KeysFollow
  BY DEF KeysInv
<1>2. /\ status = "encoding" /\ phase = "observe" /\ phase' = "idle"
      /\ payloads' = Append(payloads, payload) /\ keys' = Append(keys, recon)
      /\ previous' = recon /\ frame' = frame + 1
      /\ UNCHANGED <<payload, recon, status>>
  BY DEF FinishFrame, KeepAttempt, Accept, Keep
<1>3. payload \in AnyPayload /\ recon \in Pictures
  BY <1>1, <1>2 DEF SinkInv
<1>4. Len(keys) = frame /\ frame \in Nat
  BY <1>1, <1>2 DEF SinkInv
<1>5. Decode(payload, IF Len(keys) = 0 THEN NoPicture ELSE keys[Len(keys)])
        = recon
  BY <1>1, <1>2, <1>4 DEF KeysFollow
<1>6. /\ Decode(payloads'[1], NoPicture) = keys'[1]
      /\ \A i \in Positions' \ {1} : Decode(payloads'[i], keys'[i - 1]) = keys'[i]
  BY <1>2, <1>3, <1>5, ChainExtends
<1>7. /\ payloads' \in Seq(AnyPayload) /\ keys' \in Seq(Pictures)
      /\ Len(keys') = Len(keys) + 1 /\ Len(payloads') = Len(keys')
      /\ keys'[Len(keys')] = recon
  BY <1>1, <1>2, <1>3, AppendKeeps
<1>8. SinkInv'
  BY <1>1, <1>2, <1>3, <1>4, <1>7 DEF SinkInv
<1>9. KeysFollow'
  BY <1>2, <1>6, <1>7 DEF KeysFollow
<1>10. QED
  BY <1>8, <1>9 DEF KeysInv

\* A repeat payload adds a link from the last key to itself.
LEMMA PadStep ==
  ASSUME KeysInv, Pad
  PROVE  KeysInv'
<1>1. SinkInv /\ KeysFollow
  BY DEF KeysInv
<1> DEFINE last == keys[Len(keys)]
<1>2. /\ status = "padding"
      /\ payloads' = Append(payloads, RepeatPayload)
      /\ keys' = Append(keys, last)
      /\ UNCHANGED <<phase, frame, payload, recon, previous, status>>
  BY DEF Pad, loopVars
<1>3. last \in Pictures /\ Len(keys) > 0
  BY <1>1, <1>2 DEF SinkInv
<1>4. RepeatPayload \in AnyPayload
  BY DEF RepeatPayload, Payload, AnyPayload, References
<1>5. Decode(RepeatPayload, IF Len(keys) = 0 THEN NoPicture ELSE last) = last
  BY <1>3, EncodeAssumption
     DEF Decode, RepeatPayload, Payload, AnyPicture, Alone
<1> HIDE DEF last
<1>6. /\ Decode(payloads'[1], NoPicture) = keys'[1]
      /\ \A i \in Positions' \ {1} : Decode(payloads'[i], keys'[i - 1]) = keys'[i]
  BY <1>2, <1>3, <1>4, <1>5, ChainExtends DEF last
<1>7. /\ payloads' \in Seq(AnyPayload) /\ keys' \in Seq(Pictures)
      /\ Len(keys') = Len(keys) + 1 /\ Len(payloads') = Len(keys')
      /\ keys'[Len(keys')] = last
  BY <1>1, <1>2, <1>3, <1>4, AppendKeeps
<1>8. SinkInv'
  BY <1>1, <1>2, <1>7 DEF SinkInv
<1>9. frame > 0 => previous = last
  BY <1>1 DEF KeysFollow, last
<1>10. KeysFollow'
  BY <1>1, <1>2, <1>6, <1>7, <1>9 DEF KeysFollow
<1>11. QED
  BY <1>8, <1>10 DEF KeysInv

\* Each step of the frame loop keeps the keys in step with the decoder.
LEMMA KeysStep ==
  ASSUME KeysInv, [EncodeNext]_vars
  PROVE  KeysInv'
<1>1. CASE ReadFrame
  BY <1>1, SinkUntouched DEF ReadFrame, StartControl, KeysInv, SinkInv, sinkVars
<1>2. CASE EncodeAttempt
  BY <1>2, AttemptStep
<1>3. CASE Retry
  BY <1>3, SinkUntouched DEF Retry, Tighten, Loosen, RetryAt, driverVars,
     KeysInv, SinkInv, sinkVars
<1>4. CASE FinishFrame
  BY <1>4, FinishStep
<1>5. CASE EndOfInput
  BY <1>5, SinkUntouched DEF EndOfInput, loopVars, KeysInv, SinkInv, sinkVars
<1>6. CASE Pad
  BY <1>6, PadStep
<1>7. CASE Assemble
  BY <1>7, SinkUntouched DEF Assemble, loopVars, KeysInv, SinkInv, sinkVars
<1>8. CASE Fail
  BY <1>8, SinkUntouched DEF Fail, loopVars, KeysInv, SinkInv, sinkVars
<1>9. CASE UNCHANGED vars
  BY <1>9, SinkUntouched DEF vars, loopVars, driverVars, KeysInv, SinkInv,
     sinkVars
<1>10. QED
  BY <1>1, <1>2, <1>3, <1>4, <1>5, <1>6, <1>7, <1>8, <1>9
     DEF EncodeNext, FrameStep

\* The encoder's reference is always what a decoder shows, and every key
\* takes the next payload to the next key, through any number of retries.
THEOREM KeysAlwaysFollow == EncodeSpec => []KeysFollow
<1>1. KeysInv => KeysFollow
  BY DEF KeysInv
<1>2. QED
  BY <1>1, InitKeys, KeysStep, PTL DEF EncodeSpec

-----------------------------------------------------------------------------

\* No frame is coded with the motion search of another.
THEOREM CacheAlwaysFresh == EncodeSpec => []CacheIsFresh
<1>1. EncodeInit => CacheIsFresh
  BY DEF EncodeInit, Init, LoopInit, CacheIsFresh
<1>2. CacheIsFresh /\ [EncodeNext]_vars => CacheIsFresh'
  <2> SUFFICES ASSUME CacheIsFresh, [EncodeNext]_vars
               PROVE  CacheIsFresh'
    OBVIOUS
  <2> USE DEF CacheIsFresh
  <2>1. CASE ReadFrame
    BY <2>1 DEF ReadFrame
  <2>2. CASE EncodeAttempt
    BY <2>2 DEF EncodeAttempt, Encode
  <2>3. CASE Retry
    BY <2>3 DEF Retry, Tighten, Loosen, RetryAt, driverVars
  <2>4. CASE FinishFrame
    BY <2>4 DEF FinishFrame, KeepAttempt, Accept, Keep
  <2>5. CASE EndOfInput \/ Pad \/ Assemble \/ Fail \/ UNCHANGED vars
    BY <2>5 DEF EndOfInput, Pad, Assemble, Fail, vars, loopVars, driverVars
  <2>6. QED
    BY <2>1, <2>2, <2>3, <2>4, <2>5 DEF EncodeNext, FrameStep
<1>3. QED
  BY <1>1, <1>2, PTL DEF EncodeSpec

-----------------------------------------------------------------------------
(* What a player shows: the function PlayFrom defines by recursion on the   *)
(* position is the array of keys, whichever chunk the player starts at.     *)

\* Every non-empty set of naturals has a least element: the form of induction
\* the proofs about PlayFrom use.
LEMMA LeastNat ==
  ASSUME NEW T \in SUBSET Nat, T # {}
  PROVE  \E m \in T : \A k \in T : m <= k
<1> DEFINE R == OpToRel(<, Nat)
<1>1. IsWellFoundedOn(R, Nat)
  BY NatLessThanWellFounded
<1>2. \A x, y \in Nat : x < y => <<x, y>> \in R
  BY Zenon DEF OpToRel
<1> HIDE DEF R
<1>3. PICK m \in T : \A y \in T : <<y, m>> \notin R
  BY <1>1, WFMin
<1>4. \A k \in T : k \in Nat /\ m \in Nat /\ ~ (k < m)
  BY <1>2, <1>3
<1>5. QED
  BY <1>3, <1>4

\* The picture after `i` payloads.
Shown(i) == IF i = 0 THEN NoPicture ELSE keys[i]

\* One payload takes the picture shown to the next one.
LEMMA ShownFollows ==
  ASSUME KeysInv, NEW i \in Positions
  PROVE  Decode(payloads[i], Shown(i - 1)) = Shown(i)
<1>1. Len(keys) = Len(payloads) /\ Len(keys) \in Nat
  BY DEF KeysInv, SinkInv
<1>2. i \in Nat /\ i >= 1 /\ i <= Len(keys)
  BY <1>1 DEF Positions
<1>3. CASE i = 1
  BY <1>2, <1>3 DEF KeysInv, KeysFollow, Shown
<1>4. CASE i # 1
  <2>1. i - 1 # 0 /\ i # 0
    BY <1>2, <1>4
  <2>2. Decode(payloads[i], keys[i - 1]) = keys[i]
    BY <1>4 DEF KeysInv, KeysFollow
  <2>3. QED
    BY <2>1, <2>2 DEF Shown
<1>5. QED
  BY <1>3, <1>4

\* The recursion has one solution, and it is the keys: the smallest position
\* where another solution differed would follow one where it does not.
LEMMA PlayShowsKeys ==
  ASSUME KeysInv, NEW start \in 0 .. Len(payloads)
  PROVE  \A i \in start .. Len(payloads) : PlayFrom(start)[i] = Shown(i)
<1> DEFINE Span == start .. Len(payloads)
           Body(show, i) ==
             IF i > start THEN Decode(payloads[i], show[i - 1])
             ELSE IF i = 0 THEN NoPicture ELSE keys[i]
           Unfolds(show) == show = [i \in Span |-> Body(show, i)]
           shown == [i \in Span |-> Shown(i)]
           play == PlayFrom(start)
<1>1. Len(payloads) \in Nat
  BY DEF KeysInv, SinkInv
<1>2. ASSUME NEW i \in Span
      PROVE  /\ i \in Nat
             /\ i > start => i - 1 \in Span /\ i \in Positions
  BY <1>1 DEF Positions
<1>3. ASSUME NEW i \in Span
      PROVE  Shown(i) = Body(shown, i)
  <2>1. CASE i > start
    <3>1. i - 1 \in Span /\ i \in Positions
      BY <1>2, <2>1
    <3>2. shown[i - 1] = Shown(i - 1)
      BY <3>1
    <3>3. Decode(payloads[i], Shown(i - 1)) = Shown(i)
      BY <3>1, ShownFollows
    <3>4. QED
      BY <2>1, <3>2, <3>3, Zenon
  <2>2. CASE ~ (i > start)
    BY <2>2 DEF Shown
  <2>3. QED
    BY <2>1, <2>2
<1>4. Unfolds(shown)
  BY <1>3, Zenon
<1>5. play = CHOOSE show : Unfolds(show)
  BY Zenon DEF PlayFrom
<1>6. Unfolds(play)
  BY <1>4, <1>5, Zenon
<1> DEFINE Wrong == {i \in Span : play[i] # Shown(i)}
<1>7. Wrong = {}
  <2>1. SUFFICES ASSUME Wrong # {}
                 PROVE  FALSE
    OBVIOUS
  <2>2. Wrong \in SUBSET Nat
    BY <1>2
  <2> HIDE DEF Wrong
  <2>3. PICK m \in Wrong : \A k \in Wrong : m <= k
    BY <2>1, <2>2, LeastNat
  <2>4. m \in Span /\ play[m] # Shown(m)
    BY <2>3 DEF Wrong
  <2>5. play[m] = Body(play, m)
    BY <1>6, <2>4, Zenon
  <2>6. CASE m > start
    <3>1. m - 1 \in Span /\ m \in Positions /\ m \in Nat
      BY <1>2, <2>4, <2>6
    <3>2. m - 1 \notin Wrong
      <4>1. ~ (m <= m - 1)
        BY <3>1
      <4>2. QED
        BY <2>3, <4>1
    <3>3. play[m - 1] = Shown(m - 1)
      BY <3>1, <3>2, Zenon DEF Wrong
    <3>4. Decode(payloads[m], Shown(m - 1)) = Shown(m)
      BY <3>1, ShownFollows
    <3>5. QED
      BY <2>4, <2>5, <2>6, <3>3, <3>4, Zenon
  <2>7. CASE ~ (m > start)
    BY <2>4, <2>5, <2>7, Zenon DEF Shown
  <2>8. QED
    BY <2>6, <2>7
<1>8. QED
  BY <1>7

(***************************************************************************)
(* What the padding adds to KeysInv: the target is whole chunks and is not *)
(* passed, and every key after the last real frame's is the reference.     *)
(***************************************************************************)
PaddingInv ==
  /\ status \in {"padding", "assembled"} =>
       /\ frame > 0
       /\ perChunk \in Nat \ {0}
       /\ target \in Nat
       /\ \E chunks \in Nat : target = chunks * perChunk
       /\ Len(payloads) <= target
  /\ status = "assembled" => Len(payloads) = target
  /\ \A i \in frame + 1 .. Len(payloads) : keys[i] = previous

\* A whole number of chunks leaves no remainder.
LEMMA WholeChunks ==
  ASSUME NEW m \in Nat, NEW p \in Nat \ {0}
  PROVE  (m * p) % p = 0
<1> DEFINE n == m * p
<1>1. n \in Nat
  OBVIOUS
<1> HIDE DEF n
<1>2. /\ n = p * (n \div p) + (n % p) /\ n % p \in 0 .. p - 1
      /\ n \div p \in Int
  BY <1>1
<1> DEFINE d == m - n \div p
<1>3. p * d = n % p
  BY <1>2 DEF n
<1>4. d \in Int
  BY <1>2
<1> HIDE DEF d
<1>5. ~ d >= 1
  <2>1. SUFFICES ASSUME d >= 1 PROVE FALSE
    OBVIOUS
  <2>2. PICK e \in Nat : d = 1 + e
    BY <1>4, <2>1
  <2>3. p * d = p + p * e /\ p * e \in Nat
    BY <2>2
  <2>4. QED
    BY <1>2, <1>3, <2>3
<1>6. ~ d <= -1
  <2>1. SUFFICES ASSUME d <= -1 PROVE FALSE
    OBVIOUS
  <2>2. PICK e \in Nat : 0 = d + (1 + e)
    <3>1. 0 - d - 1 \in Nat /\ 0 = d + (1 + (0 - d - 1))
      BY <1>4, <2>1
    <3>2. QED
      BY <3>1
  <2>3. p * (d + (1 + e)) = p * d + (p + p * e) /\ p * e \in Nat
    BY <1>4
  <2>4. p * (d + (1 + e)) = 0
    BY <2>2
  <2>5. QED
    BY <1>2, <1>3, <2>3, <2>4
<1>7. d = 0
  BY <1>4, <1>5, <1>6
<1>8. n % p = 0
  BY <1>3, <1>7
<1>9. QED
  BY <1>8 DEF n

\* pad_sink_for_chunks answers whole chunks, at least as many frames as it
\* was told of, and a chunk is never empty.
LEMMA PadsToChunks ==
  ASSUME NEW real \in Nat \ {0}, NEW fpc \in Nat, NEW audio \in BOOLEAN
  PROVE  /\ EffectiveFrames(real, fpc, audio) \in Nat \ {0}
         /\ PaddedCount(real, fpc, audio) \in Nat
         /\ \E chunks \in Nat : PaddedCount(real, fpc, audio)
                                  = chunks * EffectiveFrames(real, fpc, audio)
         /\ real <= PaddedCount(real, fpc, audio)
<1> DEFINE chunk == EffectiveFrames(real, fpc, audio)
<1>1. chunk \in Nat \ {0}
  BY DEF EffectiveFrames, AtLeast, MinimumFrames, CeilDiv, Requested
<1>2. CASE SplitInTwo(real, fpc, audio)
  <2>1. PaddedCount(real, fpc, audio) = 2 * chunk
    BY <1>2 DEF PaddedCount
  <2>2. chunk >= CeilDiv(real, 2) /\ CeilDiv(real, 2) \in Nat
    BY <1>2 DEF EffectiveFrames, AtLeast, MinimumFrames, CeilDiv
  <2>3. 2 * CeilDiv(real, 2) >= real
    BY DEF CeilDiv
  <2> HIDE DEF chunk
  <2>4. real <= 2 * chunk
    BY <1>1, <2>2, <2>3
  <2>5. QED
    BY <1>1, <2>1, <2>4 DEF chunk
<1>3. CASE ~ SplitInTwo(real, fpc, audio)
  <2>1. PaddedCount(real, fpc, audio) = CeilDiv(real, chunk) * chunk
    BY <1>3 DEF PaddedCount
  <2> HIDE DEF chunk
  <2> DEFINE n == real + chunk - 1
  <2>2. n \in Nat
    BY <1>1
  <2>3. CeilDiv(real, chunk) = n \div chunk
    BY DEF CeilDiv
  <2> HIDE DEF n
  <2>4. /\ n = chunk * (n \div chunk) + (n % chunk)
        /\ n % chunk \in 0 .. chunk - 1 /\ n \div chunk \in Nat
    BY <1>1, <2>2
  <2>5. real <= chunk * (n \div chunk)
    BY <1>1, <2>4 DEF n
  <2>6. (n \div chunk) * chunk = chunk * (n \div chunk)
    BY <1>1, <2>4
  <2>7. chunk * (n \div chunk) \in Nat
    BY <1>1, <2>4
  <2>8. QED
    BY <1>1, <2>1, <2>3, <2>4, <2>5, <2>6, <2>7 DEF chunk
<1>4. QED
  BY <1>2, <1>3

\* Each step of the frame loop keeps the padding a frozen tail.
LEMMA PaddingStep ==
  ASSUME KeysInv, PaddingInv, [EncodeNext]_vars
  PROVE  PaddingInv'
<1> USE DEF PaddingInv
<1>1. SinkInv /\ KeysFollow /\ KeysInv'
  BY KeysStep DEF KeysInv
<1>2. CASE ReadFrame \/ EncodeAttempt \/ Retry
  BY <1>2 DEF ReadFrame, EncodeAttempt, Retry, StartControl, Encode, driverVars,
     sinkVars, planVars
<1>3. CASE FinishFrame
  <2>1. status' = "encoding"
    BY <1>3 DEF FinishFrame
  <2>2. /\ Len(payloads') = Len(payloads) + 1 /\ frame' = frame + 1
        /\ Len(payloads) = frame /\ frame \in Nat
    BY <1>1, <1>3, AppendKeeps DEF FinishFrame, KeepAttempt, Accept, Keep, SinkInv
  <2>3. \A i \in frame' + 1 .. Len(payloads') : FALSE
    BY <2>2
  <2>4. QED
    BY <2>1, <2>3
<1>4. CASE EndOfInput
  <2>1. PICK fpc \in ChunkSizes, audio \in BOOLEAN :
          /\ target' = PaddedCount(Len(payloads), fpc, audio)
          /\ perChunk' = EffectiveFrames(Len(payloads), fpc, audio)
    BY <1>4 DEF EndOfInput
  <2>2. /\ status = "encoding"
        /\ status' = IF frame = 0 THEN "failed" ELSE "padding"
        /\ UNCHANGED <<frame, previous, payloads, keys>>
    BY <1>4 DEF EndOfInput, sinkVars
  <2>3. Len(payloads) = frame /\ frame \in Nat
    BY <1>1, <2>2 DEF SinkInv
  <2>4. CASE frame = 0
    BY <2>2, <2>3, <2>4
  <2>5. CASE frame # 0
    <3>1. Len(payloads) \in Nat \ {0} /\ fpc \in Nat
      BY <2>3, <2>5, EncodeAssumption
    <3>2. /\ perChunk' \in Nat \ {0} /\ target' \in Nat
          /\ \E chunks \in Nat : target' = chunks * perChunk'
          /\ Len(payloads) <= target'
      BY <2>1, <3>1, PadsToChunks
    <3>3. \A i \in frame + 1 .. Len(payloads) : FALSE
      BY <2>3
    <3>4. status' = "padding" /\ frame > 0
      BY <2>2, <2>3, <2>5
    <3>5. QED
      BY <2>2, <3>2, <3>3, <3>4
  <2>6. QED
    BY <2>4, <2>5
<1>5. CASE Pad
  <2>1. /\ status = "padding" /\ Len(payloads) < target
        /\ payloads' = Append(payloads, RepeatPayload)
        /\ keys' = Append(keys, keys[Len(keys)])
        /\ UNCHANGED <<frame, previous, target, perChunk, status>>
    BY <1>5 DEF Pad, planVars
  <2>2. Len(keys) = Len(payloads) /\ Len(keys) \in Nat \ {0} /\ frame \in Nat
        /\ keys \in Seq(Pictures) /\ frame <= Len(keys)
    BY <1>1, <2>1 DEF SinkInv
  <2>3. previous = keys[Len(keys)]
    BY <1>1, <2>1 DEF KeysFollow
  <2>4. Len(payloads') = Len(payloads) + 1
    BY <1>1, <2>1 DEF SinkInv
  <2>5. ASSUME NEW i \in frame + 1 .. Len(payloads')
        PROVE  keys'[i] = previous
    <3>1. CASE i <= Len(keys)
      <4>1. keys'[i] = keys[i]
        BY <2>1, <2>2, <3>1
      <4>2. QED
        BY <2>2, <3>1, <4>1
    <3>2. CASE i = Len(keys) + 1
      <4>1. keys'[Len(keys) + 1] = keys[Len(keys)]
        BY <2>1, <2>2
      <4>2. QED
        BY <2>3, <3>2, <4>1
    <3>3. i <= Len(keys) \/ i = Len(keys) + 1
      BY <2>2, <2>4
    <3>4. QED
      BY <3>1, <3>2, <3>3
  <2>6. Len(payloads') <= target
    BY <2>1, <2>2, <2>4
  <2>7. QED
    BY <2>1, <2>5, <2>6
<1>6. CASE Assemble
  <2>1. /\ status = "padding" /\ status' = "assembled" /\ Len(payloads) >= target
        /\ UNCHANGED <<frame, previous, payloads, keys, target, perChunk>>
    BY <1>6 DEF Assemble, sinkVars, planVars
  <2>2. Len(payloads) \in Nat
    BY <1>1 DEF SinkInv
  <2>3. QED
    BY <2>1, <2>2
<1>7. CASE Fail \/ UNCHANGED vars
  BY <1>7 DEF Fail, vars, driverVars, sinkVars, planVars
<1>8. QED
  BY <1>2, <1>3, <1>4, <1>5, <1>6, <1>7 DEF EncodeNext, FrameStep

LEMMA MovieInvariant == EncodeSpec => [](KeysInv /\ PaddingInv)
<1>1. EncodeInit => PaddingInv
  BY DEF EncodeInit, PaddingInv
<1>2. QED
  BY <1>1, InitKeys, KeysStep, PaddingStep, PTL DEF EncodeSpec

\* A movie opened at any chunk boundary shows what continuous play shows, to
\* the end of the padding, and never garbage.
THEOREM SeekShowsPlay == EncodeSpec => []SeekEqualsPlay
<1>1. ASSUME KeysInv, PaddingInv
      PROVE  SeekEqualsPlay
  <2>1. SUFFICES ASSUME status = "assembled",
                        NEW chunk \in 0 .. Len(payloads) \div perChunk - 1,
                        NEW i \in chunk * perChunk + 1 .. Len(payloads)
                 PROVE  PlayFrom(chunk * perChunk)[i] = PlayFrom(0)[i]
                        /\ PlayFrom(0)[i] # Garbage
    BY DEF SeekEqualsPlay
  <2>2. /\ perChunk \in Nat \ {0} /\ Len(payloads) \in Nat
        /\ Len(keys) = Len(payloads) /\ keys \in Seq(Pictures)
    BY <1>1, <2>1 DEF KeysInv, SinkInv, PaddingInv
  <2> DEFINE start == chunk * perChunk
  <2>3. start \in Nat
    <3>1. chunk \in Nat
      BY <2>2
    <3>2. QED
      BY <2>2, <3>1
  <2> HIDE DEF start
  <2>4. i \in start + 1 .. Len(payloads)
    BY DEF start
  <2>5. /\ start \in 0 .. Len(payloads) /\ 0 \in 0 .. Len(payloads)
        /\ i \in start .. Len(payloads) /\ i \in 0 .. Len(payloads) /\ i # 0
    BY <2>2, <2>3, <2>4
  <2>6. PlayFrom(start)[i] = Shown(i) /\ PlayFrom(0)[i] = Shown(i)
    BY <1>1, <2>5, PlayShowsKeys
  <2>7. Shown(i) \in Pictures
    BY <2>2, <2>5 DEF Shown
  <2>8. QED
    BY <2>6, <2>7, EncodeAssumption DEF start
<1>2. QED
  BY <1>1, MovieInvariant, PTL

\* The movie handed to the writer is whole chunks, and its padding shows the
\* last real frame.
THEOREM TailIsFrozen == EncodeSpec => []FrozenTail
<1>1. ASSUME KeysInv, PaddingInv
      PROVE  FrozenTail
  <2>1. SUFFICES ASSUME status = "assembled"
                 PROVE  /\ Len(payloads) % perChunk = 0
                        /\ \A i \in frame + 1 .. Len(payloads) :
                             PlayFrom(0)[i] = previous
    BY DEF FrozenTail
  <2>2. /\ perChunk \in Nat \ {0} /\ Len(payloads) = target /\ frame \in Nat
        /\ Len(payloads) \in Nat
    BY <1>1, <2>1 DEF KeysInv, SinkInv, PaddingInv
  <2>3. PICK chunks \in Nat : target = chunks * perChunk
    BY <1>1, <2>1 DEF PaddingInv
  <2>4. Len(payloads) % perChunk = 0
    BY <2>2, <2>3, WholeChunks
  <2>5. ASSUME NEW i \in frame + 1 .. Len(payloads)
        PROVE  PlayFrom(0)[i] = previous
    <3>1. i # 0 /\ i \in 0 .. Len(payloads) /\ 0 \in 0 .. Len(payloads)
      BY <2>2
    <3>2. PlayFrom(0)[i] = Shown(i)
      BY <1>1, <3>1, PlayShowsKeys
    <3>3. QED
      BY <1>1, <3>1, <3>2 DEF Shown, PaddingInv
  <2>6. QED
    BY <2>4, <2>5
<1>2. QED
  BY <1>1, MovieInvariant, PTL
=============================================================================
