------------------------------ MODULE EncodeLoop ------------------------------
(***************************************************************************)
(* The block encoders' frame loop: run_mb_encode (types 7, 17, 20) and the *)
(* type 19 loop of main (tools/replay_encode.c), from the first input      *)
(* frame to the padded FrameSink that replay_ae7_write is given.  The rate *)
(* search of RateControl runs inside it, once per frame after the first.   *)
(*                                                                         *)
(* A payload is abstracted to what a decoder needs to know of it: the      *)
(* picture it was coded against, if any, and the picture it shows when     *)
(* decoded against that one.  Decoded against another it shows garbage.    *)
(***************************************************************************)
EXTENDS RateControl, ChunkPadding, Sequences

CONSTANTS
  Pictures,      \* reconstructions the encoder can arrive at
  RateTarget,    \* --target-bytes was given: target_bytes != 0
  DataOnly,      \* --data-only: no tool refers to another picture
  ChunkSizes,    \* values of --frames-per-chunk
  MaxFrames      \* bound: frames in the input

NoPicture == "none"      \* uninitialised, before the first frame
Garbage == "garbage"     \* what a decoder shows for a payload it cannot apply
Alone == "alone"         \* a payload that refers to no other picture
AnyPicture == "any"      \* a repeat payload applies to whatever is shown
Cold == -1

ASSUME EncodeAssumption ==
  /\ RateTarget \in BOOLEAN
  /\ DataOnly \in BOOLEAN
  /\ ChunkSizes \subseteq Nat
  /\ NoPicture \notin Pictures /\ Garbage \notin Pictures
  /\ Alone \notin Pictures /\ AnyPicture \notin Pictures
  /\ MaxFrames \in Nat

VARIABLES
  frame,      \* frame_number: frames finished
  payload,    \* the payload buffer
  recon,      \* recon_pixels: the reconstruction of the latest encode
  previous,   \* previous_pixels: what a decoder shows after the last frame
  cachedFor,  \* the frame whose motion search the workspace caches, or Cold
  payloads,   \* sink->payloads
  keys,       \* sink->keys
  target,     \* the number of frames the sink is padded to
  perChunk,   \* eff_fpc
  status      \* "encoding", "padding", "assembled" or "failed"

sinkVars == <<payloads, keys>>
planVars == <<target, perChunk>>
driverVars == <<frame, payload, recon, previous, cachedFor, sinkVars, planVars,
                status>>
vars == <<loopVars, driverVars>>

Payload(from, shows) == [from |-> from, shows |-> shows]

\* mb_repeat_payload: every block is stationary.
RepeatPayload == Payload(AnyPicture, NoPicture)

\* A decoder showing `picture` is given payload p.
Decode(p, picture) ==
  CASE p.from = AnyPicture -> picture
    [] p.from = Alone      -> p.shows
    [] p.from = picture    -> p.shows
    [] OTHER               -> Garbage

\* rate_enabled: the first frame is encoded at the requested level.
RateEnabled == RateTarget /\ frame > 0

\* previous_arg == NULL and --data-only forbid references to other pictures.
Reference == IF frame = 0 \/ DataOnly THEN Alone ELSE previous

-----------------------------------------------------------------------------

EncodeInit ==
  /\ Init
  /\ frame = 0
  /\ payload = RepeatPayload /\ recon = NoPicture /\ previous = NoPicture
  /\ cachedFor = Cold
  /\ payloads = <<>> /\ keys = <<>>
  /\ target = 0 /\ perChunk = 0
  /\ status = "encoding"

\* Seeded fault: the workspace is not reset for a new frame.
ReadFrameKeepsCache ==
  /\ status = "encoding"
  /\ frame < MaxFrames
  /\ StartControl
  /\ UNCHANGED driverVars

\* The next frame is read: the control is initialised at the carried level
\* and every cached motion search is dropped.
ReadFrame ==
  /\ status = "encoding"
  /\ frame < MaxFrames
  /\ StartControl
  /\ cachedFor' = Cold
  /\ UNCHANGED <<frame, payload, recon, previous, sinkVars, planVars, status>>

\* One attempt overwrites the payload buffer and the reconstruction.  The
\* workspace is passed only when the rate control may retry; a search it
\* already holds is used as it is.
EncodeAttempt ==
  /\ status = "encoding"
  /\ Encode
  /\ \E picture \in Pictures :
       /\ recon' = picture
       /\ payload' = Payload(Reference, picture)
  /\ cachedFor' = IF RateEnabled /\ cachedFor = Cold THEN frame ELSE cachedFor
  /\ UNCHANGED <<frame, previous, sinkVars, planVars, status>>

Retry ==
  /\ status = "encoding"
  /\ RateEnabled
  /\ Tighten \/ Loosen
  /\ UNCHANGED driverVars

KeepAttempt == IF RateEnabled THEN Accept ELSE phase = "observe" /\ Keep

\* Seeded fault: the first reference is never replaced.
FinishFrameKeepsReference ==
  /\ status = "encoding"
  /\ KeepAttempt
  /\ payloads' = Append(payloads, payload)
  /\ keys' = Append(keys, recon)
  /\ previous' = IF frame = 0 THEN recon ELSE previous
  /\ frame' = frame + 1
  /\ UNCHANGED <<payload, recon, cachedFor, planVars, status>>

\* Seeded fault: a frame that does not fit is dropped and never counted.
FinishFrameDropsMisfit ==
  /\ status = "encoding"
  /\ KeepAttempt
  /\ IF RateEnabled /\ (size < TargetMin \/ size > TargetMax)
     THEN UNCHANGED <<payloads, keys, previous, frame>>
     ELSE /\ payloads' = Append(payloads, payload)
          /\ keys' = Append(keys, recon)
          /\ previous' = recon
          /\ frame' = frame + 1
  /\ UNCHANGED <<payload, recon, cachedFor, planVars, status>>

\* Seeded fault: the key stored is the picture the frame was coded against.
FinishFrameKeyBefore ==
  /\ status = "encoding"
  /\ KeepAttempt
  /\ payloads' = Append(payloads, payload)
  /\ keys' = Append(keys, IF frame = 0 THEN recon ELSE previous)
  /\ previous' = recon
  /\ frame' = frame + 1
  /\ UNCHANGED <<payload, recon, cachedFor, planVars, status>>

\* The attempt is kept: frame_sink_add collects the payload buffer and the
\* key, and the reconstruction becomes the next frame's reference.
FinishFrame ==
  /\ status = "encoding"
  /\ KeepAttempt
  /\ payloads' = Append(payloads, payload)
  /\ keys' = Append(keys, recon)
  /\ previous' = recon
  /\ frame' = frame + 1
  /\ UNCHANGED <<payload, recon, cachedFor, planVars, status>>

\* The input, or --frames, is exhausted: pad_sink_for_chunks sees the real
\* frame count and the container's options.  "no frames encoded" refuses an
\* empty movie.
EndOfInput ==
  /\ status = "encoding"
  /\ phase = "idle"
  /\ status' = IF frame = 0 THEN "failed" ELSE "padding"
  /\ \E fpc \in ChunkSizes, audio \in BOOLEAN :
       /\ target' = PaddedCount(Len(payloads), fpc, audio)
       /\ perChunk' = EffectiveFrames(Len(payloads), fpc, audio)
  /\ UNCHANGED <<loopVars, frame, payload, recon, previous, cachedFor, sinkVars>>

\* frame_sink_add with no reconstruction: the key of the frame before is used
\* again.
Pad ==
  /\ status = "padding"
  /\ Len(payloads) < target
  /\ payloads' = Append(payloads, RepeatPayload)
  /\ keys' = Append(keys, keys[Len(keys)])
  /\ UNCHANGED <<loopVars, frame, payload, recon, previous, cachedFor, planVars,
                 status>>

Assemble ==
  /\ status = "padding"
  /\ Len(payloads) >= target
  /\ status' = "assembled"
  /\ UNCHANGED <<loopVars, frame, payload, recon, previous, cachedFor, sinkVars,
                 planVars>>

\* A truncated frame, a failed encode, self-check or allocation, an unwritable
\* file: result stays EXIT_FAILURE and nothing is assembled.
Fail ==
  /\ status \in {"encoding", "padding"}
  /\ status' = "failed"
  /\ UNCHANGED <<loopVars, frame, payload, recon, previous, cachedFor, sinkVars,
                 planVars>>

FrameStep == EncodeAttempt \/ Retry \/ FinishFrame

EncodeNext ==
  ReadFrame \/ FrameStep \/ EndOfInput \/ Pad \/ Assemble \/ Fail

\* The program is one thread of straight-line code that stops only by itself.
EncodeFairness == WF_vars(EncodeNext)

EncodeSpec == EncodeInit /\ [][EncodeNext]_vars /\ EncodeFairness

-----------------------------------------------------------------------------

Positions == 1 .. Len(payloads)

(***************************************************************************)
(* "The previous buffer always contains decoder-visible reconstruction,    *)
(* not source pixels" (replay_encode.c:2088), through any number of        *)
(* retries: a decoder that has key i and is given payload i + 1 arrives at *)
(* key i + 1, the first payload needs no picture, and the encoder's        *)
(* reference is the last key.                                              *)
(***************************************************************************)
KeysFollow ==
  /\ Len(keys) > 0 => Decode(payloads[1], NoPicture) = keys[1]
  /\ \A i \in Positions \ {1} : Decode(payloads[i], keys[i - 1]) = keys[i]
  /\ frame > 0 => previous = keys[Len(keys)]
  /\ phase = "observe" =>
       Decode(payload, IF frame = 0 THEN NoPicture ELSE previous) = recon

\* What a decoder shows that starts after frame `start` from its key.
PlayFrom(start) ==
  LET show[i \in start .. Len(payloads)] ==
        IF i > start THEN Decode(payloads[i], show[i - 1])
        ELSE IF i = 0 THEN NoPicture ELSE keys[i]
  IN  show

\* A player that opens the movie at any chunk boundary shows, to the end of
\* the padding, the pictures continuous play shows and never garbage.
SeekEqualsPlay ==
  status = "assembled" =>
    \A chunk \in 0 .. Len(payloads) \div perChunk - 1 :
      LET start == chunk * perChunk
      IN  \A i \in start + 1 .. Len(payloads) :
            PlayFrom(start)[i] = PlayFrom(0)[i] /\ PlayFrom(0)[i] # Garbage

\* The workspace never carries a motion search into another frame: a vector
\* found for one picture pair would be reused unmeasured on the next.
CacheIsFresh == phase # "idle" => cachedFor \in {Cold, frame}

\* The movie handed to the writer is whole chunks, and the padding is a
\* frozen tail: it shows the last real frame.
FrozenTail ==
  status = "assembled" =>
    /\ Len(payloads) % perChunk = 0
    /\ \A i \in frame + 1 .. Len(payloads) : PlayFrom(0)[i] = previous

\* A finite input is always turned into a movie or a failure.
Ends == <>(status \in {"assembled", "failed"})
=============================================================================
