# Scotch: a verification development

Scotch reads and writes Acorn Replay (ARMovie, AE7) movies.  `replay-encode`
turns raw video into block-coded frames of types 7, 17, 19 and 20 (and Moving
Lines, type 1) and a playable movie; `replay-transcode` goes the other way and
re-encodes; `replay-join` assembles movies from parts; a small ARM emulator runs
the original decompressors to cross-check the encoders.

Paths below are relative to the repository, line numbers are those of the
commit the modules were written from.

## 1. The system

| component | state it keeps | operations | talks to |
|---|---|---|---|
| rate control (`src/mb_rate_control.c`) and bracketed search (`tools/replay_encode.c:95-198`) | window, row of the quality table, direction; the bracket | init, observe, bracketed_rate_next | the frame loop asks it after every encode |
| encoder frame loop and FrameSink (`run_mb_encode`, the type 19 loop of `main`) | carried row, payload buffer, reconstruction, reference picture, search workspace, collected payloads and keys | read, encode, retry, keep, pad, assemble | block coders, rate control, container writer |
| motion search (`src/mb_encode.c`, `src/mb_quality.c`) | one cache entry per block, valid for a frame | reset, cached search, pruned search | block coders |
| block coders (`src/codec_*.c`, `src/mb_motion.c`, `src/mb_frame_verify.c`) | tentative reconstruction, bit writer | encode and verify a frame | motion search, bit streams |
| container writer (`src/replay_ae7_write.c`) | chunk table, header, catalogue | partition, slice sound, lay out, assemble | called once with everything |
| parser, transcode (`src/replay_ae7.c`, `tools/replay_transcode.c`) | movie description, decoder state | parse, validate, decode, re-encode | codecs, NUT, sound |
| CodecIf host (`src/replay_codecif.c`) | emulated memory and workspace of a decompressor | open, load payload, decode, close | ARM emulator |
| bit streams, buffers (`src/replay_bitstream.c`, `src/replay_buffer.c`) | bytes and a partial byte | write, flush, read, append | everything |
| NUT muxer (`src/replay_nut.c`), MovieFS iterator (`src/replay_moviefs.c`), sound codecs (`src/replay_sound.c`) | last timestamps, a cursor, ADPCM predictor | write packet, next frame, encode | transcode, writer |

The program is single-threaded and keeps nothing on disk between runs: there are
no races and no crash recovery.  What is hard is *protocol over time*: state that
is carried from a retry to the next, from a frame to the next, from the encoder
to a decoder that may start anywhere, and from the encoder's idea of a chunk to
the player's.  The behaviours the modules are aimed at:

- the retry loop: it must end, on a row that can be defended, and leave behind
  the payload, reconstruction and cache of the attempt that was kept;
- two searches that are documented to agree;
- a cache filled by one attempt and consulted by others at other quality rows;
- a decoder that starts at a chunk boundary from a key;
- a block decoder that has only the codes, against an encoder that tries
  candidates, throws them away and keeps masks of what exists so far;
- a header and a catalogue whose length depends on the offsets printed in them;
- a frame as bits: two writers and five readers of one syntax, candidates that are
  coded in a scratch buffer and moved to any bit of the frame, a cost that is
  reckoned beside the writer;
- a transcoder with nine ways to find the frames of a chunk, two outputs, sound
  that comes chunk by chunk or all at once, and damage that is an error in one
  place and the end of the movie in another;
- a stream that must be seekable although each packet is written knowing only
  the ones before it;
- rounding: of frames to chunks, of padding, of a frame count that travels
  through a floating-point product and back.

The properties that make each component correct are in its module, and the
hazards they are for in `PROJECT.json`.

## 2. The modules

    RateSearch                 what any per-frame rate search promises (abstract)
      ^ implemented by
    RateLoop                   the retry loop
      |- RateControl           the linear search
      |    |- EncodeLoop       the encoder's frame loop, with the search inside
      |- BracketedSearch       the bracketed search
           |- RateAgreement    the linear one beside it, on the same frames

    SearchCache                cached and pruned motion search of one block
    LumaPrediction             what a data block says of each pixel (operators)
    BlockCodec                 one frame through the shared encoder and decoder
      |- MCBlockCodec          an 8x8 frame

    BitStream                  bit writer, bit reader, moved candidates (operators)
      |- MotionCodes           vectors and their codes, both ways
      |- LumaCodes             data blocks and their chroma, both ways
           |- BlockSyntax      a frame of any of five formats, written and verified
                |- MCBlockSyntax

    ChunkPadding               how many frames a movie is padded to (operators)
      |- EncodeLoop
      |- ChunkPlan             the writer's partition into chunks
           |- SoundSlices      each chunk's slice of the sound track
                |- ChunkPlayback   the parser and the transcoder reading it back
                     |- MCMovie    the rates
    Ae7Layout                  offsets, catalogue, assembly, parsing
      |- MCAe7Layout           sizes around powers of ten

    NutMuxer                   the NUT file
    CodecIfSession             a decompressor's two picture buffers
    CodecTable                 codec_info (operators)
    WrappedFrames              the MovieFS and VideoFS iterator (operators)
    SoundDecoding              how many samples, in which order (operators)
      |- Transcode             replay-transcode, composing all five
           |- MovieLayout      where a movie's codec frames lie in its bytes
                |- MCTranscode movies for every route

Modules named `...Proofs` extend the module they are about and hold nothing but
its inductive invariant, lemmas and theorems.  A definition introduced by the
comment "Seeded fault" is the definition after it with a plausible mistake;
`PROJECT.json` says which property notices.  They are never used by `Next`.

### Rate control: `RateSearch`, `RateLoop`, `RateControl`, `BracketedSearch`

`MbRateControl` is `current`, `level`, `direction` and `retries`; `size` is the
length of the latest payload and `measured` (a history variable) the sizes
already seen in this frame.  `phase` is where the retry loop stands: between frames, about to
encode, about to observe.  `StartControl` is `mb_rate_control_init` and the copy
of the carried row, `Encode` one call of the encoder (any size in `Sizes` for a
row not yet encoded, the same size again for one that was: the encoder is
deterministic), `Tighten`, `Loosen` and `Accept` the three ways out of
`mb_rate_control_observe`.  `BracketedSearch` gives `bracketed_rate_next` one
action per return: `KeepFirst`, `StartLooser`, `StartTighter`, `KeepEnd`,
`Bisect`, `KeepCandidate`, `ProbeCandidate`, `Expand`, `KeepFinal`.  The window's
floating-point products are the constants `TargetMin` and `TargetMax`.

`RateSearch` is what both promise: a search ends on a row that was measured, and
a row that is not inside the window is only kept at the edge where the sizes
cross it or at the end of the table.  `ImplementsSearch` is the refinement, with
`searching <- phase # "idle"`, `chosen <- current`.

### `RateAgreement`

`BracketedSearch` extended by a linear search with variables of its own (`Linear`),
both on one unknown table of sizes per frame (`full`), non-increasing as the
comment at `replay_encode.c:100` says the search assumes.

### `EncodeLoop`

`frame`, `payload`, `recon`, `previous` and the sink's `payloads` and `keys` are
the locals of `run_mb_encode` and of the type 19 loop.  `ReadFrame` is the input
and the workspace reset, `EncodeAttempt` and `Retry` are the body of the retry
loop, `FinishFrame` everything after it (collect, key, copy of the reference),
`EndOfInput`, `Pad` and `Assemble` the tail of `main`, `Fail` any error path.  A
payload is the pair of the picture it refers to and the picture it shows; a
decoder that holds another picture shows garbage.

### `SearchCache`

One block.  `copies` is what the two pictures are: for each candidate vector its
error and the first row that accepts it.  `entry` and `ready` are the
workspace's `MbMotionEntry`; `index` and `best` the loop's locals.  `Search`
starts a request, with a workspace or without; `ScoreAllLevels` and `FillEntry`
are the cached path, `ScoreOneLevel` and `ReturnBest` the pruned one, `Reuse` the
early return for a filled entry, `NewFrame` the reset.

### `BlockCodec`

`recon`, `predictor` and `stream` are the encoder's picture, its `previous`
colour and the codes written so far; `split` is the private tentative block of
`build_split_candidate` with its mask of pixels made.  `EncodeCopy` takes a 4x4
copy; otherwise `StartSplit`, four times `EncodeChildCopy` or `EncodeChildData`,
and then `KeepSplit` or `KeepData`.  Which of two candidates is shorter or closer is a
choice, so the model has every behaviour the sizes and errors of any picture
could cause.  `DecodeBlock` is one iteration of `mb_frame_verify` with the same
codes, the decoder's own picture and its own predictor, and the availability
test in the decoder's form (order of parents and of quadrants, not a mask).

### `ChunkPlan`, `SoundSlices`, `ChunkPlayback`

A movie is followed from a number of frames to what is seen and heard.
`PadSink` is `pad_sink_for_chunks`.  `ChooseTarget` is the arithmetic at
`replay_ae7_write.c:401-428`: the target is counted in half frames (`halves`) and
`slip` is 1 when the floating-point product is one unit in the last place below
a whole number, which is possible only for a whole number.  `NextChunk` is one
iteration of the partition loop, `Planned` its end.  `SliceChunk` cuts the track
at rounded times (either side for an exact half), `StoreAdpcm` and `StorePcm`
copy a slice into the chunk.  `Open` is `replay_ae7_parse` as far as frames per
chunk go; from then on `route` says which reader follows, `module` the
transcoder's chunk loop around a CodecIf decompressor (`SinkSound`,
`DecodeFrame`, `DecodePastEnd`, `ChunkDone`, `ModuleDone`) or `packed`
the type 23 reader, which takes the layout apart by its size (`UnpackAll`).

### `Ae7Layout`

Text is represented by its length, so what is modelled is exactly the circular
part: `RenderHeader` is one round of the header loop, `BuildCatalogue` one round
of the catalogue loop, `AppendChunk` the padding and copying of a chunk, `Finish`
the end of the writer, `Parse` the checks of `replay_ae7_parse` on the offsets.

### `BitStream`, `MotionCodes`, `LumaCodes`, `BlockSyntax`

A bit stream is a sequence of bits with the writer's byte count and partial byte
(`NewWriter`, `Write`, `Drain`, `FlushZero`) and the reader's byte position, its
buffered bits and its `ok` flag (`Refill`, `Read`).  `AppendCandidate` is
`mb_encode_append_candidate`: 32 bits at a time, then the rest.  `MotionCodes` has
the index of a vector as the writer computes it (`RingIndex`, `FarIndex`,
`SpatialIndex`) and the vector of an index as the reader walks to it
(`RingVector`, `FarVector`, `SpatialAt`): they are two pieces of code in
`mb_motion.c`, and nothing in the code keeps them inverse.  The far family is
counted in reading order: `FarBefore` is `far_vector`'s counter.  `BodyBits` is
the search's own reckoning of a code's length.  `LumaCodes` is the data block of
each format: literal luma (type 7), Huffman-coded steps with a sign (17, 19, both
forms of 20), chroma of five or six bits or as a step from the predictor.
`BlockSyntax` writes a frame block by block: `EncodeCopy` straight into the frame,
`EncodeBlock` from a `DataCandidate` or a `SplitCandidate`; `VerifyFrame` reads the
bytes with the verifier of the type.  `Types` are the compression types, 204
and 205 standing for the old and the new form of type 20.

### `Transcode` and what it composes

`at` is where the program stands: `main` (`Decide`, `Refuse`, `Nothing`), `open`
(`OpenNut` or `WriteWav`), `video` (`StartVideo`), then for every chunk `sound`
(`EmitSound`), `chunk` (`SkipChunk`, `EnterChunk`, `EnterModuleChunk`,
`EnterWrappedChunk`), `unwrap` (`UnwrapFrame`, `LoadUnwrapped`), `frames` (one action
per decoder: `PassFrame`, `Esc122Frame`, `Esc130Frame`, `Esc100Frame`,
`Esc124Frame`, `TcaFrame`, `Type23Frame`, `ModuleFrame`), and `close`.  `Die` has a
disjunct for each `die()` after the output is open, `Fail` is a write, a module or
an allocation that fails.  `Route` is the branch `transcode_video` takes; type 23
and sound alone run through all sound first, a film's sound comes whole with its
first chunk.

A codec frame is a few bytes with a tag, and a picture is the sequence of tags
applied to it, so a decoder that starts from the wrong picture, drops a frame or
shows one twice is seen.  `CodecIfSession` keeps the two buffers of
`replay_codecif.c` and exchanges them when a decode succeeds; the decompressor
(where a frame ends, when it does not return, what it leaves behind then) is
external.  `WrappedFrames` reads size words and padding byte by byte.
`SoundDecoding` has the number and order of the samples of a region, for every
sound format.  `NutMuxer` keeps every packet with its offset and length, so
pointers and distances are the file's.  A movie carries `laid`, the tags its chunks
were made of; only the properties look at it.

`MovieLayout` says how the writers lay tags out in bytes: where in a chunk each
frame begins and ends (a movie's `cuts`) and how it is spelled there: the size words
and padding of each wrapper, Escape 100's ids, 124's and the film's size words, type
23's frames of one length, a palette in front, a frame that is damaged or torn, a
header that the chunk's end cuts short.
`MoviesAreLaid` is its assumption; TLC evaluates it on every movie of the runs.

## 3. What is checked

TLC's runs, and why their bounds are enough.

| run | shows | instance |
|---|---|---|
| `bracketed_search` | `BracketInv`, `NoWastedProbe` (no row is encoded twice but the final one), `LogarithmicRetries` (at most ten), `ImplementsSearch` | the program's own 29 rows, any carried row; sizes under, inside and over the window, each row's independent of the others, so every non-monotone table is included |
| `rate_agreement` | `SameRow`: after each frame both searches carry the same row; `LinearImplements`: the linear one never turns round and stops at an edge; `BothSettle`: both end | 8 rows, all non-increasing tables over the three classes, any number of frames. The linear search looks at a row and its neighbour only. |
| `encode_loop` | `KeysFollow`, `SeekEqualsPlay`, `CacheIsFresh`, `FrozenTail`, `Ends`: through any pattern of retries the reference, the keys and the payloads stay in step; a player that starts at any key shows what continuous play shows; the tail repeats the last picture and fills whole chunks | 3 rows (a retry in each direction and a row to spare), 2 pictures, up to 3 frames, chunks of 0 (whole movie), 2 and 4 frames: fewer, as many and more frames than a chunk |
| `search_cache` | `CacheAnswersAll`, `AnswerIsBest`: cached and pruned search agree at every row and in any order of requests | 3 rows, 3 candidates, errors 0 to 2: ties, exact matches, copies outside the picture |
| `block_codec` | `NeverRefused`, `DecoderAgrees`: the decoder accepts every code the encoder can choose and ends with its picture and predictor | four blocks, so that one has a block before, above and above to the right; the full spatial tables, one temporal vector that leaves the picture at two edges; at most two copies in a frame (a copy of a copy is the longest dependency inside four blocks that differs) |
| `movie` | `Partition`, `NoDrift`, `UniformUnlessSlipped`, `SoundHasTwoChunks`; `SlicesTile`, `AdpcmStartsAnywhere`; `FullChunksPlay`, `SoundNeverSkips`, `HeardAtCut`, `PlaybackEnds` | up to 8 frames, 0 to 3 per chunk, 0.5, 1.5, 2.5 and 12.5 frames per chunk from a rate, 4 and 2.5 sound units a frame, no track, one that ends inside the movie, one that outlasts it |
| `ae7_layout` | `HeaderSettles` (the offsets printed are those of the header as long as it is), `NoOverrun`, `ParserAccepts` | sprites and keys that move the catalogue across 1000 and 10000 byte by byte, movies with none, two and four tracks, masks 1 and 2047 |

| `frame_codes` | `ReadsBack`: a frame is read back code for code, with the chroma the decoder gets; `FramingCatches`: a payload read as a frame of another size is refused; `CostModel`: a copy takes the bits the search reckons; `ChromaSettles`: a flat colour coded again and again in type 20 is reached and stays | all five formats; every vector a copy may have (31 or more temporal rings, all spatial ones, both block sizes) behind a motion block or a split that leave it at different bits of a byte; data blocks with the longest and the shortest Huffman codes; for the new type 20 all 64 chroma values from five starting points, long enough to settle; up to four blocks |
| `transcode` | `PicturesAsLaid`, `SoundIsWhole`, `Clocks`, `Resync`, `SeekPointsAdvance`, `LossIsReported`, `Finishes` | 13 codecs, one for every route and wrapper; two or three chunks, empty, short, long, damaged at either place, ending inside a frame's header, torn wrappers, wrappers with 0, 4 and 16 bytes between frames, more bytes than the decompressor's buffer; 11 sound tracks: every decoder, both channel orders, chunks cut inside a sample frame, too short for an ADPCM header, unknown; six command lines.  A syncpoint falls due every 60 bytes, so that each stream needs one, a picture is 50 bytes |

A type invariant stands in each module that has proofs, which need it more than
the runs do.  Where a run's mutant is caught by several properties, `PROJECT.json`
names the one it was written for.

### Disagreements between the code and its documentation

Three runs end with a counterexample; each is a claim the repository makes that
the code does not keep.

- `movie_varying`: `notes/replay-ae7-join-writer.md:120` says a varying frame
  count per chunk is fine.  `replay-transcode` reads the header's count from
  every chunk (`replay_transcode.c:1394`), so a movie without sound at 12.5
  frames per chunk loses every thirteenth frame and decodes the next one against
  the wrong picture.
- `ae7_catalogue`: the comment at `replay_ae7_write.c:630` says the loop
  converges so that the catalogue fits before the first chunk.  With an
  `align_mask` of 1 it has 128 bytes to give; eight tracks of six-digit sizes
  and four chunks need more, and the chunk offsets then point into the catalogue.
- `transcode_wav`: the comment at `replay_transcode.c:1732` says Iota TCA sound is
  mono whatever the header says, and the NUT stream is told so.  The WAV is given
  the header's count (`replay_transcode.c:1781`), so a stray 2 makes it a stereo
  file of mono samples.

Two more are stated by properties that hold and say by how much the code departs:

- `replay_ae7_write.h:89` says `frames_per_chunk` "is used directly".  The writer
  divides by the rate and multiplies back (`replay_ae7_write.c:401-406`), and
  `floor` of a product just below the whole number moves every boundary one
  frame early: 29, 57, 58 or 113 frames per chunk at 25 fps.  `NoDrift` says that
  it is one frame and never more.
- Lines 122-123 of the join-writer note say picture and sound stay in sync.  A mono
  ADPCM chunk with an odd number of samples is read back one sample longer
  (`replay_transcode.c:894`), and the delay adds up.  `HeardAtCut` states the
  exact drift.

Observations that no run checks.  Nothing refuses a requested chunk of one or
two frames although `TASKS.md:122` lists the limit of three as enforced (the only floor is
`replay_encode.c:1464`, for split clips).  A PCM track shorter than the movie
is padded with silence although `replay_ae7_write.h:53-54` says later chunks carry
less sound.

Writing the models showed where their properties had to be narrower than one
might expect, and these limits are the code's:

- The framing check compares the end of the last block with the padding of the
  last byte.  A frame of the wrong dimensions is therefore refused unless it
  differs by stationary blocks that fit into the padding, at most three; type 7
  has no such check at all, and `FramingCatches` leaves it out.
- The search reckons two bits for a stationary block in every format, but type 7
  has no stationary code and spends a move on it.  `CostModel` is about moves.
- `SeekPointsAdvance` speaks of movies that are walked chunk by chunk and whose sound
  keeps up with the pictures (`Balanced`): wherever another chunk follows, the sound
  so far ends inside the last picture's time.  Type 23 movies put all sound first, and
  there the times of the syncpoints go back when the pictures begin; so they may
  where a track runs ahead of its pictures or stays behind.
- A malformed wrapper ends its chunk without a word, also in the middle of a
  movie, and so does damage on the Escape 100 and 124 routes.
  `PicturesAsLaid` promises the frames before it, `LossIsReported` is strict for
  decompressors and films only.  A chunk with more frames than the header says
  loses the rest on the decompressor route.
- A stereo chunk shorter than a sample frame is written and does not advance the
  clock (`replay_transcode.c:1017`): `Clocks` bounds how far sound may lag.

### Fairness and deadlock

The program is one thread of straight-line code and loops, so whatever can run
next does run: weak fairness of the steps of a loop that has been entered is
what the processor gives.  `RateAgreement` assumes it of the encodes and the
decisions, not of `NextFrame`: nothing makes another frame arrive.
`EncodeLoop` and `ChunkPlayback` assume it of the whole next-state
relation, in which every choice leads towards the end, because a run of the
program is finite; `Transcode` of everything but `Fail`, so that it has to finish
by itself.  Strong fairness is nowhere needed.  Deadlock is checked for
the rate searches and the motion search, which can always take another frame;
`CHECK_DEADLOCK FALSE` stands where the program terminates (the encoder, a movie
that has been read, a file that was written, a frame that is complete).

## 4. What is proved

All theorems hold for every value of the constants that satisfies the module's
assumption.  Those of `MovieProofs` are about targets that are a whole number of half
frames (`halves`), one unit in the last place less for an explicit
`frames_per_chunk` (`slip`); a rate whose chunk is another fraction of a frame is
not among them.

| theorem | states | assumption |
|---|---|---|
| `RateAgreementProofs`: `LinearTypeCorrect`, `LinearPath`, `LinearRetries`, `LinearDirection`, `LinearImplementsSearch` | the linear search stays in the table, leaves only rows on the wrong side behind, retries the distance it travels, never turns round, and implements `RateSearch` | `RateAssumption`: a table with a row, sizes that are naturals, a window that is one |
| `RateAgreementProofs`: `BracketCorrect`, `BracketedImplements`, `ProbesAreFresh`, `RetriesAreLogarithmic` | the bracket's meaning, that it implements `RateSearch`, that it encodes no row twice in a frame but the one it keeps, and that on a table of at most 2^k rows, k up to 6, a frame is retried at most 2k times; the sizes need not be monotone | `RateAssumption` |
| `RateAgreementProofs`: `Agreement`, `LinearRefines` | on monotone tables the two searches carry the same row for ever; beside the other the linear one still implements `RateSearch` | `AgreementAssumption` |
| `SearchCacheProofs`: `SearchCorrect`, `CacheCorrect` | any search returns the best candidate; a filled entry answers every row | `SearchAssumption` |
| `MovieProofs`: `PartitionCorrect`, `TwoChunks`, `DriftBounded`, `PaddedIsUniform` | no frame is lost and no chunk is empty; a movie with sound has two chunks; a chunk boundary is early by one frame at most however many chunks there are; a padded movie is full chunks only, unless its target slips | `PlanAssumption` |
| `MovieProofs`: `SlicesAlwaysTile`, `AdpcmHeadersRight` | the sound slices tile the track, and each ADPCM header holds the predictor after all units before it | `PlanAssumption`, `SoundAssumption` |
| `MovieProofs`: `SoundIsHeardAtItsCut`, `SoundPlaysEveryFrame`, `FullChunksAlwaysPlay` | the player hears a chunk's sound where it was cut, but for one unit per odd mono ADPCM chunk before it; it passes over no frame of a movie with sound, and plays a movie of full chunks to its end | `PlanAssumption`, `SoundAssumption` |
| `BlockCodecProofs`: `AlwaysAccepted`, `DecoderReconstructs` | the decoder refuses nothing the encoder can write, and ends with the encoder's reconstruction in every pixel and its predictor, for every size of frame and any pictures | `SizeAssumption`, `PictureAssumption`, `SearchAssumption` |
| `BlockSyntaxProofs`: `ChromaAlwaysSettles` | in a frame of any length, whatever came before, a data block of type 20's new form comes closer to a chroma that stays, and the third has it exactly; the other types have it at once | `SyntaxAssumption`, `OffersAreLegal` |
| `BlockSyntaxProofs`: `CostIsSpent` | for every vector of a type's window and every spatial one, the size the copy decision reckons with is what the writer spends, and the search order goes from short codes to long | `SyntaxAssumption`, `OffersAreLegal` |
| `BlockSyntaxProofs`: `FramesAreReadBack` | a frame of any length, of any of the five formats, is read back code for code, to the last bit and with the writer's predictor, at whatever bits its candidates were moved to | `SyntaxAssumption`, `OffersAreLegal` |
| `EncodeLoopProofs`: `KeysAlwaysFollow`, `CacheAlwaysFresh`, `SeekShowsPlay`, `TailIsFrozen` | through any number of retries, frames and padding, each payload takes a decoder from the key before it to its own key, and no frame is coded with the motion search of another; a player opened at any chunk shows what continuous play shows; the padding freezes the last real frame | `RateAssumption`, `EncodeAssumption` |
| `Ae7LayoutProofs`: `HeadersSettle`, `ParserAlwaysAccepts` | the header that is written was rendered with its own length, and the player's parser takes every offset of a finished file, whatever is in it | `LayoutAssumption`, `WriterNumbers` |
| `Ae7LayoutProofs`: `CatalogueHasRoom`, `NeverOverruns` | the catalogue loop ends with a catalogue in front of the first chunk, and no chunk starts before the end of the one before it | `LayoutAssumption`, `WriterNumbers`, `RoomForCatalogue` |
| `TranscodeProofs`: `SeekableAnywhere` | whoever writes which frames in which order, the file is contiguous, every frame is in reach of a syncpoint and the back pointers chain them | `NutAssumption` |
| `TranscodeProofs`: `TranscodeMuxes`, `StreamSeekable` | `Transcode` implements `MuxSpec`, so the stream of any movie transcoded with any options can be entered anywhere | `NutAssumption`, `MovieAssumption` |
| `TranscodeProofs`: `ClocksCount`, `SoundAlwaysWhole` | a packet's pts is what was written of its stream before it, less than a sample frame off for each chunk cut inside one; a run that exits 0 has written the whole track once, in order, chunk by chunk or at once | `NutAssumption`, `MovieAssumption` |
| `TranscodeProofs`: `PicturesAlwaysAsLaid` | on every route, through padding, damage, torn wrappers and chunks too short or too long, what has been shown is the beginning of what the movie's codec frames amount to, and all of it when the run exits 0 | `NutAssumption`, `MovieAssumption`, `MoviesAreLaid` |
| `TranscodeProofs`: `LossAlwaysReported` | a run that exits 0 has decoded every frame it asked for but those at the end of the last chunk, and refused what it cannot write | `NutAssumption`, `MovieAssumption`, `MoviesAreLaid` |
| `TranscodeProofs`: `SeekPointsAlwaysAdvance` | where the sound keeps up with the pictures, the times of the syncpoints never go back, whichever stream each names | `NutAssumption`, `MovieAssumption`, `MoviesAreLaid` |

**Rate control.**  `PathInv` says that every row between the carried one and the
present one was measured and found on the wrong side; with the types it is
inductive.  The theorems cover sizes that are not monotone in the row, which the
run `rate_agreement` leaves out.  `RetriesAreDistance` and `NeverReverses` follow from it.  The
refinement needs it at one step: `Accept` may keep a row outside the window only
because the neighbour it came from lies on the other side.

**Bracketed search.**  `BracketInv` relates `low`, `high` and `candidate` to
`measured`, one conjunct for each direction: the row on one side of the open
interval failed, the candidate on the other did not.  `DecisionStep` shows that
narrowing keeps this; `KeepSettles` that what is kept is an edge.  `Fresh` says that
a row measured in this frame lies outside the bracket unless it is the one being
looked at, so a probe inside the bracket is a new one.  `RetryInv` counts: while
nothing has crossed, the probe of retry `r` lies `2^r - 1` rows from the carried one
or at the end of the table (`Expanding`); after that each probe halves a bracket
that `b` halvings empty, with `retries + b` at most `2k` (`Bisecting`).

**Agreement.**  Neither search's steps match the other's, so the proof goes
through what they have in common: `LinearEdge` and `BracketedEdge` show from
`PathInv` and `BracketInv` that each settles on an *edge* of the table as seen
from the row it started from, and `EdgeUnique` that a non-increasing table has
one edge.  The inductive invariant `AgreeInv` says that both carry the same row
between frames, and that once the linear search has settled and the bracketed
one has not, the first is on an edge seen from the row the second started from.  The
theorems of the two searches are about the very searches that `RateAgreement`
composes.

**Motion search.**  `ScanInv` says what the entry and the pruned search's best
are after the first `index - 1` candidates: the least error among those a row
accepts, the first of them on a tie.  `BestOfOneMore` extends it by one
candidate, `ExactIsBest` justifies the early stop at an error of zero, which
needs the one fact about the quality table that `Copies` states: an exact copy
is accepted by every row.

**Partition.**  `EndInRange` is the arithmetic that a chunk takes something and
not too much; `TwoChunksInv` strengthens `SoundHasTwoChunks` to what must hold
while there is one chunk or none.  `DriftInv` is why the rounding does not add up:
a target slips only when it is a whole number of frames, two or more, and each
boundary is then the `floor` of its own multiple, not of a sum.  `UniformInv`
carries what the padding left (`PaddingWhole`) through the partition: the movie is
`m` chunks of what was asked for, and `RoomForOne` shows that the next one fits.

**Sound.**  `SliceInv` says that each slice lies between the cuts at its chunk's
two ends and that the next cut is at a frame past all cuts made, so a cut is
never made twice, whichever way it was rounded.  `SlicesMeet` turns this into the
tiling, `StoreInv` follows the predictor through the regions.  `HearInv` moves the
reader's clock along: `DecodedUnits` shows that a region is read back as its
units, or one more if it is an odd mono ADPCM region.

**Playback.**  `ModuleInv` says that a reader of a movie in which no chunk is
longer than the header says (`Fits`) has shown each frame up to where it stands,
each against the one before it, and dies only at a chunk that is too short.
`SoundFits` shows that a movie with sound fits, since its header reports the
longest chunk.  A movie without sound may not fit, and `movie_varying` shows what
happens then.

**Block decoder.**  That nothing is refused: every code written so far fits where
it stands.  A 4x4 spatial copy reads earlier blocks only, and a split's copies
pass the decoder's order test.  The encoder does not check the first, the table
of vectors does it (`SpatialTablePointsBack`); for the second it has a mask of
made pixels, and `MaskIsQuadrantOrder` with `ChildGeometry` shows that mask and
order of quadrants are the same set.  `DecodeSplitSound` carries it through the
decoder.

That the pictures agree needs the order in which the picture is made.  A *cell* is
a 4x4 block or a child of a split, numbered as it is made (`RasterOrder`,
`PixelCell`), and `Drawn` are the pixels made before a cell.  `CodeDraws` states
what a code stands for as a fact of the encoder's reconstruction at and before its
cell, and since later cells change nothing that is drawn (`DrawsElsewhere`) it
stays a fact; `DrawInv` says it of every code written and of the split under way,
with the predictor passed from each code to the next (`Chained`).  `CodeDecodes` is
the decoder's side: right before a cell, right after it.  `BlockDecodes`
puts four children together.  The residuals have exactly one solution: `DecodeUndoes`
takes a pixel where the decoder differs and finds another nearer the corner.

**Block codes.**  `OffersAreLegal` says what `Offered` stands for, a picture and a
search over it: vectors of the type's window (`Window`) or of the spatial table, luma
and chroma of as many bits as the type has.  The run's offers are such.
`ChromaInv` is inductive: of types other than 205 a decoder has the chroma exactly,
of 205 within five (`ChromaNear`); of two data blocks in a row the second is the
nearest step from what the decoder has of the first (`ChromaFollows`); and after a
data block the predictor is what the decoder has of it (`ChromaCarried`), copies
leave it alone and so do not disturb it.  A split's children move it too, which is
why `Settled` is all that is known after one.  The rest is arithmetic round the
six-bit circle with the sixteen steps of the table: from anywhere one step comes
within five (`FirstStep`), the next within one, and the third is exact
(`LaterStep`).

A copy's cost is the length of an opcode and of what `WriteMotion` writes.
`MotionIsCoded` shows that the writer always finds a family and an index of as many
bits as are reckoned, and that the index means the vector: `RingIndexIs` for the
four arms of a ring, `FarIndexIs` for the far family, where `FarCount` says in closed
form how many cells the reading loop has counted.  `TemporalBits` walks the search
order.

**Frames read back.**  Reader and writer are first freed from bytes.  A writer is
a function of the bits it was given (`WriterOf`; `WriteMore` says that writing
appends), a reader of the payload and of how many bits it has taken (`ReaderAt`,
whatever refills led there; `ReadPart`), and all that a decoder needs to know is which
bits are `Ahead` of it.  `CandidateMoves` is then `mb_encode_append_candidate`: 32 bits at
a time out of one buffer into another at any offset leave the same bits behind.
The model's folds are recursions over sets of places.  `Step` names the step of each,
and `FoldIsChain` turns any of them into a chain of states, so that the two sides
can be followed one element at a time (`MoveIsChain` to `VerifiedIsChain`).

What is written and what is read meet in `CodeBits`: the bits of one code, from one
predictor to the next.  `WritesCode` shows that the writer appends such bits,
`ReadsCode` that a reader with them ahead draws that code and no other.  Under
them lie the vectors (`MotionHasBody`, from the two directions of the tables), the Huffman
codes (`HuffmanReads`: no code begins another, so the bit-by-bit search stops at the
right one), the residuals (`DecodeUndoes`, as in `BlockCodecProofs`, over this
module's blocks) and the chroma.  A `Trail` lists where each code of a frame ends and
which predictor it leaves; a split's bits are an opcode and a trail of four.

`FrameInv` is the inductive invariant: the writer holds the bits of a trail of the
codes drawn, from the first predictor to the present one.  `ReadsBack` speaks of the
verdict only and says nothing of a frame half written, hence the need for it.  Each step
lays one code on the trail (`TrailGrows`); `ReadsTrail` walks it, and
`PaddingPasses` is the framing check at its end.

**Layout.**  The header prints offsets that depend on how long it is.  Two facts
about numerals decide the loop: a longer header prints no shorter numbers, and at
most three digits more (`HeaderGrows`, from `DigitsGrow`, for numbers below 10^11).
So the rounds from the second on climb, a round that changes nothing is the last,
and there are only three digits to climb: six rounds are enough (`HeaderRound`).
That is `WriterNumbers`: numerals are decimal, the loop has six rounds or more (it
has eight, `replay_ae7_write.c:609`), and the file stays below 10^11 bytes.  Every
input of the runs satisfies it.  `LayoutInv` then says of the
file under construction where its parts lie; chunks are given room by
`OffsetsSpaced`, and the parser's checks are read off at the end.

The catalogue is different: its loop has no such bound, because a line's length is
only guessed.  `RoomForCatalogue` says that the longest catalogue of a movie is no
longer than the guess and what the rounds add to it, `align_mask + 1` bytes each.
`CatalogueHasRoom` shows that this is enough.  Without it the loop can run out,
and the run `ae7_catalogue` does: its movie of eight tracks and an `align_mask` of 1
is what the hypothesis excludes.  The movies of `ae7_layout` satisfy it.

**NUT file.**  `MuxSpec` is the muxer in the hands of any caller; `Transcode` is one.
`Resync` is about the file, but the code decides from `last_syncpoint_pos` and
`have_syncpoint` alone, so the inductive invariant `MuxInv` adds `Remembers`: the
two say where the last syncpoint in the file starts, and that there is one.
`FrameKeeps` and `SyncKeeps` are the two shapes of `WriteFrame`; `BackReaches` is
the arithmetic of a pointer in units of 16.

**Transcode.**  `MovieAssumption` is what the parser guarantees (a chunk or more,
a sound region for each) and one thing more: a type 500 film has one chunk.
`docs/spec/tca-type500.md:259` leaves others open, and of such a film with a sound
format forced by an option only the first chunk's sound would be written.
Every step does one of four things to the stream (`StreamStep`): nothing, the
opening, a picture, a chunk's sound.  `NextStreams` shows it action by action, from
`Placed`: in which chunk the program is where, and that the walk of the
pass-through route stays in its chunk, since a frame's length must be a number.
`TranscodeMuxes` follows, and the NUT theorem holds of the transcoder.

`FramesWritten` and the community modules' `FlattenSeq` are recursive functions.
Each is replaced by a relation that a function satisfies step by step (`Collects`,
`Joins`), shown to be satisfied by one function and no other; that gives what an
appended packet does to them (`ChosenAppend`, `FlattenAppend`), which is all the
invariants need.  `Counted` says of the frames chosen so far that the pictures'
pts are 0, 1, 2 and so on, and that the sound's are right or late (`SoundClock`);
`LagsMore` is the arithmetic of one packet's rounding.

`DecodeAppends` is why sound may be cut anywhere: what `decode_chunk_audio` appends
for a chunk is its `Part` whatever lies in the buffer, since a swap of channels
starts where the chunk's samples start.  So decoding at once (`DecodeFlattens`) and
the track of the property (`TrackFlattens`) are the parts joined, for a film and for
Escape all in the first one (`FirstIsAll`).  `SoundKept` says how many chunks' sound
is in the stream, told by where the program is (`Emitted`), and that the stream's
sound is that of so many (`StreamSound`); a WAV holds all from the start (`WavSound`).

**Pictures.**  `PicturesAsLaid` relates the stream to `laid`, but the program only
sees bytes, so the invariant must say where in the bytes it stands.  `ShownWell`
does: at the start of a chunk all pictures of the chunks before it have been shown
(`Had`), inside one `i` more (`Got`), and the position is the i-th cut of the chunk,
or behind some padding of it (`InFrames`, `Rests`); while a chunk is being unwrapped the
payload collected so far is the frames before that cut (`Unwrapped`).  `Held` adds
what the next picture is built on: the decoder's picture, or the sandbox's buffer that
is `cur_prev` after each exchange, is the tags applied so far.

A lemma per route does the work (`Esc100Walk`, `Esc124Walk`, `TcaWalk`,
`ModuleWalk`): a frame that can be used is found at its cut and ends at the next, and the
walk stops exactly when the frames that can be used (`Fit`) are through: at the end of
the bytes, at a size word that does not fit, at a torn wrapper.  `WrapperWalk` is this
for the wrapper iterator, which tells padding from a size word (`SkipsRest`).  Type 23 has no walk: frame
`n` of the movie is found by counting through the chunks, and `Type23TagIs` shows
that this is the n-th of all tags.  `Due` counts the pictures due after a number of
chunks, and `DueIs` how many a chunk adds: its frames, one, or none.

**Losses.**  `Lossless` is what must hold before the exit for `LossIsReported` to hold
there: main has accepted the movie (`Judged`), every chunk that the module has been
through delivered what was asked (`Delivered`), and at the end all chunks are behind
(`Finished`).  That the walk of a module stops short only where the property allows
it is `ShownWell` again: what it has shown when it leaves a chunk is `Fit`.

**Seek points.**  A syncpoint has the time of whichever stream needs one, so its
order depends on both clocks.  `SeekWell` holds them together.  `SoundTimed` says that
the sound's clock is the sum of the sample frames of the chunks whose sound is in the
stream (`FirstOf`, as many as `Emitted` tells); the pictures' clock comes from
`ShownWell`, since `Due` is such a sum too (`PicturesAdd`).  `SyncsLie` says that the
syncpoints are in order and (`Elapsed`) that each names a picture already shown or a
time of the sound no later than the end of the pictures.  A picture is then never
earlier than a syncpoint (`PictureInOrder`).  A chunk's sound is written before its
pictures, when both clocks stand at the end of the chunk before: there `Balanced`
puts the sound at or behind the start of the last picture (`SoundOnTime`,
`SoundInOrder`).  Nothing is asked of the last chunk.

**Frame loop.**  `KeysFollow` is not inductive: a repeat payload and one that needs
no picture are told from the rest by a mark, and `SinkInv` adds that the
encoder's reference, once there is one, is a picture and no mark, and that the
sink's two arrays grow together.  `DecodeOwn` covers an attempt, however often it
is repeated before it is kept; `ChainExtends` adds one link to the chain of keys
and serves both a finished frame and a padded one.  That playing from a key
equals continuous play is shown of the least position where it would not
(`PlayShowsKeys`): every player, wherever it starts, shows the array of keys.
`PaddingInv` adds that the target is whole chunks and is never passed, and that
the keys after the last real frame are its reference.

**Induction.**  The library's induction theorems cannot be instantiated here.  Where
an argument goes along a movie or a block, the proof takes the set of the places
where the statement fails and looks at its least element (`LeastNat`, from the
well-foundedness of `<` on the naturals), or shows that a function given outright
satisfies the equations of a recursive one.

**Only model-checked.**  All liveness (`BothSettle`, `Ends`, `PlaybackEnds`,
`Finishes`), because the prover does not reason about `ENABLED`.  `FramingCatches` of
`BlockSyntax`: `ReadsBack` needs the decoders only where the bits they ask for are
there, a payload cut short needs every one of them where they are not.

## 5. What is not modelled

- Pixel arithmetic: colour conversion, error metrics, the quality table's
  thresholds (a row is the first that accepts a copy), scaling.
- The pixels of the Escape, TCA, type 2 and type 23 decoders: tables and
  arithmetic on one payload.  How their frames are found, ended and applied is in
  `Transcode`.  A malformed frame leaves the picture as it was there; a
  payload whose codes break off may have painted a part of it.
- Sample arithmetic of the sound decoders; counts and order are modelled.
- Moving Lines, a run coder over a single frame.
- The ARM interpreter (third-party code), its harness, module files, and
  `replay-armsim`; `CodecIfSession` treats a decompressor as external.
- The text of headers in foreign movies: the parser is modelled on files the
  writer makes, the transcoder on movies that have been parsed.
- Movies with sound only on the writer's side, joins, posters, command lines,
  reports.
- Allocation failure except as `Fail`.
