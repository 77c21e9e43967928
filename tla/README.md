# A TLA+ model of libjxlz

libjxlz is a JPEG XL codec written in Zig behind the C interface of libjxl. Its
own code is under `src/` of the repository (`src/capi_root.zig`, `src/lib/...`,
`src/cli/...`); the C++ tree next to it (`lib/`) is the implementation it was
ported from. This directory models the parts of both that have a life of their
own: of the Zig code the decoder object a client drives with events, partial
input, small buffers, skips, rewinds and retries, the session of reference images
behind it, and the encoder object that collects settings, boxes and frames and
hands out a file through buffers of any size; of the C++ code the two parallel
runners, the frame decoder that draws groups on them as their sections arrive,
the input of its decoder object, which takes a codestream out of boxes and
pieces, and the output of its encoder object, which is written out of order into
whatever the client provides. Paths below are relative to the repository root.

## The system

| part | code | state it keeps | operations |
|---|---|---|---|
| JxlDecoder, calls and loop | `src/capi_root.zig` 245-320, 1066-1300, 1565-2156 | input slice, subscription, what was announced | Subscribe, SetInput, ReleaseInput, CloseInput, Set/Release buffers, SkipFrames, SkipCurrentFrame, Rewind, Reset, ProcessInput |
| frame iterator | same file, 1066-1117, 1156-1176, 1268-1300 | frame_data, frame_offset, frame_*, decoded_frame, output_buffer, preview | parse, decode once, write out, advance |
| box iterator | 1119-1154, 2047-2083 | box_index, box_bytes_emitted, box_buffer | header, copy, refill, complete, advance |
| JPEG output | 1725-1777, 2128-2137 | jpeg_bytes, jpeg_offset, jpeg_buffer | reconstruct, copy, release |
| decode session | `src/lib/codec/decode_session.zig` | 4 reference slots, 4 low frequency slots, 2 noise seeds | decode, finish, compose, deinit |
| file formats | `src/lib/codec/{container,frame_header,headers,image_metadata,toc}.zig` | none | parse |
| frame decoding, entropy, modular, rendering | `src/lib/{codec,entropy,modular,base}` | per frame | pure transformations |
| JxlEncoder | `src/capi_root.zig` 322-392, 570-989, 2167-2547 | pending and queued frames, staged boxes, encoded bytes, output offset | settings, AddBox, AddImageFrame, Close*, ProcessOutput |
| JxlValidate | 1306-1507 | none between calls | runs the frame iterator under budgets |
| parallel runners | `lib/threads/thread_parallel_runner_internal.{h,cc}`, `resizable_parallel_runner.cc` | counters and command under a mutex, one position and depth per runner | create, Runner, RunOnEachThread, SetNumThreads, Run, destroy; WorkerBody of each |
| frame decoder, C++ | `lib/jxl/dec_frame.{h,cc}`, `dec_group_border.{h,cc}`, `render_pipeline/*` | sections and passes decoded, corner counters, saved borders | sections arrive, groups drawn by threads, pauses, Flush, FinalizeFrame |
| codestream input, C++ | `lib/jxl/decode.cc` 560-640, 820-1320, 1770-2050 | client's slice, codestream_copy, codestream_unconsumed, codestream_pos, box cursor | SetInput, ReleaseInput, CloseInput, SkipCurrentFrame, ProcessInput |
| encoder output, C++ | `lib/jxl/encode.cc` 111-437, 759-1109, 2599-2650, `encode_internal.h` 427-593 | chunks, position_, finalized_position_, output_position_, the buffer in use, stop_requested_ | GetBuffer, ReleaseBuffer, Seek, SetFinalizedPosition, SetAvailOut; ProcessOutput, FlushInput |
| djxlz, cjxlz, jxlz | `src/cli` | buffers of one run | clients of the two objects |

The Zig decoder and encoder are single-threaded and keep everything in memory:
there are no threads, no persistence and no messages. What makes them hard is the
*client*. It may call anything between two returns of `JxlDecoderProcessInput`,
and the properties below are about orders of calls no test was written for: a
skip after a frame was announced, a retry after pixels could not be written, a
rewind with another subscription, a buffer smaller than a box, input released and
set again, allocations that fail at any point. The calls interact through shared
fields: `frames_to_skip`, `output_buffer` and `full_image_emitted` belong to the
current frame in one line and to the whole file in the next.

The C++ runners are concurrent: a mutex and two condition variables, an atomic
counter with a relaxed load, a count of workers that join while others leave. The
frame decoder runs on them, and draws the border between four groups on whichever
thread comes last. Its sections come in whatever pieces the input has, and the
input keeps a copy of bytes that are still in the client's hands.

What has to be right, part by part:

* frames: each is settled once, in codestream order, and goes through the session
  exactly once, whatever became of its pixels; a buffer gets the frame it was set for;
* session: the slots hold what the frames before the current one put there;
* boxes and JPEG bytes: none lost, none repeated, counts never wrap;
* events: in the order `decode.h` gives, each backed by data;
* encoder: the file is made of the frames, planes and boxes the client was told
  are in, under settings that belong together, whichever allocation failed; closed
  means closed; the file comes out once, in order, without gaps;
* input: a truncated file is never reported as complete, a sound one never refused;
* runners: a call runs each value once and nothing behind its return; no
  notification is lost; thread numbers stay below what `init` was told;
* drawing: every pixel of a frame is drawn once per pass over it, from what its
  neighbours saved; storage is not shared by two threads; what is drawn last shows
  every pass; JxlDecoder and FrameDecoder agree on the sections done;
* codestream input: the parser sees the codestream once and without a gap, and the
  client is told exactly what was processed;
* encoder output, C++: every byte ends up in its place although headers are written
  last, what the client was told is final never changes, nothing stays in a window
  the client has taken back;
* every call returns, and a file that is whole is read to its end.

## Modules

| module | models | correspondence |
|---|---|---|
| `JxlFile` | files a caller may hold | `FrameHeader` keeps the header fields control flow reads, `fault` says where a frame is corrupt. Displayed, Visible, Saves are the predicates of the code |
| `DecodeSession` | `decode_session.Session` | `refs`, `dc_refs` hold frame indexes instead of images; `SessionDecode` is `decode` with `finish`; `SessionAt` is the independent statement of what the slots should hold |
| `FrameIterator` | frame half of the decoder | one action per way a frame is parsed, decoded, written, left; `fate` and `meant_for` are history variables |
| `OutputBuffer` | a client's buffer | a size or `NoBuffer` |
| `BoxIterator` | box half | contents are counts of bytes, `box_collected` is history |
| `JpegOutput` | JPEG half | the same for reconstructed bytes, `jpeg_collected` is history |
| `Decoder` | calls and loop | composes the above. `Call` has one disjunct per call, `LoopStep` one per branch of the loop; `status` is `"RUNNING"` inside `JxlDecoderProcessInput` and otherwise what the last call returned |
| `DecoderProperties` | | types, safety, action and liveness properties |
| `FrameDelivery` | what the decoder promises about frames | abstract specification: frames are settled one after another, hidden ones silently; the end comes behind the last. `Delivery` in `DecoderProperties` instantiates it with a refinement mapping |
| `EncodedFile` | settings, frames and the file made of them | `Encodable` is what `validateSimplePackedAnimation` and `prepareQueuedPackedInput` let through; `WholeFile` has one item per box, header and frame |
| `FrameQueue` | pending and queued frames | `QueuePendingFrame` with its failures; `submitted` is history: what the client was told is in |
| `Encoder` | all calls of `JxlEncoder` | composes the two above; `ImageCall`, `BoxCall`, `FrameCall` have one disjunct per call, `ProcessOutput` one per way `JxlEncoderProcessOutput` ends; `collected` is history |
| `EncoderProperties` | | types, safety and action properties |
| `ByteStream` | what the encoder promises about its output | abstract specification: content fixed at once, taken in pieces. `Stream` in `EncoderProperties` instantiates it |
| `EncodeContract` | sentences of `lib/include/jxl/encode.h` and of comments the code does not keep | |
| `EncoderInvariants`, `EncoderProofs` | | the inductive strengthening and the proofs |
| `DecodeContract` | sentences of `lib/include/jxl/decode.h` the code does not keep | one action property each |
| `DecoderInvariants` | | the inductive strengthening |
| `DecoderProofs`, `SessionProofs`, `DeliveryProofs` | | TLAPS proofs |
| `RunnerClient` | the caller of a runner | `wanted` is the set of values a call is about, `ran` counts calls of the function per value (history), `init_threads` what `init` was told |
| `ThreadRunner` | `ThreadParallelRunner` | the caller and each worker have a program counter; a step is a critical section, one access to `num_reserved_`, or one call of the function. A worker that is notified is `"woken"` and takes the mutex later |
| `ResizableRunner` | `ResizeableParallelRunner` | the same with an owner, workers that are let in and leave, and joins |
| `Runners` | either of the two | `Next` with the fairness of threads; `SpuriousSpec` adds wakeups nobody asked for |
| `ParallelRun` | what `JxlParallelRunner` promises | abstract specification: a call asks for values, each is run once, the call returns when all were. `Promise` in `Runners` instantiates it, `running` mapped to `InRun` |
| `RunnerInvariants`, `RunnerProofs` | | the inductive strengthening; the invariants and the refinement |
| `GroupBorder` | `GroupBorderAssigner` and the part of the low memory pipeline that saves and draws | `counters` keep the bits per corner, one atomic step per corner; a group saves its border, then draws the rectangles it was assigned |
| `FrameSections` | `FrameDecoder` and its callers in `decode.cc` | `ProcessInput` processes the sections at hand, `CallStep` goes on with groups on any thread; `saved` and `stale` of `GroupBorder` are history: which groups' newest data is stored, which pixels show something older |
| `FrameSectionsInvariants`, `FrameSectionsProofs` | | the inductive strengthening; the geometry of borders, the invariants and the pauses |
| `CodestreamInput` | the input of `JxlDecoderImpl` | the codestream is a sequence of positions; `codestream_copy` and the client's slice hold them by name; `span` is what `GetCodestreamInput` gave the parser. `Skips` is where clients skip a frame |
| `CodestreamInputProofs` | | the inductive invariant and the proofs |
| `OutputProcessor` | `JxlEncoderOutputProcessorWrapper` | `internal_buffers`, the three positions and `buffer` are the fields of that name; `client` is what the other side holds: where it writes, what it was told is final, its bytes |
| `FileWriter` | `ProcessOneEnqueuedInput` and its two callers | composes with the above: an input becomes a list of orders (`Orders`), one step each; `holes` are the positions AppendBox and the frame writers keep in locals. `WholeFile` is the independent statement of what should come out |
| `OutputProofs` | | the inductive invariant and the proofs |
| `MCDecoder`, `MCContract`, `MCEncoder`, `MCEncodeContract`, `MCRunners`, `MCFrameSections`, `MCCodestreamInput`, `MCFileWriter` | | files, clients and bounds for TLC |

Units. The codestream is cut into units: the image header, the preview if there
is one, then one per frame. A slice of input is a number of whole units and
perhaps some bytes of the next, which is all `ensureParsed` and
`ensureCurrentFrameParsed` can tell apart. A container is one unit, because
`parseContainer` takes it whole or not at all.

Errors. `JXL_DEC_ERROR` at the guard of a call changes nothing and is the absence
of a step. Inside the loop errors are steps: a frame that does not decode, a
header that does not parse, a preview, a missing byte (`StatusFromError` turns
that into a request for input while the input is open), and, with `AllocMayFail`,
an allocation anywhere. After `JxlDecoderReleaseInput` the memory `frame_data`
points into is the caller's again; what is read there is arbitrary, so every
parse may fail (`Unreliable`).

The encoder. A call that is refused changes nothing and is the absence of a step,
with one exception the code has: a `JxlEncoderProcessOutput` that comes too early
(`ProcessEarly`). `Failures` says which allocations may fail where that leaves a
trace: copying the pixels of a frame, replacing a plane, encoding, wrapping. A
plane that could not be replaced is `LostPlane`; packing it as alpha reads outside
its memory (`FinalizeUndefined`). The number of extra channels a client declares is
not compared with the length of `pending_extra_channels` (`MaxChannels`, 256 in the
code); a call or an encoding that indexes the array behind its end is
`IndexPastChannels` or `FinalizeUndefined`. Both leave `status = "UNDEFINED"`, and the
model claims nothing about what follows. A file is a sequence of items, so output
buffers are counted in items.

The runners. What a thread does between two accesses to shared data is one step
with the first of them: a critical section under the mutex, the reservation of a
chunk in `num_reserved_` (the relaxed load before the atomic addition may read any
earlier value), one call of the client's function. `notify_all`
reaches the threads that wait at that moment and no others; what `uint32_t` wraps
is `% TaskLimit`. A chunk is a quarter of a worker's share in the code and
`1 / Share` of it here. An `init` that fails changes nothing and is the absence of
a step; a re-entry that is refused is a step, for it leaves `depth_` raised.

The frame decoder. A frame is the list of its sections in the order of their
bytes, and what is in them. Drawing is seen from what it shows: a pixel depends on
the groups that reach into its neighbourhood (`NearGroups`, written from the
geometry and not from the code's rectangles), and is stale when one of them has
saved newer data than it was drawn from. The pool calls groups in any order on any
thread; values it returns from at once are left out. Frames are VarDCT without
extra channels, or keep the whole modular image until the end.

Codestream input. A byte of the file is a byte of the codestream, named by its
place in it, or `Other`; so a byte that is read twice, left out or taken from the
wrong buffer is seen. A box header has `HeaderSize` bytes instead of 8 or 16, the
index of a `jxlp` box and the brand of an `ftyp` box one instead of four.

Encoder output. Bytes are named by what they belong to, and a box header by the type
and size it declares, so one that is written with another size or in another place
is seen. A buffer is taken in one step and filled and released in the next; the
loops that pass on held bytes take one step per request to the client, which may
answer with any size or ask to stop. Headers have two bytes instead of 8, the
smallest buffer of the fast lossless encoder three instead of 32. How much of a
buffer that encoder leaves unused is left open. The client closes the frames
together with the last one, and calls no more after an error.

Definitions marked "Mutation of ..." (or "..., mutated") are not part of the
specification. Each is the operator above or below it with a plausible mistake (a
dropped guard, an off-by-one, a field not reset) and documents which mistake a
property notices.

## Runs

| run | question | bounds |
|---|---|---|
| `decoder_frames` | Do references and buffers stay with their frames, are frames settled as promised, is only a complete file reported complete and a sound one never refused, through skips, rewinds, resets, coalescing on and off, and input in pieces that is released, closed and continued? | 6 files of 2 or 3 frames: an animation with a hidden layer and two blend sources, a still image with a patch and a low frequency frame, a file with a corrupt middle frame and no last one, a container, headers that cannot be read, a preview; 8 slices: prefixes of 0, 1 and 3 units with and without a rest, the whole, and the continuation; 1 outstanding skip; 3 subscriptions |
| `decoder_buffers` | Are box and JPEG bytes handed out whole and once, in the order of events and backed by data, is no frame counted twice in the noise seeds, and does every call return? | 5 files: 3 boxes of 2, 1 (3 when expanded) and 0 bytes; JPEG data with two frames, two JPEG boxes, a sound and a corrupt preview; buffers of 0 and 2 bytes; 5 subscriptions; 1 outstanding skip; failing allocations |
| `contract_references` | Is a sentence of `decode.h` true of the code? It is refuted | one file, one slice |
| `encoder_frames` | Is the file made of what the client was told is in, while copies of pixels and planes fail? | 3 images, with 1 and 2 extra channels and with one more than there is room for; alpha interleaved, separate or missing; up to 2 frames of 2 pictures and 2 durations, 2 settings objects; pictures and settings objects are symmetric |
| `encoder_output` | Can settings be mixed, bytes lost or repeated? | 3 images, 2 encodings, 3 profiles, 3 channel descriptions in any order; 2 boxes, 2 frames; output buffers of 0, 1 and 3 items; encoding and wrapping fail |
| `encode_boxes` | Is a sentence of `encode.h` true of the code? It is refuted | one image, one frame, one box |
| `runners` | Does each runner call the function once per value before it returns, with nothing lost and nothing left behind? | up to 3 workers; ranges of four, two, one and no values; one level of re-entry; `uint32_t` of 32 values; chunks of `1/Share` = a whole share, so of two values and of one |
| `frame_sections` | Is a frame drawn whole and from the right data, whatever pieces it comes in, and does it end? | 7 frames of groups of 3 x 3 pixels, padding 1, on one or two threads: four groups round a corner, three in a row, two in three passes with a pause, one section, a whole modular image, two damaged ones; all four details of progression |
| `codestream_input` | Does the parser see the codestream once, does the client learn what was processed, and is a whole file read to its end? | 6 files of 11 to 32 bytes: bare, spread over three partial boxes (one of them empty) with other boxes between and after, cut into boxes where a section ends, in an open-ended box, cut off in a section and in a box header; pieces of 1, 2, 3, 5 and 9 bytes; frames skipped inside a box of the codestream (`Skips`) |
| `runner_wakeups` | Is the comment on spurious wakeups true of the code? It is refuted | 2 workers, one range |
| `skip_between_boxes` | Does an assertion of `decode.cc` hold? It is refuted | the file cut into boxes where a section ends, frames skipped anywhere |
| `output_processor` | Does the C++ encoder's file come out whole, in place and final only when it is, and do its own checks hold, whatever buffers the client gives? | 5 files: two bare frames; one frame in sections with an index; a box ahead of the frame; reconstruction data with two frames and an empty box; reconstruction data asked for and none there. Windows of 1, 3, 8 and 40 bytes, processors with and without seek that give 0 (stop), 1, 2 or 4 |

`CHECK_DEADLOCK FALSE` in the decoder's runs, in `frame_sections`, and in the
runs of `CodestreamInput` and `FileWriter`, where a client may run out of calls it wants to make
or the file is over, and in `encoder_frames`, where an access outside an array ends
what is modelled. `encoder_output`, `encode_boxes` and both runs of the runners
check deadlock: an owner that waits for workers who wait would be one.

Why the bounds are enough for what they claim: three frames are one that saves,
one that is skipped, hidden or corrupt, and one that reads; two boxes with bytes
show a refill and a successor, the third has none; three JPEG bytes do not fit
any buffer, so every buffer boundary is crossed; one outstanding skip suffices
because the counter is only tested against zero. `MaxSkip` bounds
`frames_to_skip`, which saturates in the code. The proofs below need none of
these bounds.

For the encoder, two frames are a queued and a pending one, and two boxes a first
and a last; a file has at most 6 items, so buffers of 0, 1 and 3 items stop inside
it, at its end and nowhere.

For the runners, two workers next to the owner are one that is late and one that
is not; three of the thread runner share a range of four in chunks of two and of
one, and find nothing in ranges of fewer values. The range of no values and that
of one take the code's own ways round the workers. The proofs cover every number of threads and
all ranges.

For frames, a group of 3 x 3 pixels with a padding of one has a centre, four
borders and four corners, the least that keeps the code's nine parts apart; four
groups have one corner they all share, and the last row of one pixel is less than
the padding needs. Two threads are enough for two groups to be counted at a corner
at once, and the property is about pairs. Three passes have a pause with passes
before and behind it.

For codestream input, a piece is shorter than a box header, as long as one, ends
inside a box, at its end or beyond it; frames have sections that fit a piece and
sections that do not; the empty partial box and the box behind the codestream are
the two places where a box ends without having given anything.

For encoder output, a window ends inside a header, inside what it is the header of,
and behind the file; a processor gives less than a header needs, just that, and
more. Holes nest twice, which is as deep as the code goes; two frames make a first
and a last partial box.

`CarefulClient` restricts the client to two rules of `decode.h`: a filled box
buffer is released before the next `JxlDecoderProcessInput`, and decompression of
boxes is switched only before decoding or at `JXL_DEC_BOX`. The two box
properties depend on it and say so; all others hold for every client.

`SoundNeverFails` compares with `SoundFile`, which is written from the headers
alone (what each frame needs is looked up among the frames before it) and never
mentions the session: a sound file handed over whole is never refused.

Liveness, and the fairness it rests on.

* `CallsReturn` of the decoder: `WF_vars(LoopStep)` only. Once
  `JxlDecoderProcessInput` runs, it keeps running until it returns. That is what a
  single-threaded call does. Nothing is assumed of the client.
* `CallsReturn` of the runners: weak fairness of each thread by itself (the owner
  and every worker). The operating system runs every thread that can run; weak
  fairness suffices because a thread that can take the mutex in this model can do
  so until it does. Nobody has to make a call.
* `FrameFinishes`: weak fairness of `CallStep`, the calls that run, and strong
  fairness of `ProcessInput`: the client brings the input it is asked for and
  keeps calling. Strong, because it may flush between any two calls, which
  disables `ProcessInput` again and again.
* `FileEnds`: weak fairness of the running call and of the client's `ProcessInput`,
  `SetInput` and `CloseInput`: it hands over the rest of the file in pieces of its
  own choice, and closes the input.
* `FileFinishes`: weak fairness of the running call, and of the client's call while
  an input waits or it was told to call again; strong fairness of queueing inputs,
  since calls may come in between.

### What the runs found

Four statements of the installed headers, of comments and of an assertion do not
hold of the code; each has its run and an entry under `findings` in
`PROJECT.json`.

* *Unsubscribed frames lose references* (`contract_references`). Without
  `JXL_DEC_FULL_IMAGE` frames are passed over undecoded until the client sets a
  buffer, and the frame it gets is blended onto empty slots.
* *Boxes get lost* (`encode_boxes`). When `wrapPendingBoxes` fails the bare
  codestream stays in `encoded_bytes`; the next call takes it for the finished
  file and returns success without any box.
* *Spurious wakeups* (`runner_wakeups`). "Safely handle spurious worker wakeups",
  says the comment, and the barrier does; but the workers wait for their command
  without a predicate. One that wakes by itself while a command stands takes the
  range again or reports twice, and `Runner` returns while a worker is in the
  client's function.
* *Skipping between boxes* (`skip_between_boxes`). `JXL_DEC_BOX` may be returned
  in the middle of a frame that is spread over `jxlp` boxes. If the box before ended
  where a section ends nothing is in `codestream_copy`, and skipping the frame then
  makes `AdvanceCodestream` pass over the header and the contents of the new box as
  if they were the codestream; passing over the header again wraps `avail_in` (the
  assertion of `AdvanceInput`). Releasing the input before skipping has the same end:
  bytes of the copy that count as unconsumed are advanced over though no input is set
  (`Skips = {"unset"}`).

Further sentences the code does not keep, read in the source and visible in the
actions named, without a run of their own:

| sentence | code |
|---|---|
| `decode.h` 398-400: a skip requested during a frame starts at the next | `SkipDisplayedFrame`: the frame just announced goes first |
| `decode.h` 380-388: what a rewind keeps | `ResetFrameIteration` keeps outstanding skips too |
| `decode.h` 1257-1259: a box buffer is measured at the next `JXL_DEC_BOX` | `AdvanceCurrentBox` has detached it |
| `decode.h` 126-128: success once every subscribed event was handled | `ParseStep`, `Finish`: only behind the last frame |
| `decode.h` 589: `JXL_DEC_NEED_MORE_INPUT` when input is missing | `ParseHeadersFails`: a container cut short is an error |
| `decode.h` 641-642: closed input | `ProcessInput`: a closed decoder without input asks for more |
| `decode.h` 563-567: released input may be continued where it ended | `ReleaseInput` keeps `frame_data`: the slice seen first is read on, and more is asked for after the whole file (`CODE_REVIEW.md` section 10 and `PLAN.md` list streaming input as open) |
| `decode.h` 257-258: a JPEG buffer may be set once the reconstruction data is there | `JpegAfterPixels`: if the frame's pixels are out already, `prepareJPEG` decodes it a second time, now against references that hold the frame itself; with patches from the slot it was saved to, it is refused (`SoundNeverFails` excludes this case) |
| `encode.h` 494-496: each extra channel is copied | `FinalizeUndefined`: replacing a plane frees the old one first; if the new one cannot be allocated, packing reads past its end |
| `capi_root.zig` 488-490: CMYK needs a black channel | `SetICCProfile` looks for it when the profile is set; it can be described away afterwards |
| `decode.cc` 2034-2037: no use of a decoder after an error | `DecoderStage::kError` (200) is tested and never assigned |
| `encode.h` 318-320: index setting 0 ignores the frame (C++) | `encode.cc` 1810-1816 sets `frame_index_box` for 0 as for 1 |
| `encode.h` 417-419: a reset encoder is as newly created (C++) | `JxlEncoderReset` leaves `frame_index_box`: the next index lists the frames of the last file as well |
| `encode.h` 744-746: asking to stop is an error (C++) | `FlushStopped`, `LeaveFlush`: `FlushOutput` returns true and nothing reads `WasStopRequested`; if this was the last output, `JxlEncoderFlushInput` returns success. A processor that can seek is even told that more is final than was written (`FinalIsTheFile` excludes this case) |
| `encode_internal.h` 486-487: no chunk entirely below the output position (C++) | `Pending`: with a processor that can seek there is never anything to flush, and `FlushOutput` alone erases chunks |
| `encode.h` 666-667: alpha that is not passed is opaque | `Packs` refuses the frame |
| `encode.h` 485: the frames added so far are encoded | `ProcessEarly` fails, and no frame can be added after it |

Three more ends of the runners are outside what their properties claim. Ranges
near 2^32 wrap `num_reserved_` and `next_task_` (`NoWrap` keeps clear of them, an
empty range there included). A re-entry that is refused leaves `depth_` raised.
`JxlResizableParallelRunner` called with an empty range tells `init` of 0 threads
and lets workers in by `end - start - 1`, which wraps (`NoEmptyRange`);
`ThreadPool::Run` (`lib/jxl/base/data_parallel.h` 50-53) never calls it so.

## Proofs

TLAPS proves the following for every set of files, every client, every buffer size
and every bound (of the encoder: every setting, any number of frames and boxes; of
the runners: any number of threads and any ranges; of the C++ frame decoder: frames of
any size, groups and borders of any size, any number of passes, pauses and threads; of its
input: codestreams, boxes and pieces of any size; of its encoder's output: any inputs,
buffers and windows of any size), from the assumptions
`FilesAssumption` (frame headers obey the rules `readFromBitStream` enforces, boxes only in containers), `BuffersAssumption`,
`ClientAssumption`, `EncoderAssumption`, `RunnerAssumption`, `ShareAssumption`,
`DetailsAssumption` and `ThreadsAssumption` (constants have their types),
`WriterAssumption`, `SizesAssumption` and `JobsAssumption` (headers and windows are not
empty, a frame has at least one byte, a box may have none),
`GeometryAssumption` (a border is at most half a group: `lib/jxl/dec_group_border.cc`
95-116 orders its cuts only then) and `FramesAssumption` (a frame's sections hold its
parts as `NumTocEntries` numbers them, each in a section of its own or all in one; in
any order of bytes; pauses are passes the frame has), `InputAssumption` and the
`FilesAssumption` of `CodestreamInput` (a file is as its boxes and items say, or cut
off), which TLC checks in each run. Two theorems about the
runners state a further assumption on the ranges, `NoEmptyRange` or `NoWrap`, and those
about the input assume clients that skip frames only inside a box of the codestream:
elsewhere `avail_in` may wrap (`skip_between_boxes`).

| theorem | states |
|---|---|
| `TypeCorrect` | `TypeOK`: no counter below zero, no frame index outside the file |
| `TruncatedNeverSucceeds` | `SuccessIsComplete` |
| `BoxBytesKept`, `CompleteBoxesAreWhole` | `NoBoxByteLost`, `BoxCompleteIsWhole` |
| `JpegBytesKept`, `ReleaseCountsCannotWrap` | `NoJpegByteLost`, `ReleaseCountsFit` |
| `EventsInOrder` | `EventOrder` |
| `ReferencesFollowStream`, `SeedsFollowStream` | `RefsInOrder`, `SeedsInOrder` |
| `OnlyUnwantedBypass` | `BypassOnlyUnwanted` |
| `BufferKeepsItsFrame` | `BufferOnlyForItsFrame` |
| `FullImageBacked` | `FullImageIsDelivered` |
| `DecoderDelivers` | `DeliversFrames`: `Decoder` implements `FrameDelivery` |
| `SoundIsAlwaysDecoded` | `SoundNeverFails` |
| `EncoderTypes` | `TypeOK` of the encoder |
| `FramesAsSubmitted` | `QueueFollowsCalls` |
| `NothingAfterClose` | `ClosedIsClosed` |
| `SettingsAgree` | `NoMixedSettings` |
| `SuccessHoldsSubmission` | `OutputHoldsSubmission` |
| `OutputIsOneFile` | `ReadsOneFile`: `Encoder` implements `ByteStream`, provided no plane can be lost and no client declares more channels than there is room for (`ChannelsFit`) |
| `RunnersTyped` | `TypeOK` of the runners: the counts of ready and running workers fit |
| `WorkersAreParked` | `WorkersParked` |
| `RunEndsQuietly` | `QuietBetweenCalls` |
| `ThreadIdsAreKnown` | `ThreadIdsFit`, for ranges that are not empty |
| `RunnersKeepPromise` | `RunsEachOnce`: both runners implement `ParallelRun`, for ranges that stay clear of the end of `uint32_t` (`NoWrap`; TLC evaluates it for the ranges of the run) |
| `FrameTypes` | `TypeOK` of the C++ frame decoder |
| `StorageIsNeverShared` | `StorageIsExclusive` |
| `OnlySavedDataIsDrawn` | `DrawsFromSavedData` |
| `EachPixelHasOneDrawer` | `AreasDisjoint`, at most `kMaxToFinalize` rectangles included |
| `NothingIsLeftUndrawn` | `NothingLeftUndrawn` |
| `ReportedImageIsComplete` | `ImageIsComplete` |
| `BothRecordsAgree` | `RecordsAgree` |
| `ProgressIsExact` | `PausesAreExact` |
| `SpansAreTheCodestream` | `SpanContinuesCodestream` |
| `ReleaseTellsThePlace` | `ReleaseIsExact` |
| `OutputInvariant` | the inductive invariant of the encoder's output |
| `EnsuresAlwaysHold` | `EnsuresHold` |
| `FinalBytesAreTheFile` | `FinalIsTheFile` |
| `SuccessGivesWholeFile` | `SuccessIsWholeFile` |
| `FinalizedAlwaysStands` | `FinalizedStands` |

`OnlyUnwantedBypass`, `ReleaseCountsCannotWrap` and `NothingAfterClose` are proved and
have no run of their own.

None of these invariants is inductive alone. `DecoderInvariants` lists the parts
that are missing: the loop only runs on input that fits the file (`InputInv`),
what is parsed was supplied (`SupplyInv`), the cursor stays within it and what is
remembered of a frame is remembered of the parsed one (`CursorInv`), the end is
behind a last frame (`EndInv`), only the current frame is settled ahead of being
left (`FateInv`), and buffers start empty (`BoxInv`, `JpegInv`). TLC checks their
conjunction, `Inductive`, on the configurations of both runs; the proofs establish it part
by part. The argument of `DecoderProofs`: first which kinds of action touch which
variables (`StepKinds`, `SettingsOnly`, `FrameStepsOnly`, ...), then one step lemma
per part, each looking only at the actions that can disturb it.
`SessionProofs` first reduces every step to six things that can happen to a frame
(`FrameOutcomes`), then shows that the session moves by exactly the current frame
or not at all (`SessionMoves`); references and seeds follow by one induction each
(`SessionAdvances`, `SeedsAdvance`).

`DeliveryProofs` adds what the refinement needs: no frame is left behind without an
outcome and a parsed frame is displayed as its header says (`SettledInv`), and
`JXL_DEC_SUCCESS` stands only at the end of a pass (`FinishedInv`). A step that settles
the current frame is then `SettleNext` of `FrameDelivery` or repeats what was settled
(`SettlingRefines`); any other step begins, ends or resumes a pass or changes nothing
the abstract specification sees (`OtherwiseRefines`). `SoundIsAlwaysDecoded` takes the
steps that may return `JXL_DEC_ERROR` (`WhoFails`) one by one. A frame about to be
decoded is accepted because its slots hold what the codestream prescribes
(`RefsInOrder`), which is unique (`HeldIsPrescribed`); a header about to be parsed is
there because no last frame was left before the end (`LastInv`). The attempt to prove
the property as it first stood failed at `ReconstructJpegFails`, for a reason no file of
the runs shows: see `JpegAfterPixels` in the table above.

`EncoderProofs` splits `Next` into seven kinds of call, each leaving most variables
alone, and proves the parts of `Inductive` in `EncoderInvariants`: the queue with
what is pending is what was submitted and planes belong to a pending image
(`QueueInv`); closing the input closes the rest and nothing is pending behind it
(`CloseInv`); frames fit the image (`FramesInv`); a file exists only after
everything was closed and is made of what is queued (`FileInv`); what was taken is
the file up to the offset (`OffsetInv`). `OutputHoldsSubmission` alone is not
inductive because the file is fixed many calls before success is reported. The
refinement follows from `HandOutMoves` (one piece more) and `Prefixes`; it assumes
`"plane" \notin Failures` and `ChannelsFit`, as without them the code may leave its arrays.

The runners. For the thread runner, what `workers_ready_` counts is the workers that
wait, and only while the barrier is up (`ReadyInv`); the command stands from
`StartWorkers` to the end of the call and is what the workers in it obey
(`CommandInv`). These two give `WorkersParked`: a notification is sent only when
everyone waits. For the resizable runner, the workers there are number
`0 .. num_desired_workers - 1` except for those being joined (`CrewInv`), and
`num_running_workers_` counts the owner and those that joined, none of which is
left when a call has returned (`RunningInv`); `QuietBetweenCalls` follows, and with
`AdmittedInv` `ThreadIdsFit`.

The refinement (`RunnersKeepPromise`) needs where every value is. In the thread runner it is still to
be reserved, in the chunk of one worker, or done, chunks are disjoint, and a worker
reports only when nothing is left to reserve (`ChunkInv`, with `ReservedInv`: how
far a late reservation passes the end); on each thread, `EachInv`. In the resizable
runner it is ahead of `next_task_`, held by one thread, or done (`TaskInv`); every
thread passes the end at most once (`PassedInv`, `RoomInv`), since the first to
leave shuts the door. `SingleInv` is the range of one value, and `OneInv` says that
only the runner the client was given is in a call.

The C++ frame decoder. The first part of `FrameSectionsProofs` is about numbers alone: a pixel depends on groups
that lie around one corner, along each axis on one group or on two neighbours
(`AxisReaches`, `NearAre`); seen from each of them that corner is the same and each is on
a side of its own (`VisitsMeet`); and what `GroupDone` assigns to a group, however the
rows are merged, are separate rectangles that cover exactly the pixels it depends on for
which it saw all the others at that corner (`RectsToFinalizeAre`, from `PartIsDrawn` for
the nine parts of its area and `RectIs`, `SameSegment` for the merging).

Its second part proves `IInv` of `FrameSectionsInvariants` inductive, which TLC
checked over the states of `frame_sections` first. A thread at work has a group handed out
in this run, to it alone (`LanesInv`), which has unsaved data until the thread saves it
(`SavedInv`). A side is set in the counter of a corner exactly while its group's data is
saved and the group has passed there; what a thread saw at a corner is still so; and of two
threads at one corner at most one saw the other (`MarksInv`): this is what the atomic
`fetch_or` is for. With `RectsInv` a thread draws only where it came last, so
`AreasDisjoint` and `DrawsFromSavedData` follow at the corner of `VisitsMeet`. `CoverInv`
says that a pixel whose groups are all saved and which still shows something older has a
thread that will draw it, or has not seen yet whether it will; `NothingLeftUndrawn` is
`CoverInv` once the lanes are free. For sections: what is done is decoded (`DoneInv`), in
the order of its dependencies and undamaged (`OrderInv`), and both records agree except for
what a call was given (`RecordsInv`); a frame in one section needs `SingleInv`, because its
section is marked done by the first part that is decoded from it. `HasDecodedAll` counts
sections, and equals all of them by `RecordsInv`, which makes the image complete
(`AllDecoded`). No group passes the next stop (`PausesInv`), so a pause that is reached is
reached by all.

The codestream input. `IInv` of `CodestreamInputProofs` says where everything is: the
cursor is in the box it should be in, where the stage of `HandleBoxes` says (`BoxInv`);
the copy holds the codestream, and ends where the file is held, at
`file_pos + codestream_unconsumed`; it begins `codestream_pos` bytes before what is parsed
next, and without a copy as many bytes are still to be skipped (`PosInv`). The span is
what is from there to the end of what can be used (`SpanInv`). Two facts carry the proof.
Inside a box of the codestream the bytes are numbered consecutively (`InsideCarried`),
while nothing else in the file has a number (`OutsideCarried`), so that a distance in the
file is one in the codestream while the cursor stays in the box. And the three functions
on `codestream_copy` take a `Good` input to a `Good` one
(`AdvanceIs`, `RequestIs`, `CopyIs`); `AdvanceCodestream` is the hard one: what it passes
over may end in the copy, in the part of the copy that is unconsumed, or behind both, and
behind the box. Every step of the parser is one of them or two in a row
(`ReadSectionsStep`). Between boxes of the codestream nothing is unconsumed and only
`HandleBoxes` moves the cursor, which is what a skip between boxes breaks.

The encoder's output. None of the four properties is inductive: whether a header lands
in its place depends on orders given long before, and what is final on chunks that were
filled out of order. `Inv` of `OutputProofs` joins three views of the file. The first is
where the encoder is (`Here`: its position and the holes it has left) and what it will
still do: `PlanInv` says that the orders of `todo` lead from here through places where
each of them fits, bytes that the file has there, a header no longer than its hole, to
the end of the input (`Goal`). Holes nest (`GoodPlace`), so the place alone tells which
bytes have been written: `Written` is everything up to `Frontier` that is in no hole.
The second is what the wrapper holds: chunks that do not overlap, whose bytes are written
and the file's (`ChunkInv`). The third is what the client has, and it differs for
the three kinds of client: what is written and not yet out is in a chunk, in the memory
of the window beyond `next_out`, or with a stream about to be counted (`DirectInv`,
`WindowInv`, `StreamInv`); with a processor that seeks, it is out at once, except for the
chunk that is going out (`SeekInv`). `ControlInv` relates calls, loops and errors,
`JxlpInv` the counter of jxlp boxes.

The proof has two halves that meet in `Written`. That the orders of every input have such
a plan (`RouteOrders`) is where the file of the encoder is compared with `WholeFile`: plans
compose, and a hole, contents of any length, the way back, the header and the end are one
plan of their own (`RouteAppendBox`, `RouteFrameOrders`, `RouteHeaderBoxes`). That each action
of the wrapper keeps the rest is proved for any data that fits. `FinalIsTheFile` follows because
what is final is `Written` and has left every chunk, `SuccessIsWholeFile` because at
`Goal` nothing else is, and `FinalizedStands` because `Final` never goes back (`Forward`)
and is the file before the step and after it. `WholeFile` is written as a recursive
function of the inputs so far (`UpTo`), which the proof unfolds once per input. TLC checked
`Inv` on the states of `output_processor` before it was proved. The proof relies on a frame
having at least one byte and a box header having some: an empty hole would leave its
place ambiguous.

Model-checked only: every liveness property (`CallsReturn` twice, `FrameFinishes`,
`FileEnds`, `FileFinishes`), which need fairness and are out of the prover's reach; and the
refutations.

## Not modelled

Pixels, sample formats, colour, entropy coding and prediction: functions without
state between calls. They appear as the outcome of a frame: it decodes, it is
corrupt, or an allocation fails. Null pointers and the
copying of C structures are left out, as are the calls that only fill in such a
structure. `JxlDecoderSetParallelRunner` of the Zig port accepts a runner and never calls it.

Of the C++ frame decoder: modular frames drawn group by group, partial DC
sections, sections without bytes, extra channels, `RenderPadding` and JPEG
reconstruction. Of its input: the signature check, concatenated codestreams,
contents of boxes other than the codestream (compressed ones, `jbrd` and Exif
storage), errors in the order of boxes, bit positions within a header. Of its
encoder's output: `CopyOutput`, large box headers, `JxlEncoderReset`, errors while
encoding. The rest of `lib/` (transforms, entropy coding, frame encoding, colour management,
metrics) makes up most of its lines and is arithmetic on samples and bits without
control that spans calls; so the mapped share of that tree stays small.
 `PROJECT.json` gives the reason per component.

## Plan

1. **Decoder and session** (done): modules, runs, contract, theorems.
2. **Encoder** (done): `Encoder` with settings, boxes, frames and failing
   allocations, refining `ByteStream`; its invariants and the refinement proved.
3. **Runners** (done): both runners thread by thread, refining `ParallelRun`; their
   invariants and the refinement proved.
4. **Frame decoder and codestream input of the C++ tree** (done for the frames and
   boxes named above): `GroupBorder`, `FrameSections`, `CodestreamInput`; **encoder
   output of the C++ tree** (done): `OutputProcessor`, `FileWriter`.
5. **Client**: `Djxlz` composes `decode_image` of `src/cli/djxlz.c` with `Decoder`:
   ownership of its two pixel buffers, termination.
6. **Container**: `Container` (parseContainer with its flags, parseBoxHeader at its
   numeric edges) against a reference definition of a well-formed box sequence, and
   wrapping as its inverse; **Validate**: budgets and verdicts over `FrameIterator`.
7. **Algorithms**: bit reader accounting, table of contents and permutations,
   hybrid integers, move to front, prefix codes, ANS, reversible transforms: each
   against an independent definition over bounded inputs.
8. **Proofs** (done): every safety invariant and action property the runs check is stated
   by a theorem; what later modules add comes with theirs.
