-------------------------- MODULE DecoderProperties --------------------------
(* What JxlDecoder must never do, and what it must get done.                *)
EXTENDS Decoder

FrameCount == Len(file.frames)

CallTypes ==
  /\ file \in Files
  /\ status \in Statuses
  /\ started_processing \in BOOLEAN
  /\ subscribed_events \in SUBSET Events
  /\ input_data \in Inputs \cup {NoInput}
  /\ input_closed \in BOOLEAN /\ input_released \in BOOLEAN
  /\ supplied \in Nat

HeadTypes ==
  /\ basic_info_available \in BOOLEAN /\ frame_lent \in BOOLEAN
  /\ basic_info_emitted \in BOOLEAN /\ color_encoding_emitted \in BOOLEAN

BoxTypes ==
  /\ box_index \in Nat \ {0}
  /\ box_header_emitted \in BOOLEAN /\ box_complete_emitted \in BOOLEAN
  /\ box_bytes_emitted \in Nat /\ decompress_boxes \in BOOLEAN
  /\ box_buffer \in Nat \cup {NoBuffer}
  /\ box_buffer_written \in Nat /\ box_collected \in Nat

JpegTypes ==
  /\ jpeg_event_emitted \in BOOLEAN /\ jpeg_requested \in BOOLEAN
  /\ jpeg_bytes \in BOOLEAN /\ jpeg_offset \in Nat
  /\ jpeg_buffer \in Nat \cup {NoBuffer}
  /\ jpeg_buffer_written \in Nat /\ jpeg_collected \in Nat

SessionTypes ==
  /\ refs \in [Slots -> 0 .. FrameCount]
  /\ dc_refs \in [Slots -> 0 .. FrameCount]
  /\ visible_frame_index \in Nat /\ nonvisible_frame_index \in Nat

FrameTypes ==
  /\ coalescing \in BOOLEAN
  /\ frame_data \in [units : Nat, partial : BOOLEAN]
  /\ frame_offset \in Nat
  /\ frame_parsed \in BOOLEAN /\ frame_displayed \in BOOLEAN
  /\ frame_emitted \in BOOLEAN /\ frame_decoded \in BOOLEAN
  /\ decoded_frame \in BOOLEAN /\ full_image_emitted \in BOOLEAN
  /\ decode_complete \in BOOLEAN
  /\ frames_to_skip \in Nat
  /\ output_buffer \in BOOLEAN
  /\ preview_emitted \in BOOLEAN /\ preview_buffer \in BOOLEAN
  /\ decoded_preview \in BOOLEAN
  /\ fate \in [1 .. FrameCount -> Fates]
  /\ meant_for \in 0 .. FrameCount

\* Every variable has its type: the usize counters of DecoderImpl never wrap
\* below zero and every frame index names a frame of the file.
TypeOK ==
  CallTypes /\ HeadTypes /\ BoxTypes /\ JpegTypes /\ SessionTypes /\ FrameTypes

-----------------------------------------------------------------------------
(* Frames and references.                                                  *)

\* How many frames have gone through the session.
SessionPosition == CurrentFrame - 1 + (IF decoded_frame THEN 1 ELSE 0)

\* No frame behind the current one bypassed the session.
NoneBypassed == \A i \in 1 .. CurrentFrame - 1 : fate[i] \notin {"passed", "jpeg"}

\* Whatever mix of skips, retries after an error, rewinds and hidden frames
\* led to the current frame, the reference slots hold what decoding every
\* frame once in order leaves in them (decodeCurrentFrame, Session.finish).
RefsInOrder == NoneBypassed => SessionAt(SessionPosition, coalescing)

\* The same for the frame indexes that seed noise synthesis: a frame that is
\* retried after its pixels could not be written is not counted twice.
SeedsInOrder == NoneBypassed => SeedsAt(SessionPosition)

\* A frame bypasses the session only if its pixels were not wanted: either
\* JXL_DEC_FULL_IMAGE is not subscribed or the JPEG took their place.
BypassOnlyUnwanted ==
  \A i \in 1 .. FrameCount :
    /\ fate[i] = "passed" => ~Wants("FULL_IMAGE")
    /\ fate[i] = "jpeg" => jpeg_requested /\ file.jbrds = 1

\* A pixel buffer set while a displayed frame is current never receives the
\* pixels of another frame (decode.h:1002-1006; advanceCurrentFrame drops it).
BufferOnlyForItsFrame ==
  frame_decoded /\ meant_for # 0 => meant_for = CurrentFrame

\* JXL_DEC_FULL_IMAGE means that this frame's pixels are in the caller's
\* buffer, or that every byte of the reconstructed JPEG has been handed out.
FullImageIsDelivered ==
  status = "FULL_IMAGE" =>
    \/ frame_decoded /\ fate[CurrentFrame] = "shown"
    \/ jpeg_collected + jpeg_buffer_written >= file.jpeg_size

\* The decoder settles frames as FrameDelivery promises.
Delivery == INSTANCE FrameDelivery WITH
  frames <- file.frames,
  visible <- [i \in 1 .. FrameCount |-> Displayed(Header(i), coalescing)],
  started <- started_processing,
  ended <- status = "SUCCESS",
  Settled <- {"shown", "jpeg", "skipped", "passed"},
  Silent <- {"hidden"}

DeliversFrames == Delivery!Spec

-----------------------------------------------------------------------------
(* Success and failure.                                                    *)

\* The units that hold the file up to and including frame n.
UnitsThrough(n) == IF file.container THEN 1 ELSE 1 + PreviewUnits(file) + n

\* A file cut off before its last frame, however it was handed over, is never
\* reported as fully decoded (ensureCurrentFrameParsed against frame_data.len).
SuccessIsComplete ==
  status = "SUCCESS" =>
    \E n \in 1 .. FrameCount : Header(n).is_last /\ UnitsThrough(n) <= supplied

\* What slot s holds before frame i of a file whose frames all decode.
HeldBefore(i, s) == CHOOSE held \in 0 .. i - 1 : PrescribedRef(held, i - 1, s, coalescing)

SoundFrame(i) ==
  LET h == Header(i)
  IN  /\ h.fault = "none"
      /\ h.uses_dc => \E j \in 1 .. i - 1 : Header(j).dc_level = h.dc_level + 1
      /\ \A s \in h.patches : PreColor(HeldBefore(i, s))
      /\ coalescing /\ h.regular => \A s \in h.blends : ~PreColor(HeldBefore(i, s))

SoundFile ==
  /\ file.fault = "none" /\ file.preview # "corrupt" /\ file.jbrds <= 1
  /\ \A i \in 1 .. FrameCount : SoundFrame(i)
  /\ \E i \in 1 .. FrameCount : Header(i).is_last

\* The decoder has, or is about to take, all of the file.
WholeFile ==
  IF basic_info_available
    THEN frame_lent /\ frame_data.units = FrameUnits(file)
    ELSE input_data.first = 0 /\ input_data.units = FileUnits(file)

\* The JPEG of a frame is asked for when its pixels were out already: prepareJPEG
\* decodes it against references that may be the frame itself, and may fail.
JpegAfterPixels == AtJpeg /\ decoded_frame

\* A sound file handed over whole is never refused, whatever skips, rewinds,
\* retries and choices of coalescing came before: the references a frame
\* needs are there when it is decoded.
SoundNeverFails ==
  [][ status = "RUNNING" /\ status' = "ERROR" =>
        ~SoundFile \/ ~WholeFile \/ ~NoneBypassed \/ AllocMayFail \/ JpegAfterPixels ]_vars

-----------------------------------------------------------------------------
(* Boxes and reconstructed JPEG bytes.                                     *)

\* With a client that follows decode.h, no byte of a box is overwritten
\* before the client has taken it, across refills, failed allocations and
\* rewinds, although every copy starts at the beginning of the buffer.
NoBoxByteLost ==
  CarefulClient => box_bytes_emitted = box_collected + box_buffer_written

\* JXL_DEC_BOX_COMPLETE means the whole box, in the form asked for, was
\* handed out (decode.h:305-312).
BoxCompleteIsWhole ==
  CarefulClient /\ box_complete_emitted /\ BoxesLeft =>
    box_bytes_emitted = ContentsLen(CurrentBox)

\* Every reconstructed byte is in a buffer the caller holds or has released,
\* once and in order, whatever buffers it sets and releases.
NoJpegByteLost == jpeg_collected + jpeg_buffer_written = jpeg_offset

\* jpeg_buffer_written never passes the end of the buffer, so the count
\* JxlDecoderReleaseJPEGBuffer returns cannot wrap; the same for a box.
ReleaseCountsFit ==
  /\ jpeg_buffer # NoBuffer => jpeg_buffer_written <= jpeg_buffer
  /\ box_buffer # NoBuffer => box_buffer_written <= box_buffer
  /\ jpeg_offset <= file.jpeg_size

-----------------------------------------------------------------------------
(* Events and calls.                                                       *)

\* Events come in the order decode.h:195-245 gives, also after a rewind with
\* another subscription: no frame before the boxes (which are walked first in
\* each pass of the loop), the headers and the preview, so that a client that
\* stops at the first frame has seen all metadata.
EventOrder ==
  frame_parsed =>
    /\ Wants("BOX") => box_index > Len(Boxes)
    /\ BasicInfoDone /\ ColorDone /\ JpegEventDone /\ PreviewDone

\* JxlDecoderProcessInput always returns.
CallsReturn == (status = "RUNNING") ~> (status # "RUNNING")

==============================================================================
