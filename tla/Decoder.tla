------------------------------- MODULE Decoder -------------------------------
(***************************************************************************)
(* JxlDecoder of src/capi_root.zig: the calls a client makes and the       *)
(* JxlDecoderProcessInput loop between them. The decoder is single-        *)
(* threaded, so a call runs alone; JxlDecoderProcessInput is one action    *)
(* per branch of its loop, and status is "RUNNING" while it has not        *)
(* returned. Between calls status keeps what its last call returned.       *)
(* Any other call that returns JXL_DEC_ERROR at its guard changes nothing and is   *)
(* the absence of a step.                                                  *)
(***************************************************************************)
EXTENDS FrameIterator, BoxIterator, JpegOutput

CONSTANTS
  Calls,         \* the calls this client makes
  EventSets,     \* the subscriptions it may choose
  Inputs,        \* the slices of the file it may hand over
  NoInput,       \* no input set
  SkipAmounts,   \* arguments of JxlDecoderSkipFrames
  MaxSkip,       \* bound on frames_to_skip (saturating at maxInt(usize) in the code)
  AllocMayFail,  \* whether an allocation may fail
  CarefulClient  \* whether it follows the box rules of decode.h: a filled box
                 \* buffer is released before the next JxlDecoderProcessInput, and
                 \* decompression is switched only before decoding or after JXL_DEC_BOX

Events == {"BASIC_INFO", "COLOR_ENCODING", "PREVIEW_IMAGE", "FRAME", "FULL_IMAGE",
           "JPEG_RECONSTRUCTION", "BOX", "BOX_COMPLETE"}

Statuses == Events \cup
  {"IDLE", "RUNNING", "SUCCESS", "ERROR", "NEED_MORE_INPUT",
   "NEED_PREVIEW_OUT_BUFFER", "NEED_IMAGE_OUT_BUFFER",
   "JPEG_NEED_MORE_OUTPUT", "BOX_NEED_MORE_OUTPUT"}

\* A slice of the file: `units` whole units after the first `first` ones,
\* and, if partial, some bytes of the next.
Slice == [first : Nat, units : Nat, partial : BOOLEAN]

ASSUME ClientAssumption ==
  /\ EventSets \subseteq SUBSET Events
  /\ Inputs \subseteq Slice /\ NoInput \notin Slice
  /\ SkipAmounts \subseteq Nat /\ MaxSkip \in Nat
  /\ AllocMayFail \in BOOLEAN /\ CarefulClient \in BOOLEAN

VARIABLES
  status,
  started_processing,
  subscribed_events,
  input_data,             \* the slice set, or NoInput
  input_closed,
  input_released,
  supplied,               \* history: how many units from the start of the file
                          \* the loop was given since the last reset
  basic_info_available,
  frame_lent,             \* the memory frame_data points into is the decoder's
                          \* own, or input the caller has not released
  basic_info_emitted,
  color_encoding_emitted

inputVars == <<input_data, input_closed, input_released, supplied>>
headVars == <<basic_info_available, frame_lent, basic_info_emitted, color_encoding_emitted>>
callVars == <<file, started_processing, subscribed_events, inputVars>>
vars == <<status, callVars, headVars, boxVars, jpegVars, frameVars>>

Init ==
  /\ file \in Files
  /\ status = "IDLE"
  /\ started_processing = FALSE
  /\ subscribed_events = {}
  /\ input_data = NoInput
  /\ input_closed = FALSE
  /\ input_released = FALSE
  /\ supplied = 0
  /\ basic_info_available = FALSE
  /\ frame_lent = TRUE
  /\ basic_info_emitted = FALSE
  /\ color_encoding_emitted = FALSE
  /\ BoxInit
  /\ JpegInit
  /\ FrameInit

-----------------------------------------------------------------------------
(* The calls.                                                              *)

Idle(call) == status # "RUNNING" /\ call \in Calls

\* JxlDecoderSubscribeEvents
SubscribeEvents(events) ==
  /\ Idle("SubscribeEvents") /\ ~started_processing
  /\ subscribed_events' = events
  /\ UNCHANGED <<status, file, started_processing, inputVars, headVars,
                 boxVars, jpegVars, frameVars>>

\* JxlDecoderSetCoalescing; the other Set* settings have the same guard and
\* only steer pixel conversion.
SetCoalescing(b) ==
  /\ Idle("SetCoalescing") /\ ~started_processing
  /\ coalescing' = b
  /\ UNCHANGED <<status, callVars, headVars, boxVars, jpegVars, sessionVars,
                 frame_data, frameState, frames_to_skip, outputVars, previewVars>>

Fits(slice) ==
  slice.first + slice.units + (IF slice.partial THEN 1 ELSE 0) <= FileUnits(file)

\* JxlDecoderSetInput
SetInput(slice) ==
  /\ Idle("SetInput") /\ Fits(slice)
  /\ input_data = NoInput \/ input_released
  /\ ~input_closed
  /\ input_data' = slice
  /\ input_released' = FALSE
  /\ UNCHANGED <<status, file, started_processing, subscribed_events,
                 input_closed, supplied, headVars, boxVars, jpegVars, frameVars>>

\* JxlDecoderReleaseInput. It returns 0: nothing is reported as unprocessed.
ReleaseInput ==
  /\ Idle("ReleaseInput")
  /\ input_data' = NoInput
  /\ input_released' = TRUE
  /\ frame_lent' = (frame_lent /\ (file.container \/ ~basic_info_available))
  /\ UNCHANGED <<status, file, started_processing, subscribed_events,
                 input_closed, supplied, basic_info_available, basic_info_emitted,
                 color_encoding_emitted, boxVars, jpegVars, frameVars>>

\* JxlDecoderCloseInput
CloseInput ==
  /\ Idle("CloseInput")
  /\ input_closed' = TRUE
  /\ UNCHANGED <<status, file, started_processing, subscribed_events, input_data,
                 input_released, supplied, headVars, boxVars, jpegVars, frameVars>>

BoxCall ==
  \/ \E size \in BufferSizes : Idle("SetBoxBuffer") /\ SetBoxBuffer(size)
  \/ Idle("ReleaseBoxBuffer") /\ ReleaseBoxBuffer
  \/ /\ Idle("SetDecompressBoxes")
     /\ CarefulClient => ~started_processing \/ status = "BOX"
     /\ \E b \in BOOLEAN : SetDecompressBoxes(b)

JpegCall ==
  \/ \E size \in BufferSizes : Idle("SetJPEGBuffer") /\ SetJPEGBuffer(size)
  \/ Idle("ReleaseJPEGBuffer") /\ ReleaseJPEGBuffer

\* JxlDecoderSetPreviewOutBuffer, with the guards of
\* JxlDecoderPreviewOutBufferSize.
SetPreviewOutBuffer ==
  /\ Idle("SetPreviewOutBuffer")
  /\ "PREVIEW_IMAGE" \in subscribed_events
  /\ basic_info_available /\ file.preview # "none"
  /\ preview_buffer' = TRUE
  /\ UNCHANGED <<status, callVars, headVars, boxVars, jpegVars, sessionVars,
                 coalescing, frame_data, frameState, frames_to_skip, outputVars,
                 preview_emitted, decoded_preview>>

\* JxlDecoderSetImageOutBuffer, with the guards of JxlDecoderImageOutBufferSize.
SetImageOutBuffer ==
  /\ Idle("SetImageOutBuffer")
  /\ basic_info_available /\ (coalescing \/ frame_parsed)
  /\ output_buffer' = TRUE
  /\ meant_for' = IF frame_parsed /\ frame_displayed THEN CurrentFrame ELSE 0
  /\ UNCHANGED <<status, callVars, headVars, boxVars, jpegVars, sessionVars,
                 coalescing, frame_data, frameState, frames_to_skip, previewVars>>

\* JxlDecoderSkipFrames
SkipFrames(amount) ==
  /\ Idle("SkipFrames") /\ frames_to_skip + amount <= MaxSkip
  /\ frames_to_skip' = frames_to_skip + amount
  /\ UNCHANGED <<status, callVars, headVars, boxVars, jpegVars, sessionVars,
                 coalescing, frame_data, frameState, outputVars, previewVars>>

\* JxlDecoderSkipCurrentFrame
SkipCurrentFrame ==
  /\ Idle("SkipCurrentFrame")
  /\ frame_parsed /\ ~full_image_emitted /\ ~decode_complete
  /\ DecodeCurrentFrame
  /\ Settle(IF frame_displayed THEN "skipped" ELSE "hidden")
  /\ AdvanceCurrentFrame
  /\ UNCHANGED <<status, callVars, headVars, boxVars, jpegVars, frames_to_skip>>

\* JxlDecoderRewind: the parsed headers, the boxes, frame_data, the
\* reconstructed JPEG and frames_to_skip survive.
Rewind ==
  /\ Idle("Rewind")
  /\ status' = "IDLE"
  /\ input_data' = NoInput
  /\ input_closed' = FALSE
  /\ input_released' = FALSE
  /\ started_processing' = FALSE
  /\ basic_info_emitted' = FALSE
  /\ color_encoding_emitted' = FALSE
  /\ JpegRewind
  /\ ResetFrameIteration
  /\ ResetBoxIteration
  /\ UNCHANGED <<file, subscribed_events, supplied, basic_info_available,
                 frame_lent, decompress_boxes>>

\* JxlDecoderReset
Reset ==
  /\ Idle("Reset")
  /\ status' = "IDLE"
  /\ input_data' = NoInput
  /\ input_closed' = FALSE
  /\ input_released' = FALSE
  /\ supplied' = 0
  /\ started_processing' = FALSE
  /\ subscribed_events' = {}
  /\ basic_info_available' = FALSE
  /\ frame_lent' = TRUE
  /\ basic_info_emitted' = FALSE
  /\ color_encoding_emitted' = FALSE
  /\ ClearJpeg
  /\ ClearFrames
  /\ ResetBoxIteration
  /\ decompress_boxes' = FALSE
  /\ UNCHANGED file

SuppliedWith(slice) ==
  LET end == slice.first + slice.units
  IN  IF slice.first <= supplied /\ supplied < end THEN end ELSE supplied

\* JxlDecoderProcessInput up to its loop.
ProcessInput ==
  /\ Idle("ProcessInput")
  /\ CarefulClient => box_buffer = NoBuffer \/ box_buffer_written = 0
                      \/ box_complete_emitted
  /\ started_processing' = TRUE
  /\ status' = IF input_data = NoInput THEN "NEED_MORE_INPUT" ELSE "RUNNING"
  /\ supplied' = IF input_data = NoInput THEN supplied ELSE SuppliedWith(input_data)
  /\ UNCHANGED <<file, subscribed_events, input_data, input_closed,
                 input_released, headVars, boxVars, jpegVars, frameVars>>

Call ==
  \/ \E events \in EventSets : SubscribeEvents(events)
  \/ \E b \in BOOLEAN : SetCoalescing(b)
  \/ \E slice \in Inputs : SetInput(slice)
  \/ ReleaseInput
  \/ CloseInput
  \/ BoxCall /\ UNCHANGED <<status, callVars, headVars, jpegVars, frameVars>>
  \/ JpegCall /\ UNCHANGED <<status, callVars, headVars, boxVars, frameVars>>
  \/ SetPreviewOutBuffer
  \/ SetImageOutBuffer
  \/ \E amount \in SkipAmounts : SkipFrames(amount)
  \/ SkipCurrentFrame
  \/ Rewind
  \/ Reset
  \/ ProcessInput

-----------------------------------------------------------------------------
(* The loop of JxlDecoderProcessInput.                                     *)

Running == status = "RUNNING"

Return(s) == status' = s
Continue == UNCHANGED status

\* statusFromError: running out of bytes asks for more until input is closed.
StatusFromError(err) ==
  IF err = "NotEnoughBytes" /\ ~input_closed THEN "NEED_MORE_INPUT" ELSE "ERROR"

ReturnOneOf(errors) == \E err \in errors : Return(StatusFromError(err))

\* Reading frame_data or allocating may fail whatever the file holds.
Unreliable == AllocMayFail \/ ~frame_lent

Wants(event) == event \in subscribed_events

\* ensureParsed: what can go wrong with the slice that is set. A slice that
\* does not start the file has no signature; half a container is malformed
\* unless it ends within the signature box.
ParseHeaderErrors ==
  LET d == input_data
  IN  IF d.units = 0 /\ ~d.partial THEN {"NotEnoughBytes"}
      ELSE IF d.first # 0 THEN {"GenericError"}
      ELSE IF d.units = 0
        THEN IF file.container THEN Truncated ELSE {"NotEnoughBytes"}
      ELSE IF file.fault = "header" THEN {"GenericError"} ELSE {}

\* Mutation of FrameData: the image header is not cut off.
FrameDataWithHeader ==
  IF file.container
    THEN [units |-> FrameUnits(file), partial |-> FALSE]
    ELSE [units |-> input_data.units, partial |-> input_data.partial]

FrameData ==
  IF file.container
    THEN [units |-> FrameUnits(file), partial |-> FALSE]
    ELSE [units |-> input_data.units - 1, partial |-> input_data.partial]

ParseHeaders ==
  /\ Running /\ ~basic_info_available
  /\ ParseHeaderErrors = {}
  /\ basic_info_available' = TRUE
  /\ frame_data' = FrameData
  /\ frame_lent' = TRUE
  /\ Continue
  /\ UNCHANGED <<callVars, basic_info_emitted, color_encoding_emitted, boxVars,
                 jpegVars, sessionVars, coalescing, frameState, frames_to_skip,
                 outputVars, previewVars>>

ParseHeadersFails ==
  /\ Running /\ ~basic_info_available
  /\ \/ ReturnOneOf(ParseHeaderErrors)
     \/ AllocMayFail /\ Return("ERROR")
  /\ UNCHANGED <<callVars, headVars, boxVars, jpegVars, frameVars>>

-----------------------------------------------------------------------------
Boxes == IF basic_info_available THEN file.boxes ELSE <<>>
CurrentBox == Boxes[box_index]

BoxesLeft == Wants("BOX") /\ box_index <= Len(Boxes)

AtBox == Running /\ basic_info_available /\ BoxesLeft

\* ensureCurrentBoxPrepared: payloads were validated when the container was
\* parsed, so only an allocation can fail.
PrepareBoxFails ==
  /\ AtBox
  /\ AllocMayFail /\ decompress_boxes /\ CurrentBox.brob
  /\ Return("ERROR")
  /\ UNCHANGED boxVars

BoxStep ==
  /\ AtBox
  /\ \/ EmitBoxHeader /\ Return("BOX")
     \/ PassOverBox /\ Continue
     \/ FillBoxBuffer(CurrentBox) /\ Return("BOX_NEED_MORE_OUTPUT")
     \/ Wants("BOX_COMPLETE") /\ CompleteBox(CurrentBox) /\ Return("BOX_COMPLETE")
     \/ LeaveBox(CurrentBox, Wants("BOX_COMPLETE")) /\ Continue

WalkBoxes ==
  /\ BoxStep \/ PrepareBoxFails
  /\ UNCHANGED <<callVars, headVars, jpegVars, frameVars>>

-----------------------------------------------------------------------------
AtHeaders == Running /\ basic_info_available /\ ~BoxesLeft

BasicInfoDone == Wants("BASIC_INFO") => basic_info_emitted
ColorDone == Wants("COLOR_ENCODING") => color_encoding_emitted
JpegEventDone == Wants("JPEG_RECONSTRUCTION") => jpeg_event_emitted
PreviewDone ==
  file.preview # "none" /\ Wants("PREVIEW_IMAGE") => preview_emitted

EmitBasicInfo ==
  /\ AtHeaders /\ ~BasicInfoDone
  /\ basic_info_emitted' = TRUE
  /\ Return("BASIC_INFO")
  /\ UNCHANGED <<callVars, basic_info_available, frame_lent,
                 color_encoding_emitted, boxVars, jpegVars, frameVars>>

EmitColorEncoding ==
  /\ AtHeaders /\ BasicInfoDone /\ ~ColorDone
  /\ color_encoding_emitted' = TRUE
  /\ Return("COLOR_ENCODING")
  /\ UNCHANGED <<callVars, basic_info_available, frame_lent,
                 basic_info_emitted, boxVars, jpegVars, frameVars>>

\* The event is ticked off before jpegData looks for the box.
EmitJpegReconstruction ==
  /\ AtHeaders /\ BasicInfoDone /\ ColorDone /\ ~JpegEventDone
  /\ jpeg_event_emitted' = TRUE
  /\ \/ file.jbrds = 0 /\ Continue
     \/ file.jbrds = 1 /\ Return("JPEG_RECONSTRUCTION")
     \/ file.jbrds > 1 /\ Return("ERROR")
  /\ UNCHANGED <<callVars, headVars, boxVars, frameVars, jpeg_requested,
                 jpeg_bytes, jpeg_offset, jpeg_buffer, jpeg_buffer_written,
                 jpeg_collected>>

AtPreview ==
  AtHeaders /\ BasicInfoDone /\ ColorDone /\ JpegEventDone /\ ~PreviewDone

OutputPreview ==
  /\ preview_buffer
  /\ \/ /\ PreviewErrors = {}
        /\ decoded_preview' = TRUE
        /\ preview_buffer' = FALSE
        /\ preview_emitted' = TRUE
        /\ Return("PREVIEW_IMAGE")
     \/ /\ ReturnOneOf(PreviewErrors)
        /\ UNCHANGED previewVars
     \/ /\ PreviewErrors = {}
        /\ Unreliable
        /\ Return("ERROR")
        /\ decoded_preview' \in {decoded_preview, TRUE}
        /\ UNCHANGED <<preview_buffer, preview_emitted>>

EmitPreview ==
  /\ AtPreview
  /\ \/ ~preview_buffer /\ Return("NEED_PREVIEW_OUT_BUFFER") /\ UNCHANGED previewVars
     \/ OutputPreview
  /\ UNCHANGED <<callVars, headVars, boxVars, jpegVars, sessionVars, coalescing,
                 frame_data, frameState, frames_to_skip, outputVars>>

-----------------------------------------------------------------------------
\* Mutation of AtFrames: frames do not wait for the preview.
AtFramesEarly == AtHeaders /\ BasicInfoDone /\ ColorDone /\ JpegEventDone

AtFrames ==
  /\ AtHeaders
  /\ BasicInfoDone /\ ColorDone /\ JpegEventDone /\ PreviewDone

\* ensureCurrentFrameParsed
ParseStep ==
  /\ AtFrames
  /\ \/ ParseFrame /\ Continue
     \/ ParseFrameFails /\ ReturnOneOf(ParseErrors)
     \/ ParseFrameFails /\ Unreliable /\ Return("ERROR")
  /\ UNCHANGED <<callVars, headVars, boxVars, jpegVars>>

Finish ==
  /\ AtFrames /\ decode_complete
  /\ Return("SUCCESS")
  /\ UNCHANGED <<callVars, headVars, boxVars, jpegVars, frameVars>>

\* Frames that pass through the session without reaching the caller.
SilentFrame ==
  /\ AtFrames
  /\ RenderHiddenFrame \/ SkipDisplayedFrame
  /\ Continue
  /\ UNCHANGED <<callVars, headVars, boxVars, jpegVars>>

AtDisplayed == AtFrames /\ frame_parsed /\ frame_displayed /\ frames_to_skip = 0

EmitFrameEvent ==
  /\ AtDisplayed /\ Wants("FRAME")
  /\ EmitFrame
  /\ Return("FRAME")
  /\ UNCHANGED <<callVars, headVars, boxVars, jpegVars>>

AtOutput == AtDisplayed /\ (Wants("FRAME") => frame_emitted)
AtJpeg == AtOutput /\ jpeg_requested /\ file.jbrds > 0
AtPixels == AtOutput /\ ~(jpeg_requested /\ file.jbrds > 0)

\* The branch of the loop that hands out the reconstructed JPEG.
ReconstructJpeg ==
  /\ AtJpeg /\ file.jbrds = 1
  /\ jpeg_bytes \/ FrameDecodes(CurrentFrame)
  /\ OutputJPEG(file.jpeg_size)
  /\ \/ /\ jpeg_offset' # file.jpeg_size
        /\ Return("JPEG_NEED_MORE_OUTPUT")
        /\ UNCHANGED frameVars
     \/ /\ jpeg_offset' = file.jpeg_size
        /\ Wants("FULL_IMAGE") /\ ShowJpegFrame
        /\ Return("FULL_IMAGE")
     \/ /\ jpeg_offset' = file.jpeg_size
        /\ Wants("FULL_IMAGE") => full_image_emitted
        /\ LeaveJpegFrame
        /\ Continue
  /\ UNCHANGED <<callVars, headVars, boxVars>>

ReconstructJpegFails ==
  /\ AtJpeg
  /\ \/ file.jbrds > 1
     \/ ~jpeg_bytes /\ (~FrameDecodes(CurrentFrame) \/ Unreliable)
  /\ Return("ERROR")
  /\ UNCHANGED <<callVars, headVars, boxVars, jpegVars, frameVars>>

\* No pixel buffer: the frame is passed over or the client must set one.
WithoutBuffer ==
  /\ AtPixels /\ ~output_buffer
  /\ \/ ~Wants("FULL_IMAGE") /\ PassFrame /\ Continue
     \/ /\ Wants("FULL_IMAGE")
        /\ Return("NEED_IMAGE_OUT_BUFFER")
        /\ UNCHANGED frameVars
  /\ UNCHANGED <<callVars, headVars, boxVars, jpegVars>>

OutputPixels ==
  /\ AtPixels
  /\ \/ Wants("FULL_IMAGE") /\ ShowFrame /\ Return("FULL_IMAGE")
     \/ (Wants("FULL_IMAGE") => full_image_emitted) /\ LeaveShownFrame /\ Continue
  /\ UNCHANGED <<callVars, headVars, boxVars, jpegVars>>

OutputPixelsFails ==
  /\ AtPixels
  /\ AllocMayFail /\ WriteFails
  /\ Return("ERROR")
  /\ UNCHANGED <<callVars, headVars, boxVars, jpegVars>>

\* decodeCurrentFrame is about to run for the current frame.
AtDecode ==
  /\ AtFrames /\ frame_parsed /\ ~decoded_frame
  /\ ~frame_displayed \/ frames_to_skip # 0 \/ (AtPixels /\ output_buffer)

DecodeFails ==
  /\ AtDecode
  /\ ~SessionAccepts(CurrentFrame, coalescing) \/ Unreliable
  /\ Return("ERROR")
  /\ UNCHANGED <<callVars, headVars, boxVars, jpegVars, frameVars>>

LoopStep ==
  \/ ParseHeaders \/ ParseHeadersFails
  \/ WalkBoxes
  \/ EmitBasicInfo \/ EmitColorEncoding \/ EmitJpegReconstruction \/ EmitPreview
  \/ ParseStep \/ Finish \/ SilentFrame \/ EmitFrameEvent
  \/ ReconstructJpeg \/ ReconstructJpegFails
  \/ WithoutBuffer \/ OutputPixels \/ OutputPixelsFails \/ DecodeFails

Next == Call \/ LoopStep

Spec == Init /\ [][Next]_vars

\* A call returns: nothing but the loop itself runs until it does.
FairSpec == Spec /\ WF_vars(LoopStep)
==============================================================================
