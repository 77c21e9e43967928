---------------------------- MODULE FrameIterator ----------------------------
(***************************************************************************)
(* The frame half of JxlDecoder: DecoderImpl.frame_*, preview_*, output_*  *)
(* and the functions that parse, decode and leave the current frame.       *)
(* Offsets into frame_data count units: the preview, if any, then frames.  *)
(***************************************************************************)
EXTENDS DecodeSession

VARIABLES
  coalescing,
  frame_data,          \* [units, partial]: what frame_data holds of the codestream
  frame_offset,
  frame_parsed,
  frame_displayed,
  frame_emitted,       \* JXL_DEC_FRAME was returned for the current frame
  frame_decoded,       \* its pixels are in the caller's buffer
  decoded_frame,       \* its FrameDecoder is cached
  full_image_emitted,  \* JXL_DEC_FULL_IMAGE was returned for it
  decode_complete,
  frames_to_skip,
  output_buffer,       \* the caller attached a pixel buffer
  preview_emitted,
  preview_buffer,      \* the caller attached a preview buffer
  decoded_preview,     \* the decoded preview is cached
  fate,                \* history: what became of each frame since the last rewind
  meant_for            \* history: the displayed frame that was current when the
                       \* attached output_buffer was set, 0 if none was

previewVars == <<preview_emitted, preview_buffer, decoded_preview>>
frameState == <<frame_offset, frame_parsed, frame_displayed, frame_emitted,
                frame_decoded, decoded_frame, full_image_emitted,
                decode_complete, fate>>
outputVars == <<output_buffer, meant_for>>
frameVars == <<sessionVars, coalescing, frame_data, frameState, frames_to_skip,
               outputVars, previewVars>>

Fates == {"pending", "hidden", "shown", "jpeg", "skipped", "passed"}

AllPending == [i \in 1 .. Len(file.frames) |-> "pending"]

\* The frame frame_offset points at, or the first one while it is still 0.
CurrentFrame ==
  (IF frame_offset < PreviewUnits(file) THEN 0 ELSE frame_offset - PreviewUnits(file)) + 1

FrameInit ==
  /\ SessionInit
  /\ coalescing = TRUE
  /\ frame_data = [units |-> 0, partial |-> FALSE]
  /\ frame_offset = 0
  /\ frame_parsed = FALSE
  /\ frame_displayed = TRUE
  /\ frame_emitted = FALSE
  /\ frame_decoded = FALSE
  /\ decoded_frame = FALSE
  /\ full_image_emitted = FALSE
  /\ decode_complete = FALSE
  /\ frames_to_skip = 0
  /\ output_buffer = FALSE
  /\ preview_emitted = FALSE
  /\ preview_buffer = FALSE
  /\ decoded_preview = FALSE
  /\ fate = AllPending
  /\ meant_for = 0

\* No frame is parsed.
ForgetFrame ==
  /\ frame_parsed' = FALSE
  /\ frame_emitted' = FALSE
  /\ frame_decoded' = FALSE
  /\ decoded_frame' = FALSE
  /\ full_image_emitted' = FALSE

\* Mutation of RestartFrames: the end of the previous pass is not forgotten.
RestartKeepsComplete ==
  /\ SessionDeinit
  /\ frame_offset' = 0
  /\ ForgetFrame
  /\ output_buffer' = FALSE
  /\ preview_emitted' = FALSE
  /\ preview_buffer' = FALSE
  /\ decoded_preview' = FALSE
  /\ fate' = AllPending
  /\ meant_for' = 0
  /\ UNCHANGED decode_complete

\* What a rewind and a reset both set back.
RestartFrames ==
  /\ SessionDeinit
  /\ frame_offset' = 0
  /\ ForgetFrame
  /\ decode_complete' = FALSE
  /\ output_buffer' = FALSE
  /\ preview_emitted' = FALSE
  /\ preview_buffer' = FALSE
  /\ decoded_preview' = FALSE
  /\ fate' = AllPending
  /\ meant_for' = 0

\* resetFrameIteration, without its box part. frame_displayed, frame_data,
\* coalescing and frames_to_skip are left alone.
ResetFrameIteration ==
  /\ RestartFrames
  /\ UNCHANGED <<frame_displayed, frame_data, coalescing, frames_to_skip>>

\* The frame part of JxlDecoderReset.
ClearFrames ==
  /\ RestartFrames
  /\ frame_displayed' = TRUE
  /\ frame_data' = [units |-> 0, partial |-> FALSE]
  /\ coalescing' = TRUE
  /\ frames_to_skip' = 0

-----------------------------------------------------------------------------
(***************************************************************************)
(* ensureCurrentFrameParsed. Before the first frame it decodes the preview *)
(* unless a JXL_DEC_PREVIEW_IMAGE left it in the cache.                    *)
(***************************************************************************)
PreviewPending == frame_offset < PreviewUnits(file)

Truncated == {"NotEnoughBytes", "GenericError"}

PreviewErrors ==
  IF decoded_preview THEN {}
  ELSE IF frame_data.units = 0 THEN Truncated
  ELSE IF file.preview = "corrupt" THEN {"GenericError"} ELSE {}

PastPreview == IF PreviewPending THEN PreviewUnits(file) ELSE frame_offset

HeaderErrors ==
  IF PastPreview >= frame_data.units
    THEN IF frame_data.partial THEN Truncated ELSE {"NotEnoughBytes"}
    ELSE IF Header(CurrentFrame).fault = "header" THEN {"GenericError"} ELSE {}

ParseErrors ==
  IF PreviewPending /\ PreviewErrors # {} THEN PreviewErrors ELSE HeaderErrors

ParseFrame ==
  /\ ~decode_complete /\ ~frame_parsed
  /\ ParseErrors = {}
  /\ frame_offset' = PastPreview
  /\ decoded_preview' = (decoded_preview /\ ~PreviewPending)
  /\ frame_displayed' = Displayed(Header(CurrentFrame), coalescing)
  /\ frame_parsed' = TRUE
  /\ UNCHANGED <<sessionVars, coalescing, frame_data, frame_emitted,
                 frame_decoded, decoded_frame, full_image_emitted,
                 decode_complete, fate, frames_to_skip, outputVars,
                 preview_emitted, preview_buffer>>

\* The preview stays consumed when the frame behind it cannot be parsed.
ParseFrameFails ==
  /\ ~decode_complete /\ ~frame_parsed
  /\ LET consumed == PreviewPending /\ PreviewErrors = {}
     IN  /\ frame_offset' = IF consumed THEN PastPreview ELSE frame_offset
         /\ decoded_preview' = (decoded_preview /\ ~consumed)
  /\ UNCHANGED <<sessionVars, coalescing, frame_data, frame_parsed,
                 frame_displayed, frame_emitted, frame_decoded, decoded_frame,
                 full_image_emitted, decode_complete, fate, frames_to_skip,
                 outputVars, preview_emitted, preview_buffer>>

-----------------------------------------------------------------------------
\* Mutation of DecodeCurrentFrame: the cached frame is decoded again.
DecodeAgain == SessionDecode(CurrentFrame, coalescing)

\* decodeCurrentFrame: a cached frame does not go through the session again.
DecodeCurrentFrame ==
  IF decoded_frame THEN UNCHANGED sessionVars
                   ELSE SessionDecode(CurrentFrame, coalescing)

CurrentFrameDecodes == decoded_frame \/ SessionAccepts(CurrentFrame, coalescing)

\* The first outcome of a frame stands until the next rewind.
Settle(outcome) ==
  fate' = [fate EXCEPT ![CurrentFrame] = IF @ = "pending" THEN outcome ELSE @]

\* Mutation of AdvanceCurrentFrame: the caller's buffer stays attached.
AdvanceKeepsBuffer ==
  /\ frame_offset' = frame_offset + 1
  /\ ForgetFrame
  /\ decode_complete' = Header(CurrentFrame).is_last
  /\ UNCHANGED <<outputVars, frame_displayed, coalescing, frame_data, previewVars>>

\* advanceCurrentFrame
AdvanceCurrentFrame ==
  /\ frame_offset' = frame_offset + 1
  /\ ForgetFrame
  /\ decode_complete' = Header(CurrentFrame).is_last
  /\ IF frame_displayed THEN output_buffer' = FALSE /\ meant_for' = 0
                        ELSE UNCHANGED outputVars
  /\ UNCHANGED <<frame_displayed, coalescing, frame_data, previewVars>>

\* A frame that is not displayed: decoded for the references it leaves.
RenderHiddenFrame ==
  /\ frame_parsed /\ ~frame_displayed
  /\ DecodeCurrentFrame
  /\ Settle("hidden")
  /\ AdvanceCurrentFrame
  /\ UNCHANGED frames_to_skip

\* Mutations of SkipDisplayedFrame: a skip nobody asked for, and one that
\* saves itself the decoding.
SkipUnasked ==
  /\ frame_parsed /\ frame_displayed
  /\ frames_to_skip' = frames_to_skip - 1
  /\ DecodeCurrentFrame
  /\ Settle("skipped")
  /\ AdvanceCurrentFrame

SkipUndecoded ==
  /\ frame_parsed /\ frame_displayed
  /\ frames_to_skip # 0
  /\ frames_to_skip' = frames_to_skip - 1
  /\ Settle("skipped")
  /\ AdvanceCurrentFrame
  /\ UNCHANGED sessionVars

\* A displayed frame that JxlDecoderSkipFrames asked to leave out.
SkipDisplayedFrame ==
  /\ frame_parsed /\ frame_displayed
  /\ frames_to_skip # 0
  /\ frames_to_skip' = frames_to_skip - 1
  /\ DecodeCurrentFrame
  /\ Settle("skipped")
  /\ AdvanceCurrentFrame

\* JXL_DEC_FRAME
EmitFrame ==
  /\ ~frame_emitted
  /\ frame_emitted' = TRUE
  /\ UNCHANGED <<sessionVars, coalescing, frame_data, frame_offset,
                 frame_parsed, frame_displayed, frame_decoded, decoded_frame,
                 full_image_emitted, decode_complete, fate, frames_to_skip,
                 outputVars, previewVars>>

\* ensureDecoded, then JXL_DEC_FULL_IMAGE.
ShowFrame ==
  /\ output_buffer
  /\ ~full_image_emitted
  /\ full_image_emitted' = TRUE
  /\ IF frame_decoded THEN UNCHANGED <<sessionVars, decoded_frame>>
                      ELSE DecodeCurrentFrame /\ decoded_frame' = TRUE
  /\ frame_decoded' = TRUE
  /\ Settle("shown")
  /\ UNCHANGED <<coalescing, frame_data, frame_offset, frame_parsed,
                 frame_displayed, frame_emitted, decode_complete,
                 frames_to_skip, outputVars, previewVars>>

\* ensureDecoded, then on to the next frame.
LeaveShownFrame ==
  /\ output_buffer
  /\ IF frame_decoded THEN UNCHANGED sessionVars ELSE DecodeCurrentFrame
  /\ Settle("shown")
  /\ AdvanceCurrentFrame
  /\ UNCHANGED frames_to_skip

\* ensureDecoded when the frame decodes but writing its pixels out fails.
WriteFails ==
  /\ output_buffer /\ ~frame_decoded
  /\ DecodeCurrentFrame
  /\ decoded_frame' = TRUE
  /\ UNCHANGED <<coalescing, frame_data, frame_offset, frame_parsed,
                 frame_displayed, frame_emitted, frame_decoded,
                 full_image_emitted, decode_complete, fate, frames_to_skip,
                 outputVars, previewVars>>

\* The frame's JPEG bytes are all out: JXL_DEC_FULL_IMAGE, then on.
ShowJpegFrame ==
  /\ ~full_image_emitted
  /\ full_image_emitted' = TRUE
  /\ Settle("jpeg")
  /\ UNCHANGED <<sessionVars, coalescing, frame_data, frame_offset,
                 frame_parsed, frame_displayed, frame_emitted, frame_decoded,
                 decoded_frame, decode_complete, frames_to_skip, outputVars,
                 previewVars>>

LeaveJpegFrame ==
  /\ Settle("jpeg")
  /\ AdvanceCurrentFrame
  /\ UNCHANGED <<sessionVars, frames_to_skip>>

\* Nobody asked for this frame's pixels.
PassFrame ==
  /\ ~output_buffer
  /\ Settle("passed")
  /\ AdvanceCurrentFrame
  /\ UNCHANGED <<sessionVars, frames_to_skip>>
==============================================================================
