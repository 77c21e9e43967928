----------------------------- MODULE BoxIterator -----------------------------
(***************************************************************************)
(* The box half of JxlDecoder: DecoderImpl.box_* and the part of the       *)
(* JxlDecoderProcessInput loop that walks owned_boxes. A box's contents    *)
(* are the positions 1..n; what has been handed over is a count.           *)
(***************************************************************************)
EXTENDS OutputBuffer, Sequences

VARIABLES
  box_index,           \* 1-based index of the current box
  box_header_emitted,
  box_bytes_emitted,
  box_complete_emitted,
  decompress_boxes,
  box_buffer,          \* size of the caller's buffer, or NoBuffer
  box_buffer_written,
  box_collected        \* history: bytes of the current box the caller took
                       \* out of the buffers it released

boxCursor == <<box_index, box_header_emitted, box_bytes_emitted, box_complete_emitted>>
boxBuffer == <<box_buffer, box_buffer_written>>
boxVars == <<boxCursor, decompress_boxes, boxBuffer, box_collected>>

BoxInit ==
  /\ box_index = 1
  /\ box_header_emitted = FALSE
  /\ box_bytes_emitted = 0
  /\ box_complete_emitted = FALSE
  /\ decompress_boxes = FALSE
  /\ box_buffer = NoBuffer
  /\ box_buffer_written = 0
  /\ box_collected = 0

-----------------------------------------------------------------------------
\* OwnedBox.effectiveContents: a "brob" box is expanded only on request.
ContentsLen(box) == IF decompress_boxes /\ box.brob THEN box.plain ELSE box.raw

\* Pointing the iterator at box i: it has no buffer and nothing is emitted.
PointAt(i) ==
  /\ box_index' = i
  /\ box_header_emitted' = FALSE
  /\ box_bytes_emitted' = 0
  /\ box_complete_emitted' = FALSE
  /\ box_buffer' = NoBuffer
  /\ box_buffer_written' = 0
  /\ box_collected' = 0

\* advanceCurrentBox
AdvanceCurrentBox == PointAt(box_index + 1)

\* resetBoxIteration
ResetBoxIteration == PointAt(1)

\* JxlDecoderSetBoxBuffer: refused while a buffer is still attached.
SetBoxBuffer(size) ==
  /\ box_buffer = NoBuffer
  /\ box_buffer' = size
  /\ box_buffer_written' = 0
  /\ UNCHANGED <<boxCursor, decompress_boxes, box_collected>>

\* JxlDecoderReleaseBoxBuffer returns box_buffer - box_buffer_written, from
\* which the caller learns how many bytes it got.
ReleaseBoxBuffer ==
  /\ box_buffer # NoBuffer
  /\ box_buffer' = NoBuffer
  /\ box_buffer_written' = 0
  /\ box_collected' = box_collected + box_buffer_written
  /\ UNCHANGED <<boxCursor, decompress_boxes>>

\* JxlDecoderSetDecompressBoxes
SetDecompressBoxes(b) ==
  /\ decompress_boxes' = b
  /\ UNCHANGED <<boxCursor, boxBuffer, box_collected>>

-----------------------------------------------------------------------------
(***************************************************************************)
(* One pass of the loop over the current box, after its header event. The  *)
(* copy always starts at the beginning of the buffer.                      *)
(***************************************************************************)
Copied(box) ==
  LET remaining == ContentsLen(box) - box_bytes_emitted
  IN  IF remaining <= 0 THEN 0
      ELSE IF remaining < box_buffer THEN remaining ELSE box_buffer

\* Mutation of CopyBox: the position is set instead of advanced.
CopyBoxAfresh(box) ==
  IF box_bytes_emitted < ContentsLen(box)
    THEN /\ box_bytes_emitted' = Copied(box)
         /\ box_buffer_written' = Copied(box)
    ELSE UNCHANGED <<box_bytes_emitted, box_buffer_written>>

CopyBox(box) ==
  IF box_bytes_emitted < ContentsLen(box)
    THEN /\ box_bytes_emitted' = box_bytes_emitted + Copied(box)
         /\ box_buffer_written' = Copied(box)
    ELSE UNCHANGED <<box_bytes_emitted, box_buffer_written>>

\* Mutation of Drained: a byte short.
DrainedEarly(box) == box_bytes_emitted + Copied(box) + 1 >= ContentsLen(box)

\* The copy would leave nothing of the box to emit.
Drained(box) == box_bytes_emitted + Copied(box) >= ContentsLen(box)

\* JXL_DEC_BOX
EmitBoxHeader ==
  /\ ~box_header_emitted
  /\ box_header_emitted' = TRUE
  /\ UNCHANGED <<box_index, box_bytes_emitted, box_complete_emitted,
                 decompress_boxes, boxBuffer, box_collected>>

\* Mutation of PassOverBox: the loop goes on with the same box.
PassOverNothing ==
  /\ box_header_emitted
  /\ box_buffer = NoBuffer
  /\ UNCHANGED boxVars

\* The caller set no buffer: the rest of the box is passed over.
PassOverBox ==
  /\ box_header_emitted
  /\ box_buffer = NoBuffer
  /\ AdvanceCurrentBox
  /\ UNCHANGED decompress_boxes

\* JXL_DEC_BOX_NEED_MORE_OUTPUT
FillBoxBuffer(box) ==
  /\ box_header_emitted
  /\ box_buffer # NoBuffer
  /\ ~Drained(box)
  /\ CopyBox(box)
  /\ UNCHANGED <<box_index, box_header_emitted, box_complete_emitted,
                 decompress_boxes, box_buffer, box_collected>>

\* JXL_DEC_BOX_COMPLETE
CompleteBox(box) ==
  /\ box_header_emitted
  /\ box_buffer # NoBuffer
  /\ Drained(box)
  /\ ~box_complete_emitted
  /\ CopyBox(box)
  /\ box_complete_emitted' = TRUE
  /\ UNCHANGED <<box_index, box_header_emitted, decompress_boxes, box_buffer,
                 box_collected>>

\* The box is finished and nothing is left to report about it.
LeaveBox(box, wants_complete) ==
  /\ box_header_emitted
  /\ box_buffer # NoBuffer
  /\ Drained(box)
  /\ wants_complete => box_complete_emitted
  /\ AdvanceCurrentBox
  /\ UNCHANGED decompress_boxes
==============================================================================
