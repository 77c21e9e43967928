-------------------------- MODULE DecoderInvariants --------------------------
(***************************************************************************)
(* What holds between the calls and inside the loop of JxlDecoder, in the  *)
(* parts the proofs of DecoderProofs need: none of the safety properties   *)
(* of DecoderProperties is inductive by itself.                            *)
(***************************************************************************)
EXTENDS DecoderProperties

\* The loop runs on input that was set, and only once processing started.
InputInv ==
  /\ input_data # NoInput => Fits(input_data)
  /\ Running => input_data # NoInput /\ started_processing

\* frame_data is a prefix of the codestream the caller supplied.
SupplyInv ==
  /\ Running /\ input_data.first = 0 => input_data.units <= supplied
  /\ basic_info_available =>
       (IF file.container THEN 1 ELSE frame_data.units + 1) <= supplied

\* The frame cursor stays within frame_data; what the decoder remembers of a
\* frame, it remembers of the parsed one.
CursorInv ==
  /\ frame_data.units <= FrameUnits(file)
  /\ frame_offset <= frame_data.units
  /\ decoded_preview => frame_data.units > 0
  /\ frame_parsed =>
       /\ basic_info_available /\ started_processing /\ ~decode_complete
       /\ PreviewUnits(file) <= frame_offset /\ frame_offset < frame_data.units
  /\ frame_emitted \/ frame_decoded \/ decoded_frame \/ full_image_emitted => frame_parsed
  /\ ~basic_info_available => frame_offset = 0 /\ ~decode_complete /\ ~decoded_preview
  /\ ~started_processing => frame_offset = 0

\* The end is behind a frame marked as the last one.
EndInv ==
  decode_complete =>
    PreviewUnits(file) < frame_offset /\ Header(CurrentFrame - 1).is_last

\* Only the current frame may be settled without having been left.
FateInv ==
  \A i \in 1 .. FrameCount :
    /\ i > CurrentFrame => fate[i] = "pending"
    /\ i = CurrentFrame =>
         /\ fate[i] \in {"pending", "shown", "jpeg"}
         /\ fate[i] = "pending" <=> ~full_image_emitted
         /\ fate[i] = "shown" => decoded_frame
    /\ fate[i] # "pending" => started_processing

\* Pixels are only written from a decoded frame.
DecodedInv == frame_decoded => decoded_frame

\* A pixel buffer set for a displayed frame waits for that frame.
BufferInv ==
  meant_for # 0 => meant_for = CurrentFrame /\ frame_parsed /\ frame_displayed

\* An announced box is one of the file's; before decoding starts, and when it
\* is announced, nothing of a box has been handed out; and no more of it is
\* ever handed out than it holds.
BoxInv ==
  /\ box_header_emitted => basic_info_available
  /\ box_complete_emitted \/ box_bytes_emitted # 0 => box_header_emitted
  /\ ~started_processing \/ status = "BOX" => ~box_complete_emitted
  /\ CarefulClient /\ (~started_processing \/ status = "BOX") => box_bytes_emitted = 0
  /\ box_buffer = NoBuffer => box_buffer_written = 0
  /\ CarefulClient /\ Running =>
       box_buffer = NoBuffer \/ box_buffer_written = 0 \/ box_complete_emitted
  /\ CarefulClient /\ box_index <= Len(Boxes) =>
       /\ box_bytes_emitted <= ContentsLen(CurrentBox)
       /\ box_complete_emitted => box_bytes_emitted = ContentsLen(CurrentBox)

JpegInv ==
  /\ jpeg_buffer = NoBuffer => jpeg_buffer_written = 0
  /\ ~started_processing => jpeg_offset = 0
  /\ jpeg_requested \/ jpeg_offset = 0

\* The full image that was reported last is still there.
ReportInv ==
  status = "FULL_IMAGE" => full_image_emitted

Inductive ==
  /\ TypeOK /\ InputInv /\ SupplyInv /\ CursorInv /\ EndInv /\ FateInv
  /\ DecodedInv /\ BufferInv /\ BoxInv /\ JpegInv /\ ReportInv
==============================================================================
