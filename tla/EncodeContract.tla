---------------------------- MODULE EncodeContract ----------------------------
(***************************************************************************)
(* A statement of lib/include/jxl/encode.h that JxlEncoder does not keep,  *)
(* refuted by a run of its own.                                            *)
(***************************************************************************)
EXTENDS EncoderProperties

\* encode.h:988-989: JxlEncoderProcessOutput writes the boxes that were added
\* to the output. When wrapPendingBoxes fails, the codestream stays in
\* encoded_bytes, and the next call hands it out as a success.
BoxesAreWritten ==
  status = "SUCCESS" => collected = WholeFile(ImageHeader, staged_boxes, submitted)
==============================================================================
