------------------------------ MODULE JpegOutput ------------------------------
(***************************************************************************)
(* The JPEG reconstruction half of JxlDecoder: DecoderImpl.jpeg_* and the  *)
(* functions that move the reconstructed bytes to the caller. The bytes    *)
(* are the positions 1..jpeg_size of the reconstructed stream; appending   *)
(* keeps their order, so counting them is enough.                          *)
(***************************************************************************)
EXTENDS OutputBuffer

VARIABLES
  jpeg_event_emitted,
  jpeg_requested,
  jpeg_bytes,          \* the reconstruction has been computed (jpeg_bytes.len # 0)
  jpeg_offset,
  jpeg_buffer,         \* size of the caller's buffer, or NoBuffer
  jpeg_buffer_written,
  jpeg_collected       \* history: bytes in the buffers the caller released

jpegVars == <<jpeg_event_emitted, jpeg_requested, jpeg_bytes, jpeg_offset,
              jpeg_buffer, jpeg_buffer_written, jpeg_collected>>

JpegInit ==
  /\ jpeg_event_emitted = FALSE
  /\ jpeg_requested = FALSE
  /\ jpeg_bytes = FALSE
  /\ jpeg_offset = 0
  /\ jpeg_buffer = NoBuffer
  /\ jpeg_buffer_written = 0
  /\ jpeg_collected = 0

\* Mutation of RestartJpeg: the position in the JPEG bytes is kept.
RestartKeepsOffset ==
  /\ jpeg_event_emitted' = FALSE
  /\ jpeg_requested' = FALSE
  /\ jpeg_buffer' = NoBuffer
  /\ jpeg_buffer_written' = 0
  /\ jpeg_collected' = 0
  /\ UNCHANGED jpeg_offset

\* What a rewind and a reset both set back.
RestartJpeg ==
  /\ jpeg_event_emitted' = FALSE
  /\ jpeg_requested' = FALSE
  /\ jpeg_offset' = 0
  /\ jpeg_buffer' = NoBuffer
  /\ jpeg_buffer_written' = 0
  /\ jpeg_collected' = 0

\* The jpeg_* part of JxlDecoderRewind: the computed bytes are kept.
JpegRewind == RestartJpeg /\ UNCHANGED jpeg_bytes

\* The jpeg_* part of JxlDecoderReset.
ClearJpeg == RestartJpeg /\ jpeg_bytes' = FALSE

\* JxlDecoderSetJPEGBuffer; size is NoBuffer for a null pointer.
SetJPEGBuffer(size) ==
  /\ jpeg_buffer = NoBuffer
  /\ jpeg_buffer' = size
  /\ jpeg_buffer_written' = 0
  /\ jpeg_requested' = (jpeg_requested \/ size # NoBuffer)
  /\ UNCHANGED <<jpeg_event_emitted, jpeg_bytes, jpeg_offset, jpeg_collected>>

\* JxlDecoderReleaseJPEGBuffer
ReleaseJPEGBuffer ==
  /\ jpeg_buffer # NoBuffer
  /\ jpeg_buffer' = NoBuffer
  /\ jpeg_buffer_written' = 0
  /\ jpeg_collected' = jpeg_collected + jpeg_buffer_written
  /\ UNCHANGED <<jpeg_event_emitted, jpeg_requested, jpeg_bytes, jpeg_offset>>

-----------------------------------------------------------------------------
\* outputJPEG: how many bytes the attached buffer takes now.
JpegCount(total) ==
  IF jpeg_buffer = NoBuffer THEN 0
  ELSE LET room == jpeg_buffer - jpeg_buffer_written
       IN  IF total - jpeg_offset < room THEN total - jpeg_offset ELSE room

\* Mutation of OutputJPEG: jpeg_buffer_written is set instead of advanced.
OutputJPEGAfresh(total) ==
  /\ jpeg_bytes' = TRUE
  /\ jpeg_offset' = jpeg_offset + JpegCount(total)
  /\ jpeg_buffer_written' = JpegCount(total)
  /\ UNCHANGED <<jpeg_event_emitted, jpeg_requested, jpeg_buffer, jpeg_collected>>

\* outputJPEG with prepareJPEG. It fails, changing nothing, when the bytes
\* are not there yet and the frame cannot be reconstructed.
OutputJPEG(total) ==
  /\ jpeg_bytes' = TRUE
  /\ jpeg_offset' = jpeg_offset + JpegCount(total)
  /\ jpeg_buffer_written' = jpeg_buffer_written + JpegCount(total)
  /\ UNCHANGED <<jpeg_event_emitted, jpeg_requested, jpeg_buffer, jpeg_collected>>
==============================================================================
