------------------------------ MODULE FrameQueue ------------------------------
(***************************************************************************)
(* The frames of an encoder: the one added last is pending and may still   *)
(* get the planes of its extra channels; the ones before it are queued.    *)
(* Every move from one to the other copies memory, which may fail. A       *)
(* failure before anything changed is the absence of a step.               *)
(***************************************************************************)
EXTENDS EncodedFile

CONSTANTS
  NoImage,      \* image_bytes is empty
  MaxFrames     \* bound on the number of frames a client adds

VARIABLES
  image,           \* the pending frame without its planes, or NoImage
  planes,          \* pending_extra_channels: the buffers
  queued_frames,
  added_frame,
  submitted        \* history: the frames and planes the client was told are in

queueVars == <<image, planes, queued_frames, added_frame, submitted>>

Unset == [c \in Channel |-> NoPlane]

QueueInit ==
  /\ image = NoImage
  /\ planes = Unset
  /\ queued_frames = <<>>
  /\ added_frame = FALSE
  /\ submitted = <<>>

\* A pending image together with its planes.
WithPlanes(img, buffers) ==
  [ picture |-> img.picture, interleaved |-> img.interleaved,
    duration |-> img.duration, planes |-> buffers ]

Pending == IF image = NoImage THEN <<>> ELSE <<WithPlanes(image, planes)>>

\* Mutation of queuePendingFrame: clearPendingFrameBuffers leaves the planes.
QueueKeepsPlanes ==
  /\ queued_frames' = queued_frames \o Pending
  /\ planes' = planes

\* queuePendingFrame. The caller says what becomes of image.
QueuePendingFrame ==
  /\ queued_frames' = queued_frames \o Pending
  /\ planes' = IF image = NoImage THEN planes ELSE Unset

\* JxlEncoderAddImageFrame behind its guards.
AddFrame(img) ==
  /\ Len(submitted) < MaxFrames
  /\ QueuePendingFrame
  /\ image' = img
  /\ added_frame' = TRUE
  /\ submitted' = Append(submitted, WithPlanes(img, Unset))

\* The frame before it is queued, then its pixels cannot be copied.
AddFrameFails ==
  /\ QueuePendingFrame
  /\ image' = NoImage
  /\ added_frame' = (added_frame \/ image # NoImage)
  /\ UNCHANGED submitted

\* JxlEncoderSetExtraChannelBuffer behind its guards
SetPlane(c, plane) ==
  /\ image # NoImage
  /\ planes' = [planes EXCEPT ![c] = plane]
  /\ submitted' = [submitted EXCEPT ![Len(submitted)].planes[c] = plane]
  /\ UNCHANGED <<image, queued_frames, added_frame>>

\* The memory of an earlier buffer is gone, buffer_set stays. The client was
\* told so by JXL_ENC_ERROR.
SetPlaneFails(c) == planes[c] # NoPlane /\ SetPlane(c, LostPlane)

\* JxlEncoderCloseFrames and JxlEncoderCloseInput: no frame follows.
QueueLastFrame ==
  /\ QueuePendingFrame
  /\ image' = NoImage
  /\ added_frame' = (added_frame \/ image # NoImage)
  /\ UNCHANGED submitted

\* freeEncoderState
ClearQueue ==
  /\ image' = NoImage
  /\ planes' = Unset
  /\ queued_frames' = <<>>
  /\ added_frame' = FALSE
  /\ submitted' = <<>>
==============================================================================
