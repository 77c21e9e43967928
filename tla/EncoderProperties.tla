-------------------------- MODULE EncoderProperties --------------------------
(* What JxlEncoder must keep.                                               *)
EXTENDS Encoder

Image == [picture : Pictures, interleaved : BOOLEAN, duration : Nat]
Box == [name : Names, brob : BOOLEAN]

\* Types of the fields of EncoderImpl.
TypeOK ==
  /\ status \in {"IDLE", "SUCCESS", "ERROR", "NEED_MORE_OUTPUT", "UNDEFINED"}
  /\ started_processing \in BOOLEAN /\ added_frame \in BOOLEAN
  /\ use_boxes \in BOOLEAN /\ boxes_closed \in BOOLEAN
  /\ frames_closed \in BOOLEAN /\ input_closed \in BOOLEAN
  /\ basic_info \in BasicInfo \cup {NoInfo}
  /\ color \in Color \cup {NoColor}
  /\ owned_icc \in Profile \cup {NoProfile}
  /\ extras \in [Channel -> ExtraInfo \cup {NoExtra}]
  /\ frame_settings \in [SettingsIds -> Nat \cup {NoHeader, Absent}]
  /\ staged_boxes \in Seq(Box)
  /\ image \in Image \cup {NoImage}
  /\ planes \in [Channel -> Planes \cup {NoPlane, LostPlane}]
  /\ queued_frames \in Seq(Frame) /\ submitted \in Seq(Frame)
  /\ output_offset \in 0 .. Len(encoded_bytes)

-----------------------------------------------------------------------------
\* Queued and pending frames are the frames the client was told are in, with
\* their headers and planes, in order, whatever copy failed between two calls
\* (queuePendingFrame, AddImageFrame, SetExtraChannelBuffer, CloseFrames).
QueueFollowsCalls == queued_frames \o Pending = submitted

\* A client told JXL_ENC_SUCCESS holds a file with every frame it submitted
\* and every box, under the settings it made, and no plane that was lost.
\* Only where wrapping the boxes may fail can they be missing (EncodeContract).
OutputHoldsSubmission ==
  status = "SUCCESS" =>
    /\ \/ collected = WholeFile(ImageHeader, staged_boxes, submitted)
       \/ "wrap" \in Failures /\ collected = BareFile(ImageHeader, submitted)
    /\ \A i \in 1 .. Len(submitted), c \in 0 .. basic_info.extras - 1 :
         submitted[i].planes[c] # LostPlane

\* Settings made for an earlier JxlBasicInfo, or a profile beside a colour
\* encoding, never end up in a file (effective_color_encoding and
\* validateSimplePackedImage look again).
NoMixedSettings ==
  encoded_bytes # <<>> =>
    /\ color.channels = basic_info.channels
    /\ color.icc = (owned_icc # NoProfile)
    /\ \A c \in 0 .. basic_info.extras - 1 :
         extras[c] # NoExtra => (extras[c].kind = "alpha" <=> basic_info.alpha /\ c = 0)
    /\ \A i \in 1 .. Len(queued_frames) :
         queued_frames[i].duration > 0 => basic_info.animated

\* While an encoder is not reset, what was closed stays as it is: no frame or
\* plane after frames_closed, and no box or setting either once a frame is in
\* and the input is closed, whichever calls follow (UseBoxes has no guard for
\* closed input of its own).
ClosedIsClosed ==
  [][ /\ frames_closed /\ frames_closed' =>
           UNCHANGED <<submitted, queued_frames, basic_info, color, owned_icc, extras>>
      /\ input_closed /\ added_frame /\ input_closed' => UNCHANGED staged_boxes ]_vars

\* What is handed out is one file, fixed once, in order and without gaps;
\* success means it is complete; after the first byte nothing fails.
Stream == INSTANCE ByteStream WITH
  content <- encoded_bytes, taken <- collected, result <- status
ReadsOneFile == Stream!Spec
==============================================================================
