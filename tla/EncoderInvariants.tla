-------------------------- MODULE EncoderInvariants --------------------------
(***************************************************************************)
(* What has to be added to the properties of EncoderProperties to make     *)
(* them inductive.                                                         *)
(***************************************************************************)
EXTENDS EncoderProperties

\* The things a file is made of.
Described ==
  [ info : BasicInfo, color : Color, profile : Profile \cup {NoProfile},
    extras : UNION {[0 .. n - 1 -> ExtraInfo \cup {NoExtra}] : n \in 0 .. MaxChannels} ]

Item ==
  [signature : {"JXL "}] \cup [box : Box] \cup [header : Described]
    \cup [frame : Frame, is_last : BOOLEAN]

BytesInv == encoded_bytes \in Seq(Item) /\ collected \in Seq(Item)

\* The planes belong to the pending frame, and frames are counted from the
\* first one on.
QueueInv ==
  /\ QueueFollowsCalls
  /\ image = NoImage => planes = Unset
  /\ added_frame <=> submitted # <<>>

\* Closing the input closes everything else, and nothing is pending behind it.
CloseInv ==
  /\ input_closed => frames_closed
  /\ frames_closed => image = NoImage
  /\ input_closed /\ added_frame /\ use_boxes => boxes_closed

\* Frames fit the image they were added to; planes are lost only by failing.
FramesInv ==
  /\ submitted # <<>> => basic_info # NoInfo /\ color # NoColor
  /\ \A i \in 1 .. Len(submitted) : submitted[i].duration > 0 => basic_info.animated
  /\ "plane" \notin Failures =>
       \A i \in 1 .. Len(submitted), c \in Channel : submitted[i].planes[c] # LostPlane

\* No client declares more extra channels than there is room for.
ChannelsFit == \A info \in Infos : info.extras <= MaxChannels

\* There is a file only after everything was closed, and it is made of what
\* was submitted under settings that are still in force.
FileInv ==
  encoded_bytes # <<>> =>
    /\ started_processing /\ Closed
    /\ EncoderAccepts
    /\ \/ encoded_bytes = WholeFile(ImageHeader, staged_boxes, queued_frames)
       \/ "wrap" \in Failures /\ encoded_bytes = BareFile(ImageHeader, queued_frames)

\* The bytes handed out are the bytes up to the offset.
OffsetInv ==
  /\ collected = SubSeq(encoded_bytes, 1, output_offset)
  /\ status = "SUCCESS" => encoded_bytes # <<>> /\ output_offset = Len(encoded_bytes)

Inductive ==
  TypeOK /\ BytesInv /\ QueueInv /\ CloseInv /\ FramesInv /\ FileInv /\ OffsetInv
==============================================================================
