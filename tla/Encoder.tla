------------------------------- MODULE Encoder -------------------------------
(***************************************************************************)
(* JxlEncoder of src/capi_root.zig: settings, metadata boxes, frames, and  *)
(* JxlEncoderProcessOutput, which makes the whole file when it is first    *)
(* called after everything was closed and hands it out through buffers of  *)
(* any size. The encoder is single-threaded and every call is one action.  *)
(* A call that returns JXL_ENC_ERROR and changes nothing is the absence of *)
(* a step; status is what JxlEncoderProcessOutput last returned.           *)
(***************************************************************************)
EXTENDS FrameQueue

CONSTANTS
  Infos, Colors, Profiles, ExtraInfos,   \* the settings the client may choose
  SettingsIds,     \* JxlEncoderFrameSettings objects it may create
  Durations,       \* durations of the frame headers it may set
  Absent,          \* a settings object that was not created
  NoHeader,        \* one without a frame header
  NoInfo, NoColor, \* JxlEncoderSetBasicInfo, SetColorEncoding not called
  MaxBoxes,        \* bound on the number of boxes a client adds
  Rooms,           \* sizes of the output buffers it offers
  Failures         \* which allocations may fail: of the "pixels" of a frame, a
                   \* "plane", while "encode" or "wrap" work

ASSUME EncoderAssumption ==
  /\ Infos \subseteq BasicInfo /\ NoInfo \notin BasicInfo
  /\ Colors \subseteq {c \in Color : ~c.icc} /\ NoColor \notin Color
  /\ Profiles \subseteq Profile /\ NoProfile \notin Profile
  /\ ExtraInfos \subseteq ExtraInfo /\ NoExtra \notin ExtraInfo
  /\ Durations \subseteq Nat /\ NoHeader \notin Nat /\ Absent \notin Nat
  /\ NoHeader # Absent
  /\ NoPlane \notin Planes /\ LostPlane \notin Planes /\ NoPlane # LostPlane
  /\ NoImage \notin [picture : Pictures, interleaved : BOOLEAN, duration : Nat]
  /\ MaxChannels \in Nat \ {0} /\ MaxFrames \in Nat /\ MaxBoxes \in Nat
  /\ Rooms \subseteq Nat

VARIABLES
  status,
  started_processing,
  basic_info,
  color,              \* internal_color_encoding with color_encoding_set
  owned_icc,
  extras,             \* pending_extra_channels: info and info_set
  frame_settings,     \* the header of each settings object
  use_boxes,
  boxes_closed,
  staged_boxes,
  frames_closed,
  input_closed,
  encoded_bytes,
  output_offset,
  collected           \* history: the bytes handed out

settingVars == <<basic_info, color, owned_icc, extras>>
boxVars == <<use_boxes, boxes_closed, staged_boxes>>
closeVars == <<frames_closed, input_closed>>
outputVars == <<encoded_bytes, output_offset, collected>>
vars == <<status, started_processing, settingVars, frame_settings, boxVars,
          closeVars, outputVars, queueVars>>

Init ==
  /\ status = "IDLE"
  /\ started_processing = FALSE
  /\ basic_info = NoInfo
  /\ color = NoColor
  /\ owned_icc = NoProfile
  /\ extras = [c \in Channel |-> NoExtra]
  /\ frame_settings = [s \in SettingsIds |-> Absent]
  /\ use_boxes = FALSE
  /\ boxes_closed = FALSE
  /\ staged_boxes = <<>>
  /\ frames_closed = FALSE
  /\ input_closed = FALSE
  /\ encoded_bytes = <<>>
  /\ output_offset = 0
  /\ collected = <<>>
  /\ QueueInit

\* Nothing is known of what follows a read outside a plane or behind
\* pending_extra_channels. All calls but those that say so are ruled out by
\* started_processing.
Defined == status # "UNDEFINED"

-----------------------------------------------------------------------------
(* Settings of the image.                                                  *)

SettingsOpen == ~started_processing /\ ~added_frame /\ ~frames_closed

\* JxlEncoderSetBasicInfo. It may be called again, and keeps what was set
\* after the last time.
SetBasicInfo(info) ==
  /\ SettingsOpen
  /\ basic_info' = info
  /\ UNCHANGED <<status, started_processing, color, owned_icc, extras,
                 frame_settings, boxVars, closeVars, outputVars, queueVars>>

\* JxlEncoderSetColorEncoding. A profile stays in owned_icc.
SetColorEncoding(c) ==
  /\ SettingsOpen /\ basic_info # NoInfo
  /\ c.channels = basic_info.channels
  /\ color' = c
  /\ UNCHANGED <<status, started_processing, basic_info, owned_icc, extras,
                 frame_settings, boxVars, closeVars, outputVars, queueVars>>

\* num_extra_channels is compared neither here nor later with the length of
\* pending_extra_channels.
TooManyChannels == basic_info # NoInfo /\ basic_info.extras > MaxChannels

\* hasStagedBlackExtraChannel
HasBlack(info, channels) ==
  \E c \in Channel : c < info.extras /\ channels[c] # NoExtra /\ channels[c].kind = "black"

\* JxlEncoderSetICCProfile
SetICCProfile(profile) ==
  /\ SettingsOpen /\ basic_info # NoInfo /\ color = NoColor
  /\ profile.channels = basic_info.channels
  /\ profile.cmyk => ~TooManyChannels /\ HasBlack(basic_info, extras)
  /\ owned_icc' = profile
  /\ color' = [icc |-> TRUE, channels |-> profile.channels]
  /\ UNCHANGED <<status, started_processing, basic_info, extras,
                 frame_settings, boxVars, closeVars, outputVars, queueVars>>

\* JxlEncoderSetExtraChannelInfo. A name set before is kept.
SetExtraChannelInfo(c, info) ==
  /\ SettingsOpen /\ basic_info # NoInfo
  /\ c < basic_info.extras
  /\ (info.kind = "alpha") <=> (basic_info.alpha /\ c = 0)
  /\ extras' = [extras EXCEPT ![c] =
       [info EXCEPT !.named = extras[c] # NoExtra /\ extras[c].named]]
  /\ UNCHANGED <<status, started_processing, basic_info, color, owned_icc,
                 frame_settings, boxVars, closeVars, outputVars, queueVars>>

\* JxlEncoderSetExtraChannelName, of length 0 or not
SetExtraChannelName(c, named) ==
  /\ SettingsOpen /\ basic_info # NoInfo
  /\ c < basic_info.extras /\ extras[c] # NoExtra
  /\ extras' = [extras EXCEPT ![c].named = named]
  /\ UNCHANGED <<status, started_processing, basic_info, color, owned_icc,
                 frame_settings, boxVars, closeVars, outputVars, queueVars>>

ImageCall ==
  \/ \E info \in Infos : SetBasicInfo(info)
  \/ \E c \in Colors : SetColorEncoding(c)
  \/ \E p \in Profiles : SetICCProfile(p)
  \/ \E c \in Channel, info \in ExtraInfos : SetExtraChannelInfo(c, info)
  \/ \E c \in Channel, b \in BOOLEAN : SetExtraChannelName(c, b)

-----------------------------------------------------------------------------
(* Metadata boxes.                                                         *)

\* JxlEncoderUseBoxes
UseBoxes ==
  /\ basic_info # NoInfo /\ ~started_processing /\ ~added_frame /\ ~use_boxes
  /\ use_boxes' = TRUE
  /\ boxes_closed' = FALSE
  /\ UNCHANGED <<status, started_processing, settingVars, frame_settings,
                 staged_boxes, closeVars, outputVars, queueVars>>

\* JxlEncoderAddBox; a compressed one is stored as a brob box.
AddBox(box) ==
  /\ use_boxes /\ ~boxes_closed /\ ~started_processing
  /\ Len(staged_boxes) < MaxBoxes
  /\ staged_boxes' = Append(staged_boxes, box)
  /\ UNCHANGED <<status, started_processing, settingVars, frame_settings,
                 use_boxes, boxes_closed, closeVars, outputVars, queueVars>>

\* JxlEncoderCloseBoxes
CloseBoxes ==
  /\ use_boxes /\ ~started_processing
  /\ boxes_closed' = TRUE
  /\ UNCHANGED <<status, started_processing, settingVars, frame_settings,
                 use_boxes, staged_boxes, closeVars, outputVars, queueVars>>

BoxCall ==
  \/ UseBoxes
  \/ \E n \in Names, brob \in BOOLEAN : AddBox([name |-> n, brob |-> brob])
  \/ CloseBoxes

-----------------------------------------------------------------------------
(* Frames.                                                                 *)

\* JxlEncoderFrameSettingsCreate, from nothing or from another object
FrameSettingsCreate(s, source) ==
  /\ Defined
  /\ frame_settings[s] = Absent
  /\ frame_settings' = [frame_settings EXCEPT ![s] = source]
  /\ UNCHANGED <<status, started_processing, settingVars, boxVars, closeVars,
                 outputVars, queueVars>>

\* JxlEncoderSetFrameHeader
SetFrameHeader(s, duration) ==
  /\ frame_settings[s] # Absent
  /\ ~started_processing /\ ~frames_closed
  /\ frame_settings' = [frame_settings EXCEPT ![s] = duration]
  /\ UNCHANGED <<status, started_processing, settingVars, boxVars, closeVars,
                 outputVars, queueVars>>

\* What is encoded of a header: nothing set counts as no duration.
DurationOf(header) == IF header = NoHeader THEN 0 ELSE header

\* The guards of JxlEncoderAddImageFrame. The frame takes the header its
\* settings have now.
MayAdd(s, interleaved) ==
  /\ frame_settings[s] # Absent
  /\ basic_info # NoInfo /\ color # NoColor
  /\ ~frames_closed /\ ~started_processing
  /\ interleaved =>
       basic_info.alpha /\ (extras[0] # NoExtra => ~extras[0].subsampled)
  /\ DurationOf(frame_settings[s]) > 0 => basic_info.animated

\* JxlEncoderAddImageFrame
AddImageFrame(s, picture, interleaved) ==
  /\ MayAdd(s, interleaved)
  /\ AddFrame([ picture |-> picture, interleaved |-> interleaved,
                duration |-> DurationOf(frame_settings[s]) ])
  /\ UNCHANGED <<status, started_processing, settingVars, frame_settings,
                 boxVars, closeVars, outputVars>>

AddImageFrameFails ==
  /\ "pixels" \in Failures
  /\ \E s \in SettingsIds, b \in BOOLEAN : MayAdd(s, b)
  /\ AddFrameFails
  /\ UNCHANGED <<status, started_processing, settingVars, frame_settings,
                 boxVars, closeVars, outputVars>>

\* JxlEncoderSetExtraChannelBuffer. Only alpha may be set undescribed.
MaySetPlane(c) ==
  /\ basic_info # NoInfo /\ color # NoColor
  /\ ~started_processing /\ ~frames_closed
  /\ c < basic_info.extras
  /\ extras[c] # NoExtra \/ (basic_info.alpha /\ c = 0)

SetExtraChannelBuffer(c) ==
  /\ MaySetPlane(c)
  /\ \/ \E p \in Planes : SetPlane(c, p)
     \/ "plane" \in Failures /\ SetPlaneFails(c)
  /\ UNCHANGED <<status, started_processing, settingVars, frame_settings,
                 boxVars, closeVars, outputVars>>

\* A channel that is declared but not in pending_extra_channels is described
\* or named, searched for black, or given a buffer.
IndexPastChannels ==
  /\ TooManyChannels
  /\ ~started_processing /\ ~frames_closed
  /\ ~added_frame \/ (image # NoImage /\ color # NoColor)
  /\ status' = "UNDEFINED"
  /\ started_processing' = TRUE
  /\ UNCHANGED <<settingVars, frame_settings, boxVars, closeVars, outputVars, queueVars>>

\* JxlEncoderCloseFrames
CloseFrames ==
  /\ ~started_processing
  /\ QueueLastFrame
  /\ frames_closed' = TRUE
  /\ UNCHANGED <<status, started_processing, settingVars, frame_settings,
                 boxVars, input_closed, outputVars>>

FrameCall ==
  \/ \E s \in SettingsIds :
       \/ FrameSettingsCreate(s, NoHeader)
       \/ \E source \in SettingsIds :
            frame_settings[source] # Absent /\ FrameSettingsCreate(s, frame_settings[source])
       \/ \E d \in Durations : SetFrameHeader(s, d)
       \/ \E p \in Pictures, b \in BOOLEAN : AddImageFrame(s, p, b)
  \/ AddImageFrameFails
  \/ \E c \in Channel : SetExtraChannelBuffer(c)
  \/ IndexPastChannels
  \/ CloseFrames

-----------------------------------------------------------------------------
\* JxlEncoderCloseInput, also after processing started
CloseInput ==
  /\ Defined
  /\ QueueLastFrame
  /\ boxes_closed' = (boxes_closed \/ use_boxes)
  /\ frames_closed' = TRUE
  /\ input_closed' = TRUE
  /\ UNCHANGED <<status, started_processing, settingVars, frame_settings,
                 use_boxes, staged_boxes, outputVars>>

\* Mutation of Reset: clearEncodedBytes forgets the offset.
ResetKeepsOffset ==
  /\ Defined
  /\ status' = "IDLE"
  /\ started_processing' = FALSE
  /\ basic_info' = NoInfo
  /\ color' = NoColor
  /\ owned_icc' = NoProfile
  /\ extras' = [c \in Channel |-> NoExtra]
  /\ frame_settings' = [s \in SettingsIds |-> Absent]
  /\ use_boxes' = FALSE /\ boxes_closed' = FALSE /\ staged_boxes' = <<>>
  /\ frames_closed' = FALSE /\ input_closed' = FALSE
  /\ encoded_bytes' = <<>> /\ collected' = <<>>
  /\ ClearQueue
  /\ UNCHANGED output_offset

\* JxlEncoderReset
Reset ==
  /\ Defined
  /\ status' = "IDLE"
  /\ started_processing' = FALSE
  /\ basic_info' = NoInfo
  /\ color' = NoColor
  /\ owned_icc' = NoProfile
  /\ extras' = [c \in Channel |-> NoExtra]
  /\ frame_settings' = [s \in SettingsIds |-> Absent]
  /\ use_boxes' = FALSE
  /\ boxes_closed' = FALSE
  /\ staged_boxes' = <<>>
  /\ frames_closed' = FALSE
  /\ input_closed' = FALSE
  /\ encoded_bytes' = <<>>
  /\ output_offset' = 0
  /\ collected' = <<>>
  /\ ClearQueue

-----------------------------------------------------------------------------
(* JxlEncoderProcessOutput.                                                *)

Closed ==
  /\ input_closed \/ frames_closed
  /\ added_frame
  /\ use_boxes => boxes_closed

ImageHeader == Header(basic_info, color, owned_icc, extras)
EncoderAccepts == ~TooManyChannels /\ Encodable(ImageHeader, extras, queued_frames)

\* Packing the frames in order, a channel or an alpha plane is read that is
\* not there.
ReadsPastEnd ==
  \E i \in 1 .. Len(queued_frames) :
    /\ TooManyChannels \/ ReadsLostPlane(basic_info, queued_frames[i])
    /\ \A j \in 1 .. i : Packs(basic_info, extras, queued_frames[j])

\* finalizeSimpleEncode is called.
Finalizing == Defined /\ Closed /\ encoded_bytes = <<>>

Returns(result) ==
  /\ status' = result
  /\ started_processing' = TRUE
  /\ UNCHANGED <<settingVars, frame_settings, boxVars, closeVars, queueVars>>

\* A call before everything is closed fails, and marks the encoder started.
ProcessEarly ==
  /\ Defined /\ ~Closed
  /\ Returns("ERROR")
  /\ UNCHANGED outputVars

\* finalizeSimpleEncode refuses, or an allocation fails before it is done.
FinalizeFails ==
  /\ Finalizing
  /\ ~(EncoderAccepts \/ ReadsPastEnd) \/ "encode" \in Failures
  /\ Returns("ERROR")
  /\ UNCHANGED outputVars

\* What follows such a read is undefined.
FinalizeUndefined ==
  /\ Finalizing /\ ReadsPastEnd
  /\ Returns("UNDEFINED")
  /\ UNCHANGED outputVars

\* The codestream is finished and the boxes cannot be wrapped around it.
WrapFails ==
  /\ Finalizing /\ EncoderAccepts
  /\ staged_boxes # <<>> /\ "wrap" \in Failures
  /\ Returns("ERROR")
  /\ encoded_bytes' = BareFile(ImageHeader, queued_frames)
  /\ UNCHANGED <<output_offset, collected>>

\* Mutation of HandOut: the offset moves by the size of the buffer.
HandOutCountsRoom(bytes, room) ==
  LET left == Len(bytes) - output_offset
      n == IF left < room THEN left ELSE room
  IN /\ encoded_bytes' = bytes
     /\ output_offset' = output_offset + room
     /\ collected' = collected \o SubSeq(bytes, output_offset + 1, output_offset + n)
     /\ Returns(IF n = left THEN "SUCCESS" ELSE "NEED_MORE_OUTPUT")

\* Copies what is left of the file and fits.
HandOut(bytes, room) ==
  LET left == Len(bytes) - output_offset
      n == IF left < room THEN left ELSE room
  IN /\ encoded_bytes' = bytes
     /\ output_offset' = output_offset + n
     /\ collected' = collected \o SubSeq(bytes, output_offset + 1, output_offset + n)
     /\ Returns(IF n = left THEN "SUCCESS" ELSE "NEED_MORE_OUTPUT")

FinalizeAndHandOut(room) ==
  /\ Finalizing /\ EncoderAccepts
  /\ HandOut(WholeFile(ImageHeader, staged_boxes, queued_frames), room)

\* Mutation of Continue: a file is made again after wrapping has failed.
ContinueAfresh(room) ==
  /\ Closed /\ encoded_bytes # <<>>
  /\ HandOut(WholeFile(ImageHeader, staged_boxes, queued_frames), room)

Continue(room) ==
  /\ Closed /\ encoded_bytes # <<>>
  /\ HandOut(encoded_bytes, room)

ProcessOutput ==
  \/ ProcessEarly
  \/ FinalizeFails
  \/ FinalizeUndefined
  \/ WrapFails
  \/ \E room \in Rooms : FinalizeAndHandOut(room) \/ Continue(room)

-----------------------------------------------------------------------------
Next ==
  \/ ImageCall
  \/ BoxCall
  \/ FrameCall
  \/ CloseInput
  \/ Reset
  \/ ProcessOutput

Spec == Init /\ [][Next]_vars
==============================================================================
