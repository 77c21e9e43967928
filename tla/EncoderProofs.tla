---------------------------- MODULE EncoderProofs ----------------------------
(***************************************************************************)
(* Proofs that the properties of EncoderProperties hold of every client,   *)
(* every setting, any number of frames and boxes and output buffers of any *)
(* size.                                                                   *)
(***************************************************************************)
EXTENDS EncoderInvariants, TLAPS, SequenceTheorems

-----------------------------------------------------------------------------
(* Which calls touch what.                                                 *)

\* The calls that touch frame_settings only.
HeaderCall ==
  \E s \in SettingsIds :
    \/ FrameSettingsCreate(s, NoHeader)
    \/ \E source \in SettingsIds :
         frame_settings[source] # Absent /\ FrameSettingsCreate(s, frame_settings[source])
    \/ \E d \in Durations : SetFrameHeader(s, d)

\* The calls that touch the queue.
QueueCall ==
  \/ \E s \in SettingsIds, p \in Pictures, b \in BOOLEAN : AddImageFrame(s, p, b)
  \/ AddImageFrameFails
  \/ \E c \in Channel : SetExtraChannelBuffer(c)
  \/ CloseFrames
  \/ CloseInput

HandOutStep ==
  \E room \in Rooms : FinalizeAndHandOut(room) \/ Continue(room)

\* Attempts that hand out nothing, and what is undefined from the start.
FailedOutput == ProcessEarly \/ FinalizeFails \/ FinalizeUndefined \/ WrapFails \/ IndexPastChannels

\* Every step is of one of these kinds.
LEMMA StepKinds ==
  ASSUME Next
  PROVE  \/ ImageCall \/ BoxCall \/ HeaderCall \/ QueueCall \/ Reset
         \/ FailedOutput \/ HandOutStep
  BY DEF Next, FrameCall, ProcessOutput, HeaderCall, QueueCall, FailedOutput,
         HandOutStep

LEMMA ImageCallLeaves ==
  ASSUME ImageCall
  PROVE  /\ SettingsOpen
         /\ UNCHANGED <<status, started_processing, frame_settings, boxVars,
                        closeVars, outputVars, queueVars>>
  BY DEF ImageCall, SetBasicInfo, SetColorEncoding, SetICCProfile,
         SetExtraChannelInfo, SetExtraChannelName

LEMMA BoxCallLeaves ==
  ASSUME BoxCall
  PROVE  /\ ~started_processing
         /\ UNCHANGED <<status, started_processing, settingVars, frame_settings,
                        closeVars, outputVars, queueVars>>
  BY DEF BoxCall, UseBoxes, AddBox, CloseBoxes

LEMMA HeaderCallLeaves ==
  ASSUME HeaderCall
  PROVE  UNCHANGED <<status, started_processing, settingVars, boxVars, closeVars,
                     outputVars, queueVars>>
  BY DEF HeaderCall, FrameSettingsCreate, SetFrameHeader

LEMMA QueueCallLeaves ==
  ASSUME QueueCall
  PROVE  UNCHANGED <<status, started_processing, settingVars, frame_settings,
                     use_boxes, staged_boxes, outputVars>>
  BY DEF QueueCall, AddImageFrame, AddImageFrameFails, SetExtraChannelBuffer,
         CloseFrames, CloseInput, boxVars, closeVars

LEMMA OutputLeaves ==
  ASSUME FailedOutput \/ HandOutStep
  PROVE  /\ started_processing'
         /\ UNCHANGED <<settingVars, frame_settings, boxVars, closeVars, queueVars>>
  BY DEF FailedOutput, HandOutStep, ProcessEarly, FinalizeFails, Finalizing,
         FinalizeUndefined, WrapFails, IndexPastChannels, FinalizeAndHandOut, Continue, HandOut, Returns

-----------------------------------------------------------------------------
(* The queue.                                                              *)

\* A pending image is never the value that stands for none.
LEMMA ImagesExist ==
  ASSUME NEW s \in SettingsIds, NEW p \in Pictures, NEW b \in BOOLEAN, TypeOK
  PROVE  LET img == [ picture |-> p, interleaved |-> b,
                      duration |-> DurationOf(frame_settings[s]) ]
         IN  frame_settings[s] # Absent => img \in Image /\ img # NoImage
<1>1. frame_settings[s] # Absent => DurationOf(frame_settings[s]) \in Nat
  BY DEF TypeOK, DurationOf
<1>2. NoImage \notin Image
  BY EncoderAssumption DEF Image
<1> QED BY <1>1, <1>2 DEF Image

LEMMA PlanesExist ==
  Unset \in [Channel -> Planes \cup {NoPlane, LostPlane}]
  BY DEF Unset

LEMMA PendingIsFrames ==
  ASSUME TypeOK
  PROVE  Pending \in Seq(Frame) /\ (image # NoImage => WithPlanes(image, planes) \in Frame)
<1>1. image # NoImage => image \in Image /\ planes \in [Channel -> Planes \cup {NoPlane, LostPlane}]
  BY DEF TypeOK
<1>2. image # NoImage => WithPlanes(image, planes) \in Frame
  BY <1>1 DEF WithPlanes, Frame, Image
<1> QED BY <1>2 DEF Pending

\* queuePendingFrame moves the pending frame and loses nothing.
LEMMA QueueMoves ==
  ASSUME TypeOK, QueueInv, QueuePendingFrame
  PROVE  queued_frames' = submitted /\ planes' = Unset
  BY DEF QueueInv, QueueFollowsCalls, QueuePendingFrame

\* What a frame's planes become when one of them is set.
LEMMA PlaneSet ==
  ASSUME TypeOK, QueueInv, NEW c \in Channel, NEW plane, SetPlane(c, plane),
         plane \in Planes \cup {LostPlane}
  PROVE  /\ submitted # <<>> /\ Len(submitted) = Len(queued_frames) + 1
         /\ planes' \in [Channel -> Planes \cup {NoPlane, LostPlane}]
         /\ WithPlanes(image, planes') \in Frame
         /\ submitted' = queued_frames \o <<WithPlanes(image, planes')>>
         /\ submitted' \in Seq(Frame)
         /\ Len(submitted') = Len(submitted)
         /\ \A i \in 1 .. Len(submitted) : \A d \in Channel :
              /\ submitted'[i].duration = submitted[i].duration
              /\ submitted'[i].planes[d] \in {submitted[i].planes[d], plane}
<1> DEFINE old == WithPlanes(image, planes)
           new == WithPlanes(image, planes')
           last == Len(submitted)
<1>1. image # NoImage /\ old \in Frame /\ queued_frames \in Seq(Frame)
  BY PendingIsFrames DEF SetPlane, TypeOK
<1>2. submitted = queued_frames \o <<old>>
  BY <1>1 DEF QueueInv, QueueFollowsCalls, Pending
<1>3. <<old>> \in Seq(Frame) /\ Len(<<old>>) = 1
  BY <1>1
<1>4. /\ last = Len(queued_frames) + 1 /\ last \in Nat /\ last \in 1 .. last
      /\ submitted[last] = old
      /\ \A i \in 1 .. Len(queued_frames) : submitted[i] = queued_frames[i]
      /\ submitted \in Seq(Frame)
  BY <1>1, <1>2, <1>3, ConcatProperties, LenProperties
<1>5. /\ planes' = [planes EXCEPT ![c] = plane]
      /\ planes' \in [Channel -> Planes \cup {NoPlane, LostPlane}]
  BY DEF SetPlane, TypeOK
<1>6. image \in Image
  BY <1>1 DEF TypeOK
<1>7. new \in Frame
  BY <1>5, <1>6 DEF WithPlanes, Frame, Image
<1>8. [old EXCEPT !.planes[c] = plane] = new
  BY <1>5 DEF WithPlanes
<1>9. submitted' = [submitted EXCEPT ![last] = new]
  <2>1. submitted' = [submitted EXCEPT ![last] = [submitted[last] EXCEPT !.planes[c] = plane]]
    BY <1>4 DEF SetPlane
  <2> QED BY <2>1, <1>4, <1>8
<1>10. /\ submitted' \in Seq(Frame) /\ Len(submitted') = last
       /\ \A j \in 1 .. last : submitted'[j] = IF j = last THEN new ELSE submitted[j]
  BY <1>4, <1>7, <1>9, ExceptSeq
<1>11. <<new>> \in Seq(Frame) /\ Len(<<new>>) = 1
  BY <1>7
<1>12. submitted' = queued_frames \o <<new>>
  <2>1. /\ queued_frames \o <<new>> \in Seq(Frame)
        /\ Len(queued_frames \o <<new>>) = last
        /\ \A i \in 1 .. last :
             (queued_frames \o <<new>>)[i] = IF i = last THEN new ELSE queued_frames[i]
    BY <1>1, <1>4, <1>11, ConcatProperties, LenProperties
  <2> HIDE DEF new, last
  <2>2. \A i \in 1 .. last : submitted'[i] = (queued_frames \o <<new>>)[i]
    BY <2>1, <1>4, <1>10, LenProperties, <1>1
  <2> QED BY <2>1, <2>2, <1>10, SeqEqual
<1>13. \A d \in Channel : /\ new.duration = old.duration
                          /\ new.planes[d] \in {old.planes[d], plane}
  BY <1>5 DEF WithPlanes, TypeOK
<1>14. submitted # <<>>
  BY <1>4
<1> HIDE DEF new, old
<1> QED BY <1>4, <1>5, <1>7, <1>10, <1>12, <1>13, <1>14 DEF new

\* The queue together with its types.
QueueTyped ==
  /\ image \in Image \cup {NoImage}
  /\ planes \in [Channel -> Planes \cup {NoPlane, LostPlane}]
  /\ queued_frames \in Seq(Frame) /\ submitted \in Seq(Frame)
  /\ added_frame \in BOOLEAN

LEMMA QueueStep ==
  ASSUME TypeOK, QueueInv, Next
  PROVE  QueueTyped' /\ QueueInv'
<1> USE DEF QueueTyped
<1>0. submitted \in Seq(Frame) /\ added_frame \in BOOLEAN
  BY DEF TypeOK
<1>1. ASSUME UNCHANGED queueVars
      PROVE  QueueTyped' /\ QueueInv'
  BY <1>1 DEF queueVars, TypeOK, QueueInv, QueueFollowsCalls, Pending
<1>2. ASSUME QueuePendingFrame, image' = NoImage, submitted' = submitted,
             added_frame' = (added_frame \/ image # NoImage)
      PROVE  QueueTyped' /\ QueueInv'
  <2>1. queued_frames' = submitted /\ planes' = Unset
    BY <1>2, QueueMoves
  <2>2. Pending' = <<>> /\ submitted \o <<>> = submitted
    BY <1>0, <1>2, ConcatEmptySeq DEF Pending
  <2>3. image # NoImage => submitted # <<>>
    <3>1. ASSUME image # NoImage PROVE Pending # <<>> /\ submitted = queued_frames \o Pending
      BY <3>1 DEF Pending, QueueInv, QueueFollowsCalls
    <3> QED BY <3>1, PendingIsFrames, ConcatEqualIffEmpty DEF TypeOK
  <2>4. added_frame' <=> submitted # <<>>
    BY <1>2, <2>3 DEF QueueInv
  <2>5. added_frame' \in BOOLEAN
    BY <1>0, <1>2
  <2> QED BY <1>0, <1>2, <2>1, <2>2, <2>4, <2>5, PlanesExist DEF QueueInv, QueueFollowsCalls
<1>3. ASSUME NEW s \in SettingsIds, NEW p \in Pictures, NEW b \in BOOLEAN,
             AddImageFrame(s, p, b)
      PROVE  QueueTyped' /\ QueueInv'
  <2> DEFINE img == [ picture |-> p, interleaved |-> b,
                      duration |-> DurationOf(frame_settings[s]) ]
  <2>1. img \in Image /\ img # NoImage
    BY <1>3, ImagesExist DEF AddImageFrame, MayAdd
  <2>2. /\ QueuePendingFrame /\ image' = img /\ added_frame' = TRUE
        /\ submitted' = Append(submitted, WithPlanes(img, Unset))
    BY <1>3 DEF AddImageFrame, AddFrame
  <2>3. queued_frames' = submitted /\ planes' = Unset
    BY <2>2, QueueMoves
  <2> HIDE DEF img
  <2>4. WithPlanes(img, Unset) \in Frame
    BY <2>1, PlanesExist DEF WithPlanes, Frame, Image
  <2>5. Pending' = <<WithPlanes(img, Unset)>>
    BY <2>1, <2>2, <2>3 DEF Pending
  <2>6. submitted' = submitted \o <<WithPlanes(img, Unset)>> /\ submitted' \in Seq(Frame)
        /\ submitted' # <<>>
    BY <1>0, <2>2, <2>4
  <2> QED BY <1>0, <2>1, <2>2, <2>3, <2>5, <2>6, PlanesExist DEF QueueInv, QueueFollowsCalls
<1>4. ASSUME NEW c \in Channel, SetExtraChannelBuffer(c)
      PROVE  QueueTyped' /\ QueueInv'
  <2>1. PICK plane \in Planes \cup {LostPlane} : SetPlane(c, plane)
    BY <1>4 DEF SetExtraChannelBuffer, SetPlaneFails
  <2>2. /\ image # NoImage /\ UNCHANGED <<image, queued_frames, added_frame>>
    BY <2>1 DEF SetPlane
  <2>3. /\ submitted # <<>> /\ submitted' \in Seq(Frame)
        /\ planes' \in [Channel -> Planes \cup {NoPlane, LostPlane}]
        /\ submitted' = queued_frames \o <<WithPlanes(image, planes')>>
        /\ Len(submitted') = Len(submitted)
    BY <2>1, PlaneSet
  <2>4. submitted' # <<>>
    BY <1>0, <2>3
  <2> QED BY <1>0, <2>2, <2>3, <2>4 DEF QueueInv, QueueFollowsCalls, Pending, TypeOK
<1>5. ASSUME Reset
      PROVE  QueueTyped' /\ QueueInv'
  <2>1. ClearQueue
    BY <1>5 DEF Reset
  <2>2. <<>> \o <<>> = <<>>
    BY ConcatEmptySeq, EmptySeq
  <2>3. /\ image' = NoImage /\ planes' = Unset /\ queued_frames' = <<>>
        /\ added_frame' = FALSE /\ submitted' = <<>>
    BY <2>1 DEF ClearQueue
  <2>4. Pending' = <<>>
    BY <2>3 DEF Pending
  <2>5. QueueTyped'
    <3>1. <<>> \in Seq(Frame)
      BY EmptySeq
    <3>2. added_frame' \in BOOLEAN
      BY <2>3
    <3> QED BY <2>3, <3>1, <3>2, PlanesExist
  <2>6. QueueInv'
    BY <2>2, <2>3, <2>4 DEF QueueInv, QueueFollowsCalls
  <2> QED BY <2>5, <2>6
<1>6. CASE ImageCall \/ BoxCall \/ HeaderCall
  BY <1>1, <1>6, ImageCallLeaves, BoxCallLeaves, HeaderCallLeaves
<1>7. CASE FailedOutput \/ HandOutStep
  BY <1>1, <1>7, OutputLeaves
<1>8. CASE QueueCall
  <2>1. CASE AddImageFrameFails
    BY <1>2, <2>1 DEF AddImageFrameFails, AddFrameFails
  <2>2. CASE CloseFrames \/ CloseInput
    BY <1>2, <2>2 DEF CloseFrames, CloseInput, QueueLastFrame
  <2> QED BY <1>3, <1>4, <1>8, <2>1, <2>2 DEF QueueCall
<1> QED BY <1>5, <1>6, <1>7, <1>8, StepKinds

-----------------------------------------------------------------------------
(* Closing.                                                                *)

LEMMA ImageIsSomething ==
  ASSUME TypeOK, QueueInv, image # NoImage
  PROVE  submitted # <<>> /\ added_frame
<1>1. Pending # <<>> /\ submitted = queued_frames \o Pending
  BY DEF Pending, QueueInv, QueueFollowsCalls
<1>2. submitted # <<>>
  BY <1>1, PendingIsFrames, ConcatEqualIffEmpty DEF TypeOK
<1> QED BY <1>2 DEF QueueInv

LEMMA CloseStep ==
  ASSUME TypeOK, QueueInv, CloseInv, Next
  PROVE  CloseInv'
<1> USE DEF CloseInv
<1>1. CASE ImageCall \/ HeaderCall
  BY <1>1, ImageCallLeaves, HeaderCallLeaves DEF boxVars, closeVars, queueVars
<1>2. CASE BoxCall
  <2>1. UNCHANGED <<frames_closed, input_closed, image, added_frame>>
    BY <1>2, BoxCallLeaves DEF closeVars, queueVars
  <2>2. added_frame /\ use_boxes' => use_boxes
    BY <1>2 DEF BoxCall, UseBoxes, AddBox, CloseBoxes
  <2>3. added_frame /\ boxes_closed => boxes_closed'
    BY <1>2 DEF BoxCall, UseBoxes, AddBox, CloseBoxes
  <2> QED BY <2>1, <2>2, <2>3
<1>3. CASE FailedOutput \/ HandOutStep
  BY <1>3, OutputLeaves DEF boxVars, closeVars, queueVars
<1>4. CASE Reset
  BY <1>4 DEF Reset
<1>5. CASE QueueCall
  <2>1. ASSUME NEW s \in SettingsIds, NEW p \in Pictures, NEW b \in BOOLEAN,
               AddImageFrame(s, p, b)
        PROVE  CloseInv'
    BY <2>1 DEF AddImageFrame, MayAdd, boxVars, closeVars
  <2>2. CASE AddImageFrameFails
    BY <2>2 DEF AddImageFrameFails, MayAdd, boxVars, closeVars
  <2>3. ASSUME NEW c \in Channel, SetExtraChannelBuffer(c)
        PROVE  CloseInv'
    BY <2>3 DEF SetExtraChannelBuffer, MaySetPlane, boxVars, closeVars
  <2>4. CASE CloseFrames
    BY <2>4 DEF CloseFrames, QueueLastFrame, boxVars
  <2>5. CASE CloseInput
    BY <2>5 DEF CloseInput, QueueLastFrame
  <2> QED BY <1>5, <2>1, <2>2, <2>3, <2>4, <2>5 DEF QueueCall
<1> QED BY <1>1, <1>2, <1>3, <1>4, <1>5, StepKinds

\* Closed frames are not touched again, and neither are the settings.
LEMMA ClosedLeavesFrames ==
  ASSUME TypeOK, QueueInv, CloseInv, Next, frames_closed, frames_closed'
  PROVE  UNCHANGED <<submitted, queued_frames, settingVars>>
<1>1. ASSUME QueuePendingFrame PROVE queued_frames' = queued_frames
  <2>1. Pending = <<>> /\ queued_frames' = queued_frames \o Pending
    BY <1>1 DEF QueuePendingFrame, CloseInv, Pending
  <2> QED BY <2>1, ConcatEmptySeq DEF TypeOK
<1>2. CASE ImageCall
  BY <1>2, ImageCallLeaves DEF SettingsOpen
<1>3. CASE BoxCall \/ HeaderCall \/ FailedOutput \/ HandOutStep
  BY <1>3, BoxCallLeaves, HeaderCallLeaves, OutputLeaves DEF queueVars
<1>4. CASE Reset
  BY <1>4 DEF Reset
<1>5. CASE QueueCall
  <2>1. UNCHANGED settingVars
    BY <1>5, QueueCallLeaves
  <2>2. UNCHANGED <<submitted, queued_frames>>
    BY <1>1, <1>5 DEF QueueCall, AddImageFrame, AddImageFrameFails, MayAdd,
       SetExtraChannelBuffer, MaySetPlane, CloseFrames, CloseInput, QueueLastFrame
  <2> QED BY <2>1, <2>2
<1> QED BY <1>2, <1>3, <1>4, <1>5, StepKinds

\* Neither are the boxes, once a frame is in and the input is closed.
LEMMA ClosedLeavesBoxes ==
  ASSUME TypeOK, CloseInv, Next, input_closed, added_frame, input_closed'
  PROVE  UNCHANGED <<staged_boxes, use_boxes>>
<1>1. CASE ImageCall \/ HeaderCall \/ FailedOutput \/ HandOutStep \/ QueueCall
  BY <1>1, ImageCallLeaves, HeaderCallLeaves, OutputLeaves, QueueCallLeaves DEF boxVars
<1>2. CASE BoxCall
  BY <1>2 DEF BoxCall, UseBoxes, AddBox, CloseBoxes, CloseInv
<1>3. CASE Reset
  BY <1>3 DEF Reset
<1> QED BY <1>1, <1>2, <1>3, StepKinds

-----------------------------------------------------------------------------
(* Frames fit the settings.                                                *)

LEMMA FramesStep ==
  ASSUME TypeOK, QueueInv, FramesInv, Next
  PROVE  FramesInv'
<1>0. submitted \in Seq(Frame) /\ Len(submitted) \in Nat
  BY LenProperties DEF TypeOK
<1>1. ASSUME UNCHANGED <<submitted, basic_info, color>>
      PROVE  FramesInv'
  BY <1>1 DEF FramesInv
<1>2. ASSUME submitted' = <<>>
      PROVE  FramesInv'
  BY <1>2 DEF FramesInv
<1>3. CASE ImageCall
  <2>1. submitted = <<>> /\ submitted' = submitted
    BY <1>3, ImageCallLeaves DEF SettingsOpen, QueueInv, queueVars
  <2> QED BY <1>2, <2>1
<1>4. CASE BoxCall \/ HeaderCall \/ FailedOutput \/ HandOutStep
  BY <1>1, <1>4, BoxCallLeaves, HeaderCallLeaves, OutputLeaves DEF settingVars, queueVars
<1>5. CASE Reset
  BY <1>2, <1>5 DEF Reset, ClearQueue
<1>6. ASSUME NEW s \in SettingsIds, NEW p \in Pictures, NEW b \in BOOLEAN,
             AddImageFrame(s, p, b)
      PROVE  FramesInv'
  <2> DEFINE img == [ picture |-> p, interleaved |-> b,
                      duration |-> DurationOf(frame_settings[s]) ]
             new == WithPlanes(img, Unset)
  <2>1. img \in Image
    BY <1>6, ImagesExist DEF AddImageFrame, MayAdd
  <2>2. new \in Frame
    BY <2>1, PlanesExist DEF WithPlanes, Frame, Image
  <2>3. new.duration > 0 => basic_info.animated
    BY <1>6 DEF AddImageFrame, MayAdd, WithPlanes
  <2>4. \A c \in Channel : new.planes[c] # LostPlane
    BY EncoderAssumption DEF WithPlanes, Unset
  <2>5. submitted' = Append(submitted, new)
    BY <1>6 DEF AddImageFrame, AddFrame
  <2>6. basic_info # NoInfo /\ color # NoColor /\ UNCHANGED <<basic_info, color>>
    BY <1>6 DEF AddImageFrame, MayAdd, settingVars
  <2> HIDE DEF new
  <2>7. /\ Len(submitted') = Len(submitted) + 1
        /\ \A i \in 1 .. Len(submitted') :
             submitted'[i] = IF i <= Len(submitted) THEN submitted[i] ELSE new
    BY <1>0, <2>2, <2>5
  <2>8. \A i \in 1 .. Len(submitted') : submitted'[i] = new \/
          (i \in 1 .. Len(submitted) /\ submitted'[i] = submitted[i])
    BY <1>0, <2>7
  <2> QED BY <2>3, <2>4, <2>6, <2>8 DEF FramesInv
<1>7. ASSUME NEW c \in Channel, SetExtraChannelBuffer(c)
      PROVE  FramesInv'
  <2>1. PICK plane \in Planes \cup {LostPlane} :
          SetPlane(c, plane) /\ ("plane" \notin Failures => plane # LostPlane)
    BY <1>7, EncoderAssumption DEF SetExtraChannelBuffer, SetPlaneFails
  <2>2. UNCHANGED <<basic_info, color>>
    BY <1>7 DEF SetExtraChannelBuffer, settingVars
  <2>3. /\ submitted # <<>> /\ Len(submitted') = Len(submitted)
        /\ \A i \in 1 .. Len(submitted) : \A d \in Channel :
              /\ submitted'[i].duration = submitted[i].duration
              /\ submitted'[i].planes[d] \in {submitted[i].planes[d], plane}
    BY <2>1, PlaneSet
  <2>4. \A i \in 1 .. Len(submitted) : submitted'[i].duration = submitted[i].duration
    BY <1>7, <2>3
  <2> QED BY <2>1, <2>2, <2>3, <2>4 DEF FramesInv
<1>8. CASE AddImageFrameFails
  BY <1>1, <1>8 DEF AddImageFrameFails, AddFrameFails, settingVars
<1>9. CASE CloseFrames \/ CloseInput
  BY <1>1, <1>9 DEF CloseFrames, CloseInput, QueueLastFrame, settingVars
<1> QED BY <1>3, <1>4, <1>5, <1>6, <1>7, <1>8, <1>9, StepKinds DEF QueueCall

-----------------------------------------------------------------------------
(* The file.                                                               *)

LEMMA HeaderIsDescribed ==
  ASSUME TypeOK, basic_info # NoInfo, color # NoColor, ~TooManyChannels
  PROVE  ImageHeader \in Described
<1> DEFINE described == [c \in 0 .. basic_info.extras - 1 |-> extras[c]]
<1>1. /\ basic_info \in BasicInfo /\ color \in Color
      /\ owned_icc \in Profile \cup {NoProfile}
  BY DEF TypeOK
<1>2. basic_info.extras \in 0 .. MaxChannels
  BY <1>1, EncoderAssumption DEF BasicInfo, TooManyChannels
<1>3. 0 .. basic_info.extras - 1 \subseteq Channel
  BY <1>2, EncoderAssumption DEF Channel
<1>4. described \in [0 .. basic_info.extras - 1 -> ExtraInfo \cup {NoExtra}]
  BY <1>3 DEF TypeOK
<1>5. described \in UNION {[0 .. n - 1 -> ExtraInfo \cup {NoExtra}] : n \in 0 .. MaxChannels}
  BY <1>2, <1>4
<1>6. ImageHeader = [ info |-> basic_info, color |-> color, profile |-> owned_icc,
                      extras |-> described ]
  BY DEF ImageHeader, Header
<1> HIDE DEF described
<1> QED BY <1>1, <1>5, <1>6 DEF Described

\* A codestream is a file, and so is a container around it.
LEMMA FilesAreItems ==
  ASSUME NEW header \in Described, NEW boxes \in Seq(Box), NEW frames \in Seq(Frame)
  PROVE  /\ WholeFile(header, boxes, frames) \in Seq(Item)
         /\ WholeFile(header, boxes, frames) # <<>>
         /\ BareFile(header, frames) \in Seq(Item)
         /\ BareFile(header, frames) # <<>>
<1> DEFINE head == <<[header |-> header]>>
           body == [ i \in 1 .. Len(frames) |->
                       [frame |-> frames[i], is_last |-> i = Len(frames)] ]
           code == Codestream(header, frames)
<1>1. head \in Seq(Item) /\ head # <<>>
  BY DEF Item
<1>2. body \in Seq(Item)
  <2>1. Len(frames) \in Nat
    BY LenProperties
  <2>2. \A i \in 1 .. Len(frames) : frames[i] \in Frame
    BY ElementOfSeq
  <2>3. \A i \in 1 .. Len(frames) : [frame |-> frames[i], is_last |-> i = Len(frames)] \in Item
    <3>1. \A i \in 1 .. Len(frames) : (i = Len(frames)) \in BOOLEAN
      OBVIOUS
    <3> QED BY <2>2, <3>1 DEF Item
  <2>4. body \in [1 .. Len(frames) -> Item]
    BY <2>3
  <2> HIDE DEF body
  <2> QED BY <2>1, <2>4, SeqDef
<1>3. BoxItems(boxes) \in Seq(Item)
  <2>1. Len(boxes) \in Nat
    BY LenProperties
  <2>2. \A i \in 1 .. Len(boxes) : boxes[i] \in Box
    BY ElementOfSeq
  <2>3. \A i \in 1 .. Len(boxes) : [box |-> boxes[i]] \in Item
    BY <2>2 DEF Item
  <2>4. BoxItems(boxes) \in [1 .. Len(boxes) -> Item]
    BY <2>3 DEF BoxItems
  <2> QED BY <2>1, <2>4, SeqDef
<1>4. Signature \in Seq(Item)
  BY DEF Signature, Item
<1>5. code = head \o body
  BY DEF Codestream
<1> HIDE DEF head, body, code
<1>6. code \in Seq(Item) /\ code # <<>>
  BY <1>1, <1>2, <1>5, ConcatProperties, ConcatEqualIffEmpty
<1>7. Signature \o BoxItems(boxes) \in Seq(Item)
  BY <1>3, <1>4, ConcatProperties
<1>8. /\ (Signature \o BoxItems(boxes)) \o code \in Seq(Item)
      /\ (Signature \o BoxItems(boxes)) \o code # <<>>
  BY <1>6, <1>7, ConcatProperties, ConcatEqualIffEmpty
<1> QED BY <1>6, <1>8 DEF WholeFile, BareFile, code

\* What the encoder core accepts becomes a file.
LEMMA AcceptedIsFile ==
  ASSUME TypeOK, QueueInv, FramesInv, EncoderAccepts
  PROVE  LET whole == WholeFile(ImageHeader, staged_boxes, queued_frames)
             bare == BareFile(ImageHeader, queued_frames)
         IN  /\ whole \in Seq(Item) /\ whole # <<>>
             /\ bare \in Seq(Item) /\ bare # <<>>
<1>1. queued_frames # <<>>
  BY DEF EncoderAccepts, Encodable
<1>2. submitted # <<>>
  BY <1>1, PendingIsFrames, ConcatEqualIffEmpty DEF TypeOK, QueueInv, QueueFollowsCalls
<1>3. ImageHeader \in Described
  BY <1>2, HeaderIsDescribed DEF FramesInv, EncoderAccepts
<1> QED BY <1>3, FilesAreItems DEF TypeOK

\* A file is there only when nothing was pending, so that all is queued.
LEMMA ClosedIsQueued ==
  ASSUME TypeOK, QueueInv, CloseInv, Closed
  PROVE  queued_frames = submitted /\ frames_closed
<1>1. frames_closed /\ Pending = <<>>
  BY DEF Closed, CloseInv, Pending
<1> QED BY <1>1, ConcatEmptySeq DEF TypeOK, QueueInv, QueueFollowsCalls

LEMMA FileStep ==
  ASSUME TypeOK, QueueInv, CloseInv, FileInv, Next
  PROVE  FileInv'
<1>1. ASSUME ~started_processing, UNCHANGED encoded_bytes
      PROVE  FileInv'
  BY <1>1 DEF FileInv
<1>2. ASSUME UNCHANGED <<encoded_bytes, settingVars, use_boxes, staged_boxes, queued_frames>>,
             started_processing => started_processing', Closed => Closed'
      PROVE  FileInv'
  BY <1>2 DEF FileInv, EncoderAccepts, TooManyChannels, ImageHeader, settingVars
<1>3. ASSUME Closed, EncoderAccepts, started_processing',
             UNCHANGED <<settingVars, boxVars, closeVars, queueVars>>,
             \/ encoded_bytes' = WholeFile(ImageHeader, staged_boxes, queued_frames)
             \/ "wrap" \in Failures /\ encoded_bytes' = BareFile(ImageHeader, queued_frames)
      PROVE  FileInv'
  <2>1. Closed'
    BY <1>3 DEF Closed, boxVars, closeVars, queueVars
  <2>2. UNCHANGED <<ImageHeader, EncoderAccepts, staged_boxes, queued_frames>>
    BY <1>3 DEF ImageHeader, EncoderAccepts, TooManyChannels, settingVars, boxVars, queueVars
  <2>3. EncoderAccepts'
    BY <1>3, <2>2
  <2> QED BY <1>3, <2>1, <2>2, <2>3 DEF FileInv
<1>4. CASE ImageCall \/ BoxCall
  BY <1>1, <1>4, ImageCallLeaves, BoxCallLeaves DEF SettingsOpen, outputVars
<1>5. CASE HeaderCall
  BY <1>2, <1>5, HeaderCallLeaves DEF Closed, outputVars, boxVars, closeVars, queueVars
<1>6. CASE Reset
  BY <1>6 DEF Reset, FileInv
<1>7. CASE QueueCall
  <2>1. UNCHANGED encoded_bytes
    BY <1>7, QueueCallLeaves DEF outputVars
  <2>2. CASE ~started_processing
    BY <1>1, <2>1, <2>2
  <2>3. CASE started_processing
    <3>1. CloseInput
      BY <1>7, <2>3 DEF QueueCall, AddImageFrame, AddImageFrameFails, MayAdd,
         SetExtraChannelBuffer, MaySetPlane, CloseFrames
    <3>2. CASE ~Closed
      BY <2>1, <3>2 DEF FileInv
    <3>3. CASE Closed
      <4>1. frames_closed /\ frames_closed'
        BY <3>1, <3>3, ClosedIsQueued DEF CloseInput
      <4>2. UNCHANGED <<queued_frames, settingVars>>
        BY <4>1, ClosedLeavesFrames
      <4>3. Closed'
        BY <3>1, <3>3 DEF Closed, CloseInput, QueueLastFrame
      <4>4. UNCHANGED <<started_processing, use_boxes, staged_boxes>>
        BY <1>7, QueueCallLeaves
      <4> QED BY <1>2, <2>1, <4>2, <4>3, <4>4
    <3> QED BY <3>2, <3>3
  <2> QED BY <2>2, <2>3
<1>8. CASE ProcessEarly \/ FinalizeFails \/ FinalizeUndefined \/ IndexPastChannels
  <2>1. UNCHANGED encoded_bytes
    BY <1>8 DEF ProcessEarly, FinalizeFails, FinalizeUndefined, IndexPastChannels, Finalizing, outputVars
  <2>2. /\ started_processing'
        /\ UNCHANGED <<settingVars, boxVars, closeVars, queueVars>>
    BY <1>8, OutputLeaves DEF FailedOutput
  <2> QED BY <1>2, <2>1, <2>2 DEF Closed, boxVars, closeVars, queueVars
<1>9. CASE WrapFails
  BY <1>3, <1>9, OutputLeaves DEF FailedOutput, WrapFails, Finalizing
<1>10. CASE HandOutStep
  <2>1. PICK room \in Rooms : FinalizeAndHandOut(room) \/ Continue(room)
    BY <1>10 DEF HandOutStep
  <2>2. /\ started_processing'
        /\ UNCHANGED <<settingVars, boxVars, closeVars, queueVars>>
    BY <1>10, OutputLeaves
  <2>3. CASE FinalizeAndHandOut(room)
    BY <1>3, <2>2, <2>3 DEF FinalizeAndHandOut, Finalizing, HandOut
  <2>4. CASE Continue(room)
    <3>1. encoded_bytes # <<>> /\ encoded_bytes' = encoded_bytes
      BY <2>4 DEF Continue, HandOut
    <3> QED BY <1>3, <2>2, <3>1 DEF FileInv
  <2> QED BY <2>1, <2>3, <2>4
<1> QED BY <1>4, <1>5, <1>6, <1>7, <1>8, <1>9, <1>10, StepKinds DEF FailedOutput

-----------------------------------------------------------------------------
(* Handing out.                                                            *)

\* One piece of a file more.
LEMMA HandOutMoves ==
  ASSUME NEW bytes \in Seq(Item), NEW room \in Nat, output_offset \in 0 .. Len(bytes),
         collected = SubSeq(bytes, 1, output_offset), HandOut(bytes, room)
  PROVE  /\ encoded_bytes' = bytes
         /\ output_offset' \in output_offset .. Len(bytes)
         /\ output_offset' \in 0 .. Len(bytes)
         /\ collected' = SubSeq(bytes, 1, output_offset')
         /\ status' = IF output_offset' = Len(bytes) THEN "SUCCESS" ELSE "NEED_MORE_OUTPUT"
<1> DEFINE left == Len(bytes) - output_offset
           n == IF left < room THEN left ELSE room
<1>1. Len(bytes) \in Nat
  BY LenProperties
<1>2. n \in 0 .. left /\ left \in Nat
  BY <1>1
<1>3. /\ encoded_bytes' = bytes
      /\ output_offset' = output_offset + n
      /\ collected' = collected \o SubSeq(bytes, output_offset + 1, output_offset + n)
      /\ status' = IF n = left THEN "SUCCESS" ELSE "NEED_MORE_OUTPUT"
  BY DEF HandOut, Returns
<1> HIDE DEF n
<1>4. output_offset' \in output_offset .. Len(bytes) /\ output_offset' \in 0 .. Len(bytes)
  BY <1>1, <1>2, <1>3
<1>5. SubSeq(bytes, 1, output_offset) \o SubSeq(bytes, output_offset + 1, output_offset')
        = SubSeq(bytes, 1, output_offset')
  <2>1. /\ 1 \in 1 .. Len(bytes) + 1
        /\ output_offset \in 1 - 1 .. Len(bytes)
        /\ output_offset' \in output_offset .. Len(bytes)
    BY <1>1, <1>4
  <2> QED BY <2>1, ConcatAdjacentSubSeq
<1>6. n = left <=> output_offset' = Len(bytes)
  BY <1>1, <1>2, <1>3
<1> QED BY <1>3, <1>4, <1>5, <1>6

\* What is there to hand out is a file, and what was taken is its beginning.
LEMMA HandsOutFile ==
  ASSUME Inductive, HandOutStep
  PROVE  \E bytes \in Seq(Item), room \in Nat :
           /\ HandOut(bytes, room) /\ bytes # <<>>
           /\ encoded_bytes # <<>> => encoded_bytes = bytes
           /\ output_offset \in 0 .. Len(bytes)
           /\ collected = SubSeq(bytes, 1, output_offset)
<1> USE DEF Inductive
<1>1. PICK room \in Rooms : FinalizeAndHandOut(room) \/ Continue(room)
  BY DEF HandOutStep
<1>2. room \in Nat
  BY EncoderAssumption
<1>3. CASE FinalizeAndHandOut(room)
  <2> DEFINE bytes == WholeFile(ImageHeader, staged_boxes, queued_frames)
  <2>1. bytes \in Seq(Item) /\ bytes # <<>>
    BY <1>3, AcceptedIsFile DEF FinalizeAndHandOut, Finalizing
  <2>2. HandOut(bytes, room) /\ encoded_bytes = <<>>
    BY <1>3 DEF FinalizeAndHandOut, Finalizing
  <2> HIDE DEF bytes
  <2>3. output_offset = 0 /\ output_offset \in 0 .. Len(bytes)
    BY <2>1, <2>2, EmptySeq, LenProperties DEF TypeOK
  <2>4. collected = SubSeq(bytes, 1, output_offset)
    BY <2>2, <2>3, SubSeqEmpty DEF OffsetInv
  <2> QED BY <1>2, <2>1, <2>2, <2>3, <2>4
<1>4. CASE Continue(room)
  BY <1>2, <1>4 DEF Continue, BytesInv, TypeOK, OffsetInv
<1> QED BY <1>1, <1>3, <1>4

\* The output: the bytes made, how many are out, and what the last attempt
\* returned.
OutputTyped ==
  /\ BytesInv
  /\ output_offset \in 0 .. Len(encoded_bytes)
  /\ status \in {"IDLE", "SUCCESS", "ERROR", "NEED_MORE_OUTPUT", "UNDEFINED"}

LEMMA OutputStep ==
  ASSUME Inductive, Next
  PROVE  OutputTyped' /\ OffsetInv'
<1>0. OutputTyped /\ OffsetInv
  BY DEF Inductive, OutputTyped, TypeOK
<1>1. ASSUME UNCHANGED <<status, outputVars>>
      PROVE  OutputTyped' /\ OffsetInv'
  BY <1>0, <1>1 DEF OutputTyped, OffsetInv, BytesInv, outputVars
<1>2. ASSUME UNCHANGED outputVars, status' \in {"ERROR", "UNDEFINED"}
      PROVE  OutputTyped' /\ OffsetInv'
  BY <1>0, <1>2 DEF OutputTyped, OffsetInv, BytesInv, outputVars
<1>3. CASE ImageCall \/ BoxCall \/ HeaderCall \/ QueueCall
  BY <1>1, <1>3, ImageCallLeaves, BoxCallLeaves, HeaderCallLeaves, QueueCallLeaves
<1>4. CASE ProcessEarly \/ FinalizeFails \/ FinalizeUndefined \/ IndexPastChannels
  BY <1>2, <1>4 DEF ProcessEarly, FinalizeFails, FinalizeUndefined, IndexPastChannels, Finalizing, Returns
<1>5. CASE WrapFails
  <2> DEFINE bare == BareFile(ImageHeader, queued_frames)
  <2>1. /\ encoded_bytes = <<>> /\ encoded_bytes' = bare /\ status' = "ERROR"
        /\ UNCHANGED <<output_offset, collected>>
    BY <1>5 DEF WrapFails, Finalizing, Returns
  <2>2. bare \in Seq(Item) /\ bare # <<>>
    BY <1>5, AcceptedIsFile DEF WrapFails, Finalizing, Inductive
  <2> HIDE DEF bare
  <2>3. output_offset = 0 /\ 0 \in 0 .. Len(bare)
    BY <2>1, <2>2, EmptySeq, LenProperties DEF Inductive, TypeOK
  <2>4. collected = <<>> /\ SubSeq(bare, 1, 0) = <<>>
    BY <1>0, <2>1, <2>3, SubSeqEmpty DEF OffsetInv
  <2>5. <<>> \in Seq(Item)
    BY EmptySeq
  <2> QED BY <2>1, <2>2, <2>3, <2>4, <2>5 DEF OutputTyped, OffsetInv, BytesInv
<1>6. CASE HandOutStep
  <2>1. PICK bytes \in Seq(Item), room \in Nat :
           /\ HandOut(bytes, room) /\ bytes # <<>>
           /\ encoded_bytes # <<>> => encoded_bytes = bytes
           /\ output_offset \in 0 .. Len(bytes)
           /\ collected = SubSeq(bytes, 1, output_offset)
    BY <1>6, HandsOutFile
  <2>2. /\ encoded_bytes' = bytes
        /\ output_offset' \in 0 .. Len(bytes)
        /\ collected' = SubSeq(bytes, 1, output_offset')
        /\ status' = IF output_offset' = Len(bytes) THEN "SUCCESS" ELSE "NEED_MORE_OUTPUT"
    BY <2>1, HandOutMoves
  <2>3. Len(bytes) \in Nat
    BY LenProperties
  <2>4. 1 \in Int /\ output_offset' \in Int /\ \A i \in 1 .. output_offset' : bytes[i] \in Item
    BY <2>2, <2>3, ElementOfSeq
  <2>5. collected' \in Seq(Item)
    BY <2>2, <2>4, SubSeqProperties
  <2> QED BY <2>1, <2>2, <2>5 DEF OutputTyped, OffsetInv, BytesInv
<1>7. CASE Reset
  <2>1. /\ status' = "IDLE" /\ encoded_bytes' = <<>> /\ output_offset' = 0
        /\ collected' = <<>>
    BY <1>7 DEF Reset
  <2>2. <<>> \in Seq(Item) /\ 0 \in 0 .. Len(<<>>) /\ SubSeq(<<>>, 1, 0) = <<>>
    BY EmptySeq, SubSeqEmpty
  <2> QED BY <2>1, <2>2 DEF OutputTyped, OffsetInv, BytesInv
<1> QED BY <1>3, <1>4, <1>5, <1>6, <1>7, StepKinds DEF FailedOutput

-----------------------------------------------------------------------------
(* The types of what the client set.                                       *)

SettingTyped ==
  /\ basic_info \in BasicInfo \cup {NoInfo}
  /\ color \in Color \cup {NoColor}
  /\ owned_icc \in Profile \cup {NoProfile}
  /\ extras \in [Channel -> ExtraInfo \cup {NoExtra}]

LEMMA SettingStep ==
  ASSUME TypeOK, Next
  PROVE  SettingTyped'
<1>0. SettingTyped
  BY DEF TypeOK, SettingTyped
<1>1. ASSUME UNCHANGED settingVars
      PROVE  SettingTyped'
  BY <1>0, <1>1 DEF SettingTyped, settingVars
<1>2. ASSUME NEW info \in Infos, SetBasicInfo(info)
      PROVE  SettingTyped'
  BY <1>0, <1>2, EncoderAssumption DEF SetBasicInfo, SettingTyped
<1>3. ASSUME NEW c \in Colors, SetColorEncoding(c)
      PROVE  SettingTyped'
  BY <1>0, <1>3, EncoderAssumption DEF SetColorEncoding, SettingTyped
<1>4. ASSUME NEW p \in Profiles, SetICCProfile(p)
      PROVE  SettingTyped'
  <2>1. p \in Profile /\ p.channels \in {1, 3}
    BY EncoderAssumption DEF Profile
  <2>2. [icc |-> TRUE, channels |-> p.channels] \in Color
    BY <2>1 DEF Color
  <2> QED BY <1>0, <1>4, <2>1, <2>2 DEF SetICCProfile, SettingTyped
<1>5. ASSUME NEW c \in Channel, NEW info \in ExtraInfos, SetExtraChannelInfo(c, info)
      PROVE  SettingTyped'
  <2> DEFINE named == extras[c] # NoExtra /\ extras[c].named
             new == [info EXCEPT !.named = named]
  <2>1. info \in ExtraInfo /\ extras[c] \in ExtraInfo \cup {NoExtra}
    BY <1>0, EncoderAssumption DEF SettingTyped
  <2>2. named \in BOOLEAN
    OBVIOUS
  <2> HIDE DEF named
  <2>3. new \in ExtraInfo
    BY <2>1, <2>2 DEF ExtraInfo
  <2>4. /\ extras' = [extras EXCEPT ![c] = new]
        /\ UNCHANGED <<basic_info, color, owned_icc>>
    BY <1>5 DEF SetExtraChannelInfo, named
  <2> HIDE DEF new
  <2> QED BY <1>0, <2>3, <2>4 DEF SettingTyped
<1>6. ASSUME NEW c \in Channel, NEW b \in BOOLEAN, SetExtraChannelName(c, b)
      PROVE  SettingTyped'
  <2> DEFINE new == [extras[c] EXCEPT !.named = b]
  <2>1. extras[c] \in ExtraInfo
    BY <1>0, <1>6 DEF SettingTyped, SetExtraChannelName
  <2>2. new \in ExtraInfo
    BY <2>1 DEF ExtraInfo
  <2>3. /\ extras' = [extras EXCEPT ![c] = new]
        /\ UNCHANGED <<basic_info, color, owned_icc>>
    BY <1>0, <1>6 DEF SetExtraChannelName, SettingTyped
  <2> HIDE DEF new
  <2> QED BY <1>0, <2>2, <2>3 DEF SettingTyped
<1>7. CASE ImageCall
  BY <1>2, <1>3, <1>4, <1>5, <1>6, <1>7 DEF ImageCall
<1>8. CASE BoxCall \/ HeaderCall \/ QueueCall \/ FailedOutput \/ HandOutStep
  BY <1>1, <1>8, BoxCallLeaves, HeaderCallLeaves, QueueCallLeaves, OutputLeaves
<1>9. CASE Reset
  BY <1>9 DEF Reset, SettingTyped
<1> QED BY <1>7, <1>8, <1>9, StepKinds

FlagsTyped ==
  /\ started_processing \in BOOLEAN
  /\ use_boxes \in BOOLEAN /\ boxes_closed \in BOOLEAN
  /\ frames_closed \in BOOLEAN /\ input_closed \in BOOLEAN

LEMMA FlagsStep ==
  ASSUME TypeOK, Next
  PROVE  FlagsTyped'
<1>0. FlagsTyped
  BY DEF TypeOK, FlagsTyped
<1>1. CASE ImageCall \/ HeaderCall
  BY <1>0, <1>1, ImageCallLeaves, HeaderCallLeaves DEF FlagsTyped, boxVars, closeVars
<1>2. CASE BoxCall
  <2>1. use_boxes' \in BOOLEAN
    BY <1>0, <1>2 DEF BoxCall, UseBoxes, AddBox, CloseBoxes, FlagsTyped
  <2>2. boxes_closed' \in BOOLEAN
    BY <1>0, <1>2 DEF BoxCall, UseBoxes, AddBox, CloseBoxes, FlagsTyped
  <2> QED BY <1>0, <1>2, <2>1, <2>2, BoxCallLeaves DEF FlagsTyped, closeVars
<1>3. CASE QueueCall
  <2>1. boxes_closed' \in BOOLEAN
    BY <1>0, <1>3 DEF QueueCall, AddImageFrame, AddImageFrameFails, SetExtraChannelBuffer,
       CloseFrames, CloseInput, FlagsTyped, boxVars
  <2>2. frames_closed' \in BOOLEAN
    BY <1>0, <1>3 DEF QueueCall, AddImageFrame, AddImageFrameFails, SetExtraChannelBuffer,
       CloseFrames, CloseInput, FlagsTyped, closeVars
  <2>3. input_closed' \in BOOLEAN
    BY <1>0, <1>3 DEF QueueCall, AddImageFrame, AddImageFrameFails, SetExtraChannelBuffer,
       CloseFrames, CloseInput, FlagsTyped, closeVars
  <2> QED BY <1>0, <1>3, <2>1, <2>2, <2>3, QueueCallLeaves DEF FlagsTyped
<1>4. CASE FailedOutput \/ HandOutStep
  <2>1. started_processing' \in BOOLEAN
    BY <1>4 DEF FailedOutput, HandOutStep, ProcessEarly, FinalizeFails, FinalizeUndefined, Finalizing,
       WrapFails, IndexPastChannels, FinalizeAndHandOut, Continue, HandOut, Returns
  <2> QED BY <1>0, <1>4, <2>1, OutputLeaves DEF FlagsTyped, boxVars, closeVars
<1>5. CASE Reset
  BY <1>5 DEF Reset, FlagsTyped
<1> QED BY <1>1, <1>2, <1>3, <1>4, <1>5, StepKinds

LEMMA HeadersStep ==
  ASSUME TypeOK, Next
  PROVE  frame_settings' \in [SettingsIds -> Nat \cup {NoHeader, Absent}]
<1>0. frame_settings \in [SettingsIds -> Nat \cup {NoHeader, Absent}]
  BY DEF TypeOK
<1>1. CASE HeaderCall
  BY <1>0, <1>1, EncoderAssumption DEF HeaderCall, FrameSettingsCreate, SetFrameHeader
<1>2. CASE ImageCall \/ BoxCall \/ QueueCall \/ FailedOutput \/ HandOutStep
  BY <1>0, <1>2, ImageCallLeaves, BoxCallLeaves, QueueCallLeaves, OutputLeaves
<1>3. CASE Reset
  BY <1>3 DEF Reset
<1> QED BY <1>1, <1>2, <1>3, StepKinds

LEMMA StagedStep ==
  ASSUME TypeOK, Next
  PROVE  staged_boxes' \in Seq(Box)
<1>0. staged_boxes \in Seq(Box)
  BY DEF TypeOK
<1>1. CASE BoxCall
  <2>1. ASSUME NEW n \in Names, NEW brob \in BOOLEAN, AddBox([name |-> n, brob |-> brob])
        PROVE  staged_boxes' \in Seq(Box)
    <3>1. [name |-> n, brob |-> brob] \in Box
      BY DEF Box
    <3> QED BY <1>0, <2>1, <3>1 DEF AddBox
  <2> QED BY <1>0, <1>1, <2>1 DEF BoxCall, UseBoxes, CloseBoxes
<1>2. CASE ImageCall \/ HeaderCall \/ QueueCall \/ FailedOutput \/ HandOutStep
  BY <1>0, <1>2, ImageCallLeaves, HeaderCallLeaves, QueueCallLeaves, OutputLeaves DEF boxVars
<1>3. CASE Reset
  BY <1>3, EmptySeq DEF Reset
<1> QED BY <1>1, <1>2, <1>3, StepKinds

-----------------------------------------------------------------------------
(* The theorems.                                                           *)

LEMMA InitInductive ==
  ASSUME Init
  PROVE  Inductive
<1>1. /\ status = "IDLE" /\ started_processing = FALSE /\ basic_info = NoInfo
      /\ color = NoColor /\ owned_icc = NoProfile
      /\ extras = [c \in Channel |-> NoExtra]
      /\ frame_settings = [s \in SettingsIds |-> Absent]
      /\ use_boxes = FALSE /\ boxes_closed = FALSE /\ staged_boxes = <<>>
      /\ frames_closed = FALSE /\ input_closed = FALSE
      /\ encoded_bytes = <<>> /\ output_offset = 0 /\ collected = <<>>
      /\ image = NoImage /\ planes = Unset /\ queued_frames = <<>>
      /\ added_frame = FALSE /\ submitted = <<>>
  BY DEF Init, QueueInit
<1>2. /\ started_processing \in BOOLEAN /\ added_frame \in BOOLEAN
      /\ use_boxes \in BOOLEAN /\ boxes_closed \in BOOLEAN
      /\ frames_closed \in BOOLEAN /\ input_closed \in BOOLEAN
  BY <1>1
<1>3. /\ <<>> \in Seq(Box) /\ <<>> \in Seq(Frame) /\ <<>> \in Seq(Item)
      /\ Len(<<>>) = 0
  BY EmptySeq
<1>4. TypeOK
  BY <1>1, <1>2, <1>3, PlanesExist DEF TypeOK
<1>5. BytesInv
  BY <1>1, <1>3 DEF BytesInv
<1>6. Pending = <<>> /\ <<>> \o <<>> = <<>>
  BY <1>1, EmptySeq, ConcatEmptySeq DEF Pending
<1>7. QueueInv
  BY <1>1, <1>6 DEF QueueInv, QueueFollowsCalls
<1>8. CloseInv /\ FramesInv /\ FileInv
  BY <1>1, <1>3 DEF CloseInv, FramesInv, FileInv
<1>9. OffsetInv
  BY <1>1, SubSeqEmpty DEF OffsetInv
<1> QED BY <1>4, <1>5, <1>7, <1>8, <1>9 DEF Inductive

LEMMA InductiveStep ==
  ASSUME Inductive, [Next]_vars
  PROVE  Inductive'
<1>1. CASE Next
  <2>1. TypeOK /\ QueueInv /\ CloseInv /\ FramesInv /\ FileInv
    BY DEF Inductive
  <2>2. QueueTyped' /\ QueueInv'
    BY <1>1, <2>1, QueueStep
  <2>3. CloseInv' /\ FramesInv' /\ FileInv'
    BY <1>1, <2>1, CloseStep, FramesStep, FileStep
  <2>4. OutputTyped' /\ OffsetInv'
    BY <1>1, OutputStep
  <2>5. /\ SettingTyped' /\ FlagsTyped'
        /\ frame_settings' \in [SettingsIds -> Nat \cup {NoHeader, Absent}]
        /\ staged_boxes' \in Seq(Box)
    BY <1>1, <2>1, SettingStep, FlagsStep, HeadersStep, StagedStep
  <2>6. TypeOK'
    BY <2>2, <2>4, <2>5 DEF TypeOK, QueueTyped, OutputTyped, SettingTyped, FlagsTyped
  <2> QED BY <2>2, <2>3, <2>4, <2>6 DEF Inductive, OutputTyped
<1>2. CASE UNCHANGED vars
  <2> USE <1>2 DEF vars, settingVars, boxVars, closeVars, outputVars, queueVars
  <2>1. TypeOK' /\ BytesInv'
    BY DEF Inductive, TypeOK, BytesInv
  <2>2. QueueInv' /\ CloseInv' /\ FramesInv'
    BY DEF Inductive, QueueInv, QueueFollowsCalls, Pending, CloseInv, FramesInv
  <2>3. FileInv' /\ OffsetInv'
    BY DEF Inductive, FileInv, OffsetInv, Closed, EncoderAccepts, TooManyChannels, ImageHeader
  <2> QED BY <2>1, <2>2, <2>3 DEF Inductive
<1> QED BY <1>1, <1>2

\* The parts of the invariant hold together in every reachable state.
THEOREM InductiveHolds == Spec => []Inductive
<1>1. Init => Inductive
  BY InitInductive
<1>2. Inductive /\ [Next]_vars => Inductive'
  BY InductiveStep
<1> QED BY <1>1, <1>2, PTL DEF Spec

\* TypeOK: every field of EncoderImpl keeps its type, and the offset into the
\* encoded bytes stays inside them, whatever the client sets and calls.
THEOREM EncoderTypes == Spec => []TypeOK
<1>1. Inductive => TypeOK
  BY DEF Inductive
<1> QED BY <1>1, InductiveHolds, PTL

\* QueueFollowsCalls: what is queued and pending is what the client was told
\* is in, frame by frame and plane by plane, through failing copies.
THEOREM FramesAsSubmitted == Spec => []QueueFollowsCalls
<1>1. Inductive => QueueFollowsCalls
  BY DEF Inductive, QueueInv
<1> QED BY <1>1, InductiveHolds, PTL

\* ClosedIsClosed: nothing is added or changed behind the calls that close
\* frames and input.
THEOREM NothingAfterClose == Spec => ClosedIsClosed
<1> DEFINE Kept ==
      /\ frames_closed /\ frames_closed' =>
           UNCHANGED <<submitted, queued_frames, basic_info, color, owned_icc, extras>>
      /\ input_closed /\ added_frame /\ input_closed' => UNCHANGED staged_boxes
<1>1. Inductive /\ [Next]_vars => [Kept]_vars
  <2> SUFFICES ASSUME Inductive, Next PROVE Kept
    OBVIOUS
  <2>1. TypeOK /\ QueueInv /\ CloseInv
    BY DEF Inductive
  <2> QED BY <2>1, ClosedLeavesFrames, ClosedLeavesBoxes DEF settingVars
<1> QED BY <1>1, InductiveHolds, PTL DEF Spec, ClosedIsClosed

\* NoMixedSettings: a file is only made of settings that belong together,
\* whatever was set, set again and contradicted before.
THEOREM SettingsAgree == Spec => []NoMixedSettings
<1>1. ASSUME Inductive, encoded_bytes # <<>>
      PROVE  /\ color.channels = basic_info.channels
             /\ color.icc = (owned_icc # NoProfile)
             /\ \A c \in 0 .. basic_info.extras - 1 :
                  extras[c] # NoExtra => (extras[c].kind = "alpha" <=> basic_info.alpha /\ c = 0)
             /\ \A i \in 1 .. Len(queued_frames) :
                  queued_frames[i].duration > 0 => basic_info.animated
  <2>1. TypeOK /\ QueueInv /\ CloseInv /\ FramesInv /\ Closed /\ EncoderAccepts
    BY <1>1 DEF Inductive, FileInv
  <2>2. /\ AlphaInfoFits(basic_info, extras)
        /\ \A c \in SideChannels(basic_info) : extras[c].kind # "alpha"
        /\ color.channels = basic_info.channels
        /\ color.icc = (owned_icc # NoProfile)
    BY <2>1 DEF EncoderAccepts, Encodable, ImageHeader, Header
  <2>3. queued_frames = submitted
    BY <2>1, ClosedIsQueued
  <2>4. queued_frames # <<>>
    BY <2>1 DEF EncoderAccepts, Encodable
  <2>5. basic_info.extras \in Nat
    BY <2>1, <2>3, <2>4, EncoderAssumption DEF FramesInv, TypeOK, BasicInfo
  <2>7. basic_info # NoInfo
    BY <2>1, <2>3, <2>4 DEF FramesInv
  <2>6. ASSUME NEW c \in 0 .. basic_info.extras - 1, extras[c] # NoExtra
        PROVE  extras[c].kind = "alpha" <=> basic_info.alpha /\ c = 0
    <3>1. CASE basic_info.alpha /\ c = 0
      BY <2>2, <2>6, <3>1 DEF AlphaInfoFits
    <3>2. CASE ~(basic_info.alpha /\ c = 0)
      <4>1. c \in Channel /\ c < basic_info.extras
        BY <2>1, <2>5, <2>7, EncoderAssumption DEF Channel, EncoderAccepts, TooManyChannels
      <4> QED BY <2>2, <3>2, <4>1, EncoderAssumption DEF SideChannels, Channel
    <3> QED BY <3>1, <3>2
  <2> QED BY <2>1, <2>2, <2>3, <2>6 DEF FramesInv
<1>2. Inductive => NoMixedSettings
  BY <1>1 DEF NoMixedSettings
<1> QED BY <1>2, InductiveHolds, PTL

\* OutputHoldsSubmission: a client told JXL_ENC_SUCCESS holds all it submitted;
\* boxes can be missing only where wrapping them may fail.
THEOREM SuccessHoldsSubmission == Spec => []OutputHoldsSubmission
<1>1. ASSUME Inductive, status = "SUCCESS"
      PROVE  /\ \/ collected = WholeFile(ImageHeader, staged_boxes, submitted)
                \/ "wrap" \in Failures /\ collected = BareFile(ImageHeader, submitted)
             /\ \A i \in 1 .. Len(submitted), c \in 0 .. basic_info.extras - 1 :
                  submitted[i].planes[c] # LostPlane
  <2>1. /\ encoded_bytes # <<>> /\ output_offset = Len(encoded_bytes)
        /\ collected = SubSeq(encoded_bytes, 1, output_offset)
        /\ encoded_bytes \in Seq(Item)
    BY <1>1 DEF Inductive, OffsetInv, BytesInv
  <2>2. collected = encoded_bytes
    BY <2>1, SubSeqFull
  <2>3. TypeOK /\ QueueInv /\ CloseInv /\ Closed /\ EncoderAccepts
    BY <1>1, <2>1 DEF Inductive, FileInv
  <2>4. queued_frames = submitted
    BY <2>3, ClosedIsQueued
  <2>5. \/ encoded_bytes = WholeFile(ImageHeader, staged_boxes, queued_frames)
        \/ "wrap" \in Failures /\ encoded_bytes = BareFile(ImageHeader, queued_frames)
    BY <1>1, <2>1 DEF Inductive, FileInv
  <2>6. \A i \in 1 .. Len(queued_frames), c \in 0 .. basic_info.extras - 1 :
          queued_frames[i].planes[c] # LostPlane
    BY <2>3 DEF EncoderAccepts, Encodable, ImageHeader, Header
  <2> QED BY <2>2, <2>4, <2>5, <2>6
<1>2. Inductive => OutputHoldsSubmission
  BY <1>1 DEF OutputHoldsSubmission
<1> QED BY <1>2, InductiveHolds, PTL

\* A beginning of a beginning is a beginning.
LEMMA Prefixes ==
  ASSUME NEW bytes \in Seq(Item), NEW m \in 0 .. Len(bytes), NEW n \in m .. Len(bytes)
  PROVE  /\ Stream!IsPrefix(SubSeq(bytes, 1, m), SubSeq(bytes, 1, n))
         /\ Stream!IsPrefix(SubSeq(bytes, 1, n), bytes)
         /\ SubSeq(bytes, 1, n) = bytes <=> n = Len(bytes)
<1>1. Len(bytes) \in Nat
  BY LenProperties
<1>2. \A k \in 0 .. Len(bytes) :
        /\ SubSeq(bytes, 1, k) \in Seq(Item)
        /\ Len(SubSeq(bytes, 1, k)) = k
        /\ \A i \in 1 .. k : SubSeq(bytes, 1, k)[i] = bytes[i]
  <2>1. SUFFICES ASSUME NEW k \in 0 .. Len(bytes)
                 PROVE  /\ SubSeq(bytes, 1, k) \in Seq(Item)
                        /\ Len(SubSeq(bytes, 1, k)) = k
                        /\ \A i \in 1 .. k : SubSeq(bytes, 1, k)[i] = bytes[i]
    OBVIOUS
  <2>2. 1 \in Int /\ k \in Int /\ \A i \in 1 .. k : bytes[i] \in Item
    BY <1>1, ElementOfSeq
  <2>3. /\ SubSeq(bytes, 1, k) \in Seq(Item)
        /\ Len(SubSeq(bytes, 1, k)) = IF 1 <= k THEN k - 1 + 1 ELSE 0
        /\ \A i \in 1 .. k - 1 + 1 : SubSeq(bytes, 1, k)[i] = bytes[1 + i - 1]
    BY <2>2, SubSeqProperties
  <2> QED BY <2>3, <1>1
<1>3. \A s, t \in Seq(Item) : Len(s) = m /\ m <= Len(t)
         /\ (\A i \in 1 .. m : s[i] = t[i]) => SubSeq(s, 1, m) = SubSeq(t, 1, m)
  OBVIOUS
<1>4. \A s, t \in Seq(Item) : Len(s) = n /\ n <= Len(t)
         /\ (\A i \in 1 .. n : s[i] = t[i]) => SubSeq(s, 1, n) = SubSeq(t, 1, n)
  OBVIOUS
<1>5. m \in 0 .. Len(bytes) /\ n \in 0 .. Len(bytes) /\ m <= n /\ n <= Len(bytes)
  BY <1>1
<1>6. SubSeq(bytes, 1, n) = bytes <=> n = Len(bytes)
  BY <1>2, <1>5, SubSeqFull
<1> QED BY <1>2, <1>3, <1>4, <1>5, <1>6 DEF Stream!IsPrefix

\* Every attempt refuses, makes the file or reads on in it; every other call
\* leaves the stream alone or discards it.
LEMMA StreamStep ==
  ASSUME Inductive, Next, "plane" \notin Failures, ~TooManyChannels
  PROVE  Stream!Next \/ UNCHANGED <<encoded_bytes, collected, status>>
<1>0. TypeOK /\ QueueInv /\ CloseInv /\ FramesInv /\ FileInv /\ OffsetInv
  BY DEF Inductive
<1>1. CASE ImageCall \/ BoxCall \/ HeaderCall \/ QueueCall
  BY <1>1, ImageCallLeaves, BoxCallLeaves, HeaderCallLeaves, QueueCallLeaves DEF outputVars
<1>2. CASE Reset
  BY <1>2 DEF Reset, Stream!Next, Stream!Discard
<1>3. CASE ProcessEarly \/ FinalizeFails
  <2>1. encoded_bytes = <<>>
    BY <1>0, <1>3 DEF ProcessEarly, FinalizeFails, Finalizing, FileInv
  <2>2. status' = "ERROR" /\ UNCHANGED <<encoded_bytes, collected>>
    BY <1>3 DEF ProcessEarly, FinalizeFails, Finalizing, Returns, outputVars
  <2> QED BY <2>1, <2>2 DEF Stream!Next, Stream!Refuse
<1>4. ~FinalizeUndefined /\ ~IndexPastChannels
  <2> SUFFICES ASSUME FinalizeUndefined PROVE FALSE
    BY DEF IndexPastChannels
  <2>1. queued_frames = submitted
    BY <1>0, ClosedIsQueued DEF FinalizeUndefined, Finalizing
  <2>2. \E i \in 1 .. Len(submitted) : submitted[i].planes[0] = LostPlane
    BY <2>1 DEF FinalizeUndefined, Finalizing, ReadsPastEnd, ReadsLostPlane
  <2>3. 0 \in Channel
    BY EncoderAssumption DEF Channel
  <2> QED BY <1>0, <2>2, <2>3 DEF FramesInv
<1>5. CASE WrapFails
  <2>1. /\ encoded_bytes = <<>> /\ status' = "ERROR" /\ UNCHANGED collected
        /\ encoded_bytes' = BareFile(ImageHeader, queued_frames) /\ EncoderAccepts
    BY <1>5 DEF WrapFails, Finalizing, Returns
  <2>2. encoded_bytes' # <<>>
    BY <1>0, <2>1, AcceptedIsFile
  <2> QED BY <2>1, <2>2 DEF Stream!Next, Stream!Fix
<1>6. CASE HandOutStep
  <2>1. PICK bytes \in Seq(Item), room \in Nat :
           /\ HandOut(bytes, room) /\ bytes # <<>>
           /\ encoded_bytes # <<>> => encoded_bytes = bytes
           /\ output_offset \in 0 .. Len(bytes)
           /\ collected = SubSeq(bytes, 1, output_offset)
    BY <1>6, HandsOutFile
  <2>2. /\ encoded_bytes' = bytes
        /\ output_offset' \in output_offset .. Len(bytes)
        /\ collected' = SubSeq(bytes, 1, output_offset')
        /\ status' = IF output_offset' = Len(bytes) THEN "SUCCESS" ELSE "NEED_MORE_OUTPUT"
    BY <2>1, HandOutMoves
  <2> DEFINE next == output_offset'
  <2>3. next \in output_offset .. Len(bytes) /\ collected' = SubSeq(bytes, 1, next)
    BY <2>2
  <2> HIDE DEF next
  <2>4. /\ Stream!IsPrefix(SubSeq(bytes, 1, output_offset), SubSeq(bytes, 1, next))
        /\ Stream!IsPrefix(SubSeq(bytes, 1, next), bytes)
        /\ SubSeq(bytes, 1, next) = bytes <=> next = Len(bytes)
    BY <2>1, <2>3, Prefixes
  <2>5. Stream!IsPrefix(collected, collected') /\ Stream!IsPrefix(collected', encoded_bytes')
    BY <2>1, <2>2, <2>3, <2>4
  <2>6. status' = IF collected' = encoded_bytes' THEN "SUCCESS" ELSE "NEED_MORE_OUTPUT"
    BY <2>2, <2>3, <2>4 DEF next
  <2>7. Stream!Take
    BY <2>5, <2>6 DEF Stream!Take
  <2> QED BY <2>1, <2>2, <2>7 DEF Stream!Next, Stream!Fix, Stream!Read
<1> QED BY <1>1, <1>2, <1>3, <1>4, <1>5, <1>6, StepKinds DEF FailedOutput

\* The channels of clients that do not declare too many are all there.
LEMMA ChannelsAreThere ==
  ASSUME Inductive, Next, ChannelsFit, ~TooManyChannels
  PROVE  ~TooManyChannels'
<1>1. CASE ImageCall
  <2>1. ASSUME NEW info \in Infos, SetBasicInfo(info)
        PROVE  ~TooManyChannels'
    <3>1. info.extras \in Nat /\ info.extras <= MaxChannels
      BY EncoderAssumption DEF BasicInfo, ChannelsFit
    <3> QED BY <2>1, <3>1, EncoderAssumption DEF SetBasicInfo, TooManyChannels
  <2>2. CASE UNCHANGED basic_info
    BY <2>2 DEF TooManyChannels
  <2> QED BY <1>1, <2>1, <2>2 DEF ImageCall, SetColorEncoding, SetICCProfile,
             SetExtraChannelInfo, SetExtraChannelName
<1>2. CASE BoxCall \/ HeaderCall \/ QueueCall \/ FailedOutput \/ HandOutStep
  BY <1>2, BoxCallLeaves, HeaderCallLeaves, QueueCallLeaves, OutputLeaves
     DEF settingVars, TooManyChannels
<1>3. CASE Reset
  BY <1>3 DEF Reset, TooManyChannels
<1> QED BY <1>1, <1>2, <1>3, StepKinds

\* ReadsOneFile: where no plane can be lost and clients declare no channel there
\* is no room for, JxlEncoder implements a stream whose content is fixed once and
\* taken in order; both are undefined behaviour in JxlEncoderProcessOutput.
THEOREM OutputIsOneFile ==
  ASSUME "plane" \notin Failures, ChannelsFit
  PROVE  Spec => ReadsOneFile
<1>1. Init => Stream!Init
  BY DEF Init, Stream!Init, Stream!Empty
<1>0. Init => ~TooManyChannels
  BY DEF Init, TooManyChannels
<1>3. Inductive /\ ~TooManyChannels /\ [Next]_vars => ~TooManyChannels'
  BY ChannelsAreThere DEF vars, settingVars, TooManyChannels
<1>2. Inductive /\ ~TooManyChannels /\ [Next]_vars => [Stream!Next]_(Stream!streamVars)
  <2>1. CASE Next
    BY <2>1, StreamStep DEF Stream!streamVars
  <2>2. CASE UNCHANGED vars
    BY <2>2 DEF vars, outputVars, Stream!streamVars
  <2> QED BY <2>1, <2>2
<1> QED BY <1>0, <1>1, <1>2, <1>3, InductiveHolds, PTL DEF Spec, ReadsOneFile, Stream!Spec
=============================================================================
