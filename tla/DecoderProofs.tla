---------------------------- MODULE DecoderProofs ----------------------------
(***************************************************************************)
(* Proofs that the properties of DecoderProperties hold of every client,   *)
(* every file and every sequence of calls. The lemmas of the first part    *)
(* say which actions touch which variables; each invariant is then proved  *)
(* by looking at the actions that can disturb it.                          *)
(***************************************************************************)
EXTENDS DecoderInvariants, TLAPS

-----------------------------------------------------------------------------
(* Which actions touch what.                                               *)

BoxCallStep == BoxCall /\ UNCHANGED <<status, callVars, headVars, jpegVars, frameVars>>
JpegCallStep == JpegCall /\ UNCHANGED <<status, callVars, headVars, boxVars, frameVars>>

\* The calls that configure the decoder.
SettingCall ==
  \/ \E events \in EventSets : SubscribeEvents(events)
  \/ \E slice \in Inputs : SetInput(slice)
  \/ ReleaseInput
  \/ CloseInput
  \/ ProcessInput

\* The calls that set a frame setting.
FrameCall ==
  \/ \E b \in BOOLEAN : SetCoalescing(b)
  \/ SetPreviewOutBuffer
  \/ SetImageOutBuffer
  \/ \E amount \in SkipAmounts : SkipFrames(amount)
  \/ SkipCurrentFrame

\* The steps of the loop that touch the frames.
FrameStep ==
  \/ EmitPreview \/ ParseStep \/ SilentFrame \/ EmitFrameEvent
  \/ WithoutBuffer \/ OutputPixels \/ OutputPixelsFails

\* The steps of the loop that only report.
ReportStep ==
  \/ ParseHeadersFails \/ EmitBasicInfo \/ EmitColorEncoding
  \/ Finish \/ ReconstructJpegFails \/ DecodeFails

\* Every step is of one of these kinds.
LEMMA StepKinds ==
  ASSUME Next
  PROVE  \/ SettingCall \/ FrameCall \/ BoxCallStep \/ JpegCallStep
         \/ Rewind \/ Reset
         \/ ParseHeaders \/ WalkBoxes \/ EmitJpegReconstruction
         \/ ReconstructJpeg \/ FrameStep \/ ReportStep
  BY DEF Next, Call, LoopStep, SettingCall, FrameCall, BoxCallStep,
         JpegCallStep, FrameStep, ReportStep

\* The loop leaves the client's side alone.
LEMMA LoopLeavesCalls ==
  ASSUME LoopStep
  PROVE  Running /\ UNCHANGED callVars
<1>1. CASE ParseHeaders BY <1>1 DEF ParseHeaders
<1>2. CASE ParseHeadersFails BY <1>2 DEF ParseHeadersFails
<1>3. CASE WalkBoxes BY <1>3 DEF WalkBoxes, BoxStep, PrepareBoxFails, AtBox
<1>4. CASE EmitBasicInfo BY <1>4 DEF EmitBasicInfo, AtHeaders
<1>5. CASE EmitColorEncoding BY <1>5 DEF EmitColorEncoding, AtHeaders
<1>6. CASE EmitJpegReconstruction BY <1>6 DEF EmitJpegReconstruction, AtHeaders
<1>7. CASE EmitPreview BY <1>7 DEF EmitPreview, AtPreview, AtHeaders
<1>8. CASE ParseStep BY <1>8 DEF ParseStep, AtFrames, AtHeaders
<1>9. CASE Finish BY <1>9 DEF Finish, AtFrames, AtHeaders
<1>10. CASE SilentFrame BY <1>10 DEF SilentFrame, AtFrames, AtHeaders
<1>11. CASE EmitFrameEvent
  BY <1>11 DEF EmitFrameEvent, AtDisplayed, AtFrames, AtHeaders
<1>12. CASE ReconstructJpeg
  BY <1>12 DEF ReconstructJpeg, AtJpeg, AtOutput, AtDisplayed, AtFrames, AtHeaders
<1>13. CASE ReconstructJpegFails
  BY <1>13 DEF ReconstructJpegFails, AtJpeg, AtOutput, AtDisplayed, AtFrames, AtHeaders
<1>14. CASE WithoutBuffer
  BY <1>14 DEF WithoutBuffer, AtPixels, AtOutput, AtDisplayed, AtFrames, AtHeaders
<1>15. CASE OutputPixels
  BY <1>15 DEF OutputPixels, AtPixels, AtOutput, AtDisplayed, AtFrames, AtHeaders
<1>16. CASE OutputPixelsFails
  BY <1>16 DEF OutputPixelsFails, AtPixels, AtOutput, AtDisplayed, AtFrames, AtHeaders
<1>17. CASE DecodeFails BY <1>17 DEF DecodeFails, AtDecode, AtFrames, AtHeaders
<1> QED
  BY <1>1, <1>2, <1>3, <1>4, <1>5, <1>6, <1>7, <1>8, <1>9, <1>10, <1>11,
     <1>12, <1>13, <1>14, <1>15, <1>16, <1>17 DEF LoopStep

\* A report changes nothing but the status and what was announced.
LEMMA ReportsOnly ==
  ASSUME ReportStep
  PROVE  /\ UNCHANGED <<boxVars, jpegVars, frameVars, basic_info_available, frame_lent>>
         /\ status' # "BOX" /\ status' # "FULL_IMAGE"
         /\ basic_info_emitted => basic_info_emitted'
         /\ color_encoding_emitted => color_encoding_emitted'
<1>1. CASE ParseHeadersFails
  BY <1>1 DEF ParseHeadersFails, headVars, ReturnOneOf, Return, StatusFromError
<1>2. CASE EmitBasicInfo BY <1>2 DEF EmitBasicInfo, Return
<1>3. CASE EmitColorEncoding BY <1>3 DEF EmitColorEncoding, Return
<1>4. CASE Finish BY <1>4 DEF Finish, headVars, Return
<1>5. CASE ReconstructJpegFails BY <1>5 DEF ReconstructJpegFails, headVars, Return
<1>6. CASE DecodeFails BY <1>6 DEF DecodeFails, headVars, Return
<1> QED BY <1>1, <1>2, <1>3, <1>4, <1>5, <1>6 DEF ReportStep

\* A setting leaves boxes, JPEG bytes and frames alone.
LEMMA SettingsOnly ==
  ASSUME SettingCall
  PROVE  /\ ~Running
         /\ UNCHANGED <<boxVars, jpegVars, frameVars, file, basic_info_available,
                        basic_info_emitted, color_encoding_emitted>>
         /\ started_processing => started_processing'
         /\ started_processing => UNCHANGED subscribed_events
         /\ UNCHANGED status \/ status' \in {"NEED_MORE_INPUT", "RUNNING"}
<1>1. ASSUME NEW events \in EventSets, SubscribeEvents(events)
      PROVE  /\ ~Running
             /\ UNCHANGED <<status, boxVars, jpegVars, frameVars, file,
                            headVars, started_processing>>
             /\ ~started_processing
  BY <1>1 DEF SubscribeEvents, Idle, Running
<1>2. ASSUME NEW slice \in Inputs, SetInput(slice)
      PROVE  /\ ~Running
             /\ UNCHANGED <<status, boxVars, jpegVars, frameVars, file,
                            headVars, started_processing, subscribed_events>>
  BY <1>2 DEF SetInput, Idle, Running
<1>3. CASE ReleaseInput BY <1>3 DEF ReleaseInput, Idle, Running
<1>4. CASE CloseInput BY <1>4 DEF CloseInput, Idle, Running, headVars
<1>5. CASE ProcessInput BY <1>5 DEF ProcessInput, Idle, Running, headVars
<1> QED BY <1>1, <1>2, <1>3, <1>4, <1>5 DEF SettingCall, headVars

\* A frame setting leaves the rest alone.
LEMMA FrameCallsOnly ==
  ASSUME FrameCall
  PROVE  ~Running /\ UNCHANGED <<status, callVars, headVars, boxVars, jpegVars>>
  BY DEF FrameCall, SetCoalescing, SetPreviewOutBuffer, SetImageOutBuffer,
         SkipFrames, SkipCurrentFrame, Idle, Running

\* A step over frames leaves the rest alone.
LEMMA FrameStepsOnly ==
  ASSUME FrameStep
  PROVE  /\ Running /\ status' # "BOX"
         /\ UNCHANGED <<callVars, headVars, boxVars, jpegVars>>
<1>1. LoopStep BY DEF FrameStep, LoopStep
<1>2. Running /\ UNCHANGED callVars BY <1>1, LoopLeavesCalls
<1>3. CASE EmitPreview
  BY <1>2, <1>3 DEF EmitPreview, OutputPreview, ReturnOneOf, Return, StatusFromError
<1>4. CASE ParseStep
  BY <1>2, <1>4 DEF ParseStep, ReturnOneOf, Return, StatusFromError, Continue, Running
<1>5. CASE SilentFrame BY <1>2, <1>5 DEF SilentFrame, Continue, Running
<1>6. CASE EmitFrameEvent BY <1>2, <1>6 DEF EmitFrameEvent, Return
<1>7. CASE WithoutBuffer BY <1>2, <1>7 DEF WithoutBuffer, Return, Continue, Running
<1>8. CASE OutputPixels BY <1>2, <1>8 DEF OutputPixels, Return, Continue, Running
<1>9. CASE OutputPixelsFails BY <1>2, <1>9 DEF OutputPixelsFails, Return
<1> QED BY <1>3, <1>4, <1>5, <1>6, <1>7, <1>8, <1>9 DEF FrameStep

\* The loop only returns statuses of decode.h.
LEMMA LoopStatuses ==
  ASSUME LoopStep, status \in Statuses
  PROVE  status' \in Statuses
<1> USE DEF Statuses, Events
<1>1. CASE ParseHeaders BY <1>1 DEF ParseHeaders, Continue
<1>2. CASE ParseHeadersFails
  BY <1>2 DEF ParseHeadersFails, ReturnOneOf, Return, StatusFromError
<1>3. CASE WalkBoxes BY <1>3 DEF WalkBoxes, BoxStep, PrepareBoxFails, Return, Continue
<1>4. CASE EmitBasicInfo BY <1>4 DEF EmitBasicInfo, Return
<1>5. CASE EmitColorEncoding BY <1>5 DEF EmitColorEncoding, Return
<1>6. CASE EmitJpegReconstruction BY <1>6 DEF EmitJpegReconstruction, Return, Continue
<1>7. CASE EmitPreview
  BY <1>7 DEF EmitPreview, OutputPreview, ReturnOneOf, Return, StatusFromError
<1>8. CASE ParseStep
  BY <1>8 DEF ParseStep, ReturnOneOf, Return, StatusFromError, Continue
<1>9. CASE Finish BY <1>9 DEF Finish, Return
<1>10. CASE SilentFrame BY <1>10 DEF SilentFrame, Continue
<1>11. CASE EmitFrameEvent BY <1>11 DEF EmitFrameEvent, Return
<1>12. CASE ReconstructJpeg BY <1>12 DEF ReconstructJpeg, Return, Continue
<1>13. CASE ReconstructJpegFails BY <1>13 DEF ReconstructJpegFails, Return
<1>14. CASE WithoutBuffer BY <1>14 DEF WithoutBuffer, Return, Continue
<1>15. CASE OutputPixels BY <1>15 DEF OutputPixels, Return, Continue
<1>16. CASE OutputPixelsFails BY <1>16 DEF OutputPixelsFails, Return
<1>17. CASE DecodeFails BY <1>17 DEF DecodeFails, Return
<1> QED
  BY <1>1, <1>2, <1>3, <1>4, <1>5, <1>6, <1>7, <1>8, <1>9, <1>10, <1>11,
     <1>12, <1>13, <1>14, <1>15, <1>16, <1>17 DEF LoopStep

\* The file never changes, and only a reset makes the decoder forget headers.
LEMMA FileFixed ==
  ASSUME [Next]_vars
  PROVE  file' = file
<1>1. CASE SettingCall BY <1>1, SettingsOnly
<1>2. CASE FrameCall BY <1>2, FrameCallsOnly DEF callVars
<1>3. CASE BoxCallStep \/ JpegCallStep
  BY <1>3 DEF BoxCallStep, JpegCallStep, callVars
<1>4. CASE Rewind \/ Reset BY <1>4 DEF Rewind, Reset
<1>5. CASE LoopStep BY <1>5, LoopLeavesCalls DEF callVars
<1>6. CASE UNCHANGED vars BY <1>6 DEF vars, callVars
<1> QED
  BY <1>1, <1>2, <1>3, <1>4, <1>5, <1>6, StepKinds
     DEF LoopStep, FrameStep, ReportStep

-----------------------------------------------------------------------------
(* The file and the client's side.                                         *)

\* What the assumption on Files says of the file at hand.
LEMMA FileFacts ==
  ASSUME file \in Files
  PROVE  /\ file \in File
         /\ FrameCount \in Nat
         /\ PreviewUnits(file) \in {0, 1}
         /\ FrameUnits(file) = PreviewUnits(file) + FrameCount
         /\ FileUnits(file) \in Nat \ {0}
         /\ \A i \in 1 .. FrameCount : Header(i) \in FrameHeader
         /\ file.container \/ (file.boxes = <<>> /\ file.jbrds = 0)
<1>1. file \in File BY FilesAssumption
<1>2. file.frames \in Seq(FrameHeader) BY <1>1 DEF File
<1>3. FrameCount \in Nat BY <1>2 DEF FrameCount
<1>4. PreviewUnits(file) \in {0, 1} BY DEF PreviewUnits
<1> QED
  BY <1>1, <1>2, <1>3, <1>4, FilesAssumption
     DEF FrameUnits, FrameCount, FileUnits, Header

\* What the client set is typed and consistent.
ClientInv == CallTypes /\ HeadTypes /\ InputInv

LEMMA ClientInit ==
  ASSUME Init
  PROVE  ClientInv
<1>1. input_data \in Inputs \cup {NoInput} BY DEF Init
<1>2. CallTypes BY <1>1 DEF Init, CallTypes, Statuses
<1>3. HeadTypes /\ InputInv BY DEF Init, HeadTypes, InputInv, Running
<1> QED BY <1>2, <1>3 DEF ClientInv

LEMMA ClientStep ==
  ASSUME ClientInv, [Next]_vars
  PROVE  ClientInv'
<1> USE DEF ClientInv
<1>0. file' = file BY FileFixed
<1>1. CASE LoopStep
  <2>1. Running /\ UNCHANGED callVars BY <1>1, LoopLeavesCalls
  <2>2. status' \in Statuses BY <1>1, LoopStatuses DEF CallTypes
  <2>3. CallTypes' /\ InputInv'
    BY <2>1, <2>2 DEF CallTypes, InputInv, callVars, inputVars, Fits, Running
  <2>4. HeadTypes'
    <3>1. CASE ReportStep BY <3>1 DEF HeadTypes, ReportStep, ParseHeadersFails,
                 EmitBasicInfo, EmitColorEncoding, Finish, ReconstructJpegFails,
                 DecodeFails, headVars
    <3>2. CASE FrameStep BY <3>2, FrameStepsOnly DEF HeadTypes, headVars
    <3>3. CASE ParseHeaders BY <3>3 DEF ParseHeaders, HeadTypes
    <3>4. CASE WalkBoxes \/ EmitJpegReconstruction \/ ReconstructJpeg
      BY <3>4 DEF WalkBoxes, EmitJpegReconstruction, ReconstructJpeg, HeadTypes, headVars
    <3> QED BY <1>1, <3>1, <3>2, <3>3, <3>4 DEF LoopStep, ReportStep, FrameStep
  <2> QED BY <2>3, <2>4
<1>2. ASSUME NEW events \in EventSets, SubscribeEvents(events) PROVE ClientInv'
  BY <1>2, ClientAssumption
     DEF SubscribeEvents, CallTypes, HeadTypes, InputInv, inputVars, headVars, Fits, Running
<1>3. ASSUME NEW slice \in Inputs, SetInput(slice) PROVE ClientInv'
  BY <1>0, <1>3, ClientAssumption
     DEF SetInput, CallTypes, HeadTypes, InputInv, headVars, Fits, Running, Idle
<1>4. CASE ReleaseInput
  BY <1>0, <1>4, ClientAssumption
     DEF ReleaseInput, CallTypes, HeadTypes, InputInv, Fits, Running, Idle
<1>5. CASE CloseInput
  BY <1>5 DEF CloseInput, CallTypes, HeadTypes, InputInv, headVars, Fits, Running
<1>6. CASE ProcessInput
  <2>1. supplied' \in Nat
    BY <1>6, ClientAssumption DEF ProcessInput, SuppliedWith, CallTypes, Slice
  <2>2. status' \in Statuses BY <1>6 DEF ProcessInput, Statuses
  <2> QED BY <1>6, <2>1, <2>2
          DEF ProcessInput, CallTypes, HeadTypes, InputInv, headVars, Fits, Running
<1>7. CASE FrameCall
  BY <1>7, FrameCallsOnly
     DEF CallTypes, HeadTypes, InputInv, callVars, inputVars, headVars, Fits, Running
<1>8. CASE BoxCallStep \/ JpegCallStep
  BY <1>8 DEF BoxCallStep, JpegCallStep, CallTypes, HeadTypes, InputInv,
              callVars, inputVars, headVars, Fits, Running
<1>9. CASE Rewind
  BY <1>9 DEF Rewind, CallTypes, HeadTypes, InputInv, Statuses, Running
<1>10. CASE Reset
  BY <1>10 DEF Reset, CallTypes, HeadTypes, InputInv, Statuses, Running
<1>11. CASE UNCHANGED vars
  BY <1>11 DEF vars, CallTypes, HeadTypes, InputInv, callVars, inputVars, headVars,
               Fits, Running
<1> QED
  BY <1>1, <1>2, <1>3, <1>4, <1>5, <1>6, <1>7, <1>8, <1>9, <1>10, <1>11, StepKinds
     DEF SettingCall, LoopStep, FrameStep, ReportStep

-----------------------------------------------------------------------------
(* The reconstructed JPEG.                                                 *)

\* Where every reconstructed byte is, and that none is counted twice.
JpegBytesInv ==
  /\ JpegTypes /\ JpegInv /\ NoJpegByteLost
  /\ jpeg_buffer # NoBuffer => jpeg_buffer_written <= jpeg_buffer
  /\ jpeg_offset <= file.jpeg_size

\* JpegCount stays within the buffer and within the stream.
LEMMA JpegCountFits ==
  ASSUME JpegBytesInv, file \in File
  PROVE  /\ JpegCount(file.jpeg_size) \in Nat
         /\ jpeg_offset + JpegCount(file.jpeg_size) <= file.jpeg_size
         /\ jpeg_buffer = NoBuffer => JpegCount(file.jpeg_size) = 0
         /\ jpeg_buffer # NoBuffer =>
              jpeg_buffer_written + JpegCount(file.jpeg_size) <= jpeg_buffer
  BY BuffersAssumption DEF JpegBytesInv, JpegTypes, JpegCount, File

LEMMA JpegBytesInit ==
  ASSUME Init
  PROVE  JpegBytesInv
<1>1. JpegInit BY DEF Init
<1>2. JpegTypes BY <1>1 DEF JpegInit, JpegTypes
<1>3. JpegInv /\ NoJpegByteLost BY <1>1 DEF JpegInit, JpegInv, NoJpegByteLost
<1>4. jpeg_offset <= file.jpeg_size
  BY <1>1, ClientInit, FileFacts DEF JpegInit, File, ClientInv, CallTypes
<1> QED BY <1>1, <1>2, <1>3, <1>4 DEF JpegBytesInv, JpegInit

LEMMA JpegStep ==
  ASSUME ClientInv, JpegBytesInv, [Next]_vars
  PROVE  JpegBytesInv'
<1> USE DEF JpegBytesInv
<1>0. file' = file /\ file \in File
  BY FileFixed, FileFacts DEF ClientInv, CallTypes
<1>1. ASSUME UNCHANGED jpegVars, started_processing => started_processing'
      PROVE  JpegBytesInv'
  BY <1>0, <1>1 DEF JpegTypes, JpegInv, NoJpegByteLost, jpegVars
<1>2. CASE JpegCallStep
  <2>1. UNCHANGED started_processing BY <1>2 DEF JpegCallStep, callVars
  <2>2. ASSUME NEW size \in BufferSizes, SetJPEGBuffer(size) PROVE JpegBytesInv'
    BY <1>0, <2>1, <2>2, BuffersAssumption
       DEF SetJPEGBuffer, JpegTypes, JpegInv, NoJpegByteLost
  <2>3. CASE ReleaseJPEGBuffer
    BY <1>0, <2>1, <2>3 DEF ReleaseJPEGBuffer, JpegTypes, JpegInv, NoJpegByteLost
  <2> QED BY <1>2, <2>2, <2>3 DEF JpegCallStep, JpegCall
<1>3. CASE Rewind \/ Reset
  <2>1. RestartJpeg /\ jpeg_bytes' \in BOOLEAN
    BY <1>3 DEF Rewind, Reset, JpegRewind, ClearJpeg, JpegTypes
  <2>2. JpegTypes' BY <2>1 DEF RestartJpeg, JpegTypes
  <2>3. JpegInv' /\ NoJpegByteLost' BY <2>1 DEF RestartJpeg, JpegInv, NoJpegByteLost
  <2>4. jpeg_offset' <= file'.jpeg_size BY <1>0, <2>1 DEF RestartJpeg, File
  <2> QED BY <2>1, <2>2, <2>3, <2>4 DEF RestartJpeg
<1>4. CASE EmitJpegReconstruction
  BY <1>0, <1>4 DEF EmitJpegReconstruction, JpegTypes, JpegInv, NoJpegByteLost, callVars
<1>5. CASE ReconstructJpeg
  <2>1. OutputJPEG(file.jpeg_size) /\ jpeg_requested /\ UNCHANGED started_processing
    BY <1>5 DEF ReconstructJpeg, AtJpeg, callVars
  <2>2. started_processing
    BY <1>5 DEF ReconstructJpeg, AtJpeg, AtOutput, AtDisplayed, AtFrames, AtHeaders,
                ClientInv, InputInv
  <2> DEFINE n == JpegCount(file.jpeg_size)
  <2>3. /\ n \in Nat /\ jpeg_offset + n <= file.jpeg_size
        /\ jpeg_buffer = NoBuffer => n = 0
        /\ jpeg_buffer # NoBuffer => jpeg_buffer_written + n <= jpeg_buffer
    BY <1>0, JpegCountFits
  <2>4. /\ jpeg_bytes' = TRUE
        /\ jpeg_offset' = jpeg_offset + n
        /\ jpeg_buffer_written' = jpeg_buffer_written + n
        /\ UNCHANGED <<jpeg_event_emitted, jpeg_requested, jpeg_buffer, jpeg_collected>>
    BY <2>1 DEF OutputJPEG
  <2> HIDE DEF n
  <2>5. JpegTypes' BY <2>3, <2>4 DEF JpegTypes
  <2>6. JpegInv' BY <2>1, <2>2, <2>3, <2>4 DEF JpegTypes, JpegInv
  <2>7. NoJpegByteLost' BY <2>3, <2>4 DEF JpegTypes, NoJpegByteLost
  <2> QED BY <1>0, <2>3, <2>4, <2>5, <2>6, <2>7 DEF JpegTypes
<1>6. CASE SettingCall BY <1>1, <1>6, SettingsOnly
<1>7. CASE FrameCall BY <1>1, <1>7, FrameCallsOnly DEF callVars
<1>8. CASE BoxCallStep BY <1>1, <1>8 DEF BoxCallStep, callVars
<1>9. CASE FrameStep BY <1>1, <1>9, FrameStepsOnly DEF callVars
<1>10. CASE ReportStep
  BY <1>1, <1>10, ReportsOnly, LoopLeavesCalls DEF callVars, LoopStep, ReportStep
<1>11. CASE ParseHeaders \/ WalkBoxes
  BY <1>1, <1>11 DEF ParseHeaders, WalkBoxes, callVars
<1>12. CASE UNCHANGED vars BY <1>1, <1>12 DEF vars, callVars
<1> QED
  BY <1>2, <1>3, <1>4, <1>5, <1>6, <1>7, <1>8, <1>9, <1>10, <1>11, <1>12, StepKinds

-----------------------------------------------------------------------------
(* The frame cursor.                                                       *)

FramesInv == SessionTypes /\ FrameTypes /\ CursorInv

\* What the cursor points at while a frame is parsed.
LEMMA CurrentFrameInRange ==
  ASSUME file \in Files, FrameTypes, CursorInv, frame_parsed
  PROVE  /\ CurrentFrame \in 1 .. FrameCount
         /\ CurrentFrame = frame_offset - PreviewUnits(file) + 1
         /\ Header(CurrentFrame) \in FrameHeader
<1>1. /\ PreviewUnits(file) <= frame_offset
      /\ frame_offset < PreviewUnits(file) + FrameCount
  BY FileFacts DEF CursorInv, FrameTypes
<1>2. /\ CurrentFrame \in 1 .. FrameCount
      /\ CurrentFrame = frame_offset - PreviewUnits(file) + 1
  BY <1>1, FileFacts DEF CurrentFrame, FrameTypes
<1> QED BY <1>2, FileFacts

\* Decoding a frame of the file keeps the slots typed.
LEMMA SessionDecodeTyped ==
  ASSUME file \in Files, SessionTypes, NEW i \in 1 .. FrameCount,
         SessionDecode(i, coalescing), file' = file
  PROVE  SessionTypes'
<1>1. Header(i) \in FrameHeader BY FileFacts
<1>2. /\ Header(i).save_as_reference \in Slots
      /\ Header(i).dc_level # 0 => Header(i).dc_level - 1 \in Slots
  BY <1>1 DEF FrameHeader, Slots
<1> DEFINE s == Header(i).save_as_reference
           l == Header(i).dc_level
<1>3. i \in 0 .. FrameCount BY FileFacts
<1>4. refs' \in [Slots -> 0 .. FrameCount]
  <2>1. refs' = refs \/ refs' = [refs EXCEPT ![s] = i] BY DEF SessionDecode
  <2> QED BY <1>2, <1>3, <2>1 DEF SessionTypes
<1>5. dc_refs' \in [Slots -> 0 .. FrameCount]
  <2>1. dc_refs' = dc_refs \/ (l # 0 /\ dc_refs' = [dc_refs EXCEPT ![l - 1] = i])
    BY DEF SessionDecode
  <2> QED BY <1>2, <1>3, <2>1 DEF SessionTypes
<1>6. visible_frame_index' \in Nat /\ nonvisible_frame_index' \in Nat
  BY DEF SessionDecode, SessionTypes
<1> QED BY <1>4, <1>5, <1>6 DEF SessionTypes, FrameCount

LEMMA DecodeCurrentFrameTyped ==
  ASSUME file \in Files, FramesInv, frame_parsed, DecodeCurrentFrame, file' = file
  PROVE  SessionTypes'
<1>1. CASE decoded_frame
  BY <1>1 DEF DecodeCurrentFrame, FramesInv, SessionTypes, sessionVars, FrameCount
<1>2. CASE ~decoded_frame
  BY <1>2, SessionDecodeTyped, CurrentFrameInRange DEF DecodeCurrentFrame, FramesInv
<1> QED BY <1>1, <1>2

LEMMA SettleTyped ==
  ASSUME FrameTypes, NEW outcome \in Fates, Settle(outcome), file' = file
  PROVE  fate' \in [1 .. FrameCount' -> Fates]
  BY DEF FrameTypes, Settle, FrameCount

\* Moving past the parsed frame.
LEMMA AdvanceKeepsCursor ==
  ASSUME file \in Files, FramesInv, frame_parsed, AdvanceCurrentFrame,
         NEW outcome \in Fates, Settle(outcome), frames_to_skip' \in Nat,
         UNCHANGED <<file, basic_info_available, started_processing>>
  PROVE  FrameTypes' /\ CursorInv'
<1> USE DEF FramesInv
<1>1. Header(CurrentFrame) \in FrameHeader BY CurrentFrameInRange
<1>2. decode_complete' \in BOOLEAN
  BY <1>1 DEF AdvanceCurrentFrame, FrameHeader
<1>3. fate' \in [1 .. FrameCount' -> Fates] BY SettleTyped
<1>4. meant_for' \in 0 .. FrameCount' /\ output_buffer' \in BOOLEAN
  <2>1. FrameCount' = FrameCount /\ FrameCount \in Nat BY FileFacts DEF FrameCount
  <2>2. meant_for' \in {0, meant_for} /\ output_buffer' \in {FALSE, output_buffer}
    BY DEF AdvanceCurrentFrame, outputVars
  <2>3. meant_for' \in 0 .. FrameCount' BY <2>1, <2>2 DEF FrameTypes
  <2>4. output_buffer' \in BOOLEAN BY <2>2 DEF FrameTypes
  <2> QED BY <2>3, <2>4
<1>5. FrameTypes'
  <2>1. frame_offset' \in Nat BY DEF FrameTypes, AdvanceCurrentFrame
  <2> QED BY <1>2, <1>3, <1>4, <2>1
          DEF AdvanceCurrentFrame, ForgetFrame, FrameTypes, previewVars
<1>6. CursorInv'
  BY FileFacts DEF AdvanceCurrentFrame, ForgetFrame, FrameTypes, CursorInv, previewVars
<1> QED BY <1>5, <1>6

\* A step that neither moves the cursor nor parses.
LEMMA StayingKeepsCursor ==
  ASSUME CursorInv,
         UNCHANGED <<file, basic_info_available, frame_data, frame_offset,
                     frame_parsed, decode_complete>>,
         started_processing => started_processing',
         started_processing' \in BOOLEAN,
         decoded_preview' =>
           decoded_preview \/ (basic_info_available /\ frame_data.units > 0),
         frame_emitted' \/ frame_decoded' \/ decoded_frame' \/ full_image_emitted'
           => frame_parsed
  PROVE  CursorInv'
  BY DEF CursorInv

\* A step that leaves the frames alone.
LEMMA UntouchedFrames ==
  ASSUME FramesInv, UNCHANGED <<frameVars, file, basic_info_available>>,
         started_processing => started_processing', started_processing' \in BOOLEAN
  PROVE  FramesInv'
<1>1. SessionTypes' /\ FrameTypes'
  BY DEF FramesInv, SessionTypes, FrameTypes, FrameCount, frameVars, sessionVars,
         frameState, outputVars, previewVars
<1>2. CursorInv'
  BY DEF FramesInv, CursorInv, frameVars, frameState, previewVars
<1> QED BY <1>1, <1>2 DEF FramesInv

\* Leaving the parsed frame, whether or not it went through the session.
LEMMA LeavingTyped ==
  ASSUME file \in Files, FramesInv, frame_parsed,
         DecodeCurrentFrame \/ UNCHANGED sessionVars,
         AdvanceCurrentFrame, NEW outcome \in Fates, Settle(outcome),
         frames_to_skip' \in Nat,
         UNCHANGED <<file, basic_info_available, started_processing>>
  PROVE  FramesInv'
<1>1. SessionTypes'
  <2>1. CASE DecodeCurrentFrame BY <2>1, DecodeCurrentFrameTyped
  <2>2. CASE UNCHANGED sessionVars
    BY <2>2 DEF FramesInv, SessionTypes, sessionVars, FrameCount
  <2> QED BY <2>1, <2>2
<1> QED BY <1>1, AdvanceKeepsCursor DEF FramesInv

LEMMA FramesInit ==
  ASSUME Init
  PROVE  FramesInv
<1>1. FrameInit /\ SessionInit /\ file \in Files BY DEF Init, FrameInit
<1>2. FrameCount \in Nat /\ FrameUnits(file) \in Nat BY <1>1, FileFacts
<1>3. SessionTypes BY <1>1, <1>2 DEF SessionInit, SessionTypes, EmptySlots
<1>4. fate \in [1 .. FrameCount -> Fates]
  BY <1>1 DEF FrameInit, AllPending, Fates, FrameCount
<1>5. frame_data \in [units : Nat, partial : BOOLEAN] BY <1>1 DEF FrameInit
<1>6. meant_for \in 0 .. FrameCount BY <1>1, <1>2 DEF FrameInit
<1>7. FrameTypes BY <1>1, <1>4, <1>5, <1>6 DEF FrameInit, FrameTypes
<1>8. CursorInv BY <1>1, <1>2 DEF Init, FrameInit, CursorInv
<1> QED BY <1>3, <1>7, <1>8 DEF FramesInv

\* The calls that set a frame setting, or skip the current frame.
LEMMA FrameCallKeepsFrames ==
  ASSUME file \in Files, FramesInv, FrameCall
  PROVE  FramesInv'
<1> USE DEF FramesInv
<1>0. UNCHANGED <<file, basic_info_available, started_processing>>
  BY FrameCallsOnly DEF callVars, headVars
<1>c. FrameCount' = FrameCount /\ FrameCount \in Nat BY <1>0, FileFacts DEF FrameCount
<1>1. ASSUME NEW b \in BOOLEAN, SetCoalescing(b) PROVE FramesInv'
  BY <1>0, <1>c, <1>1 DEF SetCoalescing, SessionTypes, FrameTypes, CursorInv,
       sessionVars, frameState, outputVars, previewVars
<1>2. CASE SetPreviewOutBuffer
  BY <1>0, <1>c, <1>2 DEF SetPreviewOutBuffer, SessionTypes, FrameTypes, CursorInv,
       sessionVars, frameState, outputVars
<1>3. CASE SetImageOutBuffer
  <2>1. meant_for' \in 0 .. FrameCount'
    <3>1. CASE frame_parsed /\ frame_displayed
      BY <1>c, <1>3, <3>1, CurrentFrameInRange DEF SetImageOutBuffer
    <3>2. CASE ~(frame_parsed /\ frame_displayed)
      BY <1>c, <1>3, <3>2 DEF SetImageOutBuffer
    <3> QED BY <3>1, <3>2
  <2> QED
    BY <1>0, <1>c, <1>3, <2>1 DEF SetImageOutBuffer, SessionTypes, FrameTypes,
         CursorInv, sessionVars, frameState, previewVars
<1>4. ASSUME NEW amount \in SkipAmounts, SkipFrames(amount) PROVE FramesInv'
  <2>1. frames_to_skip' \in Nat
    BY <1>4, ClientAssumption DEF SkipFrames, FrameTypes
  <2> QED
    BY <1>0, <1>c, <1>4, <2>1 DEF SkipFrames, SessionTypes, FrameTypes, CursorInv,
         sessionVars, frameState, outputVars, previewVars
<1>5. CASE SkipCurrentFrame
  <2>1. PICK outcome \in Fates : Settle(outcome)
    BY <1>5 DEF SkipCurrentFrame, Fates
  <2>2. frame_parsed /\ DecodeCurrentFrame /\ AdvanceCurrentFrame /\ UNCHANGED frames_to_skip
    BY <1>5 DEF SkipCurrentFrame
  <2> QED BY <1>0, <2>1, <2>2, LeavingTyped DEF FrameTypes
<1> QED BY <1>1, <1>2, <1>3, <1>4, <1>5 DEF FrameCall

\* A rewind and a reset.
LEMMA RestartKeepsFrames ==
  ASSUME file \in Files, FramesInv, Rewind \/ Reset
  PROVE  FramesInv'
<1> USE DEF FramesInv
<1>0. file' = file BY DEF Rewind, Reset
<1>1. RestartFrames BY DEF Rewind, Reset, ResetFrameIteration, ClearFrames
<1>2. FrameCount' = FrameCount /\ FrameCount \in Nat BY <1>0, FileFacts DEF FrameCount
<1>3. SessionTypes'
  BY <1>1, <1>2 DEF RestartFrames, SessionDeinit, SessionTypes, EmptySlots
<1>4. fate' \in [1 .. FrameCount' -> Fates]
  BY <1>0, <1>1 DEF RestartFrames, AllPending, Fates, FrameCount
<1>5. meant_for' \in 0 .. FrameCount' BY <1>1, <1>2 DEF RestartFrames
<1>6. /\ frame_data' \in [units : Nat, partial : BOOLEAN]
      /\ frame_data'.units <= FrameUnits(file)
  <2>1. \/ frame_data' = frame_data
        \/ frame_data' = [units |-> 0, partial |-> FALSE]
    BY DEF Rewind, Reset, ResetFrameIteration, ClearFrames
  <2>2. FrameUnits(file) \in Nat BY FileFacts
  <2>3. CASE frame_data' = frame_data BY <2>3 DEF FrameTypes, CursorInv
  <2>4. CASE frame_data' = [units |-> 0, partial |-> FALSE] BY <2>2, <2>4
  <2> QED BY <2>1, <2>3, <2>4
<1>7. /\ frame_displayed' \in BOOLEAN /\ coalescing' \in BOOLEAN
      /\ frames_to_skip' \in Nat
  <2>1. /\ frame_displayed' \in {frame_displayed, TRUE}
        /\ coalescing' \in {coalescing, TRUE}
        /\ frames_to_skip' \in {frames_to_skip, 0}
    BY DEF Rewind, Reset, ResetFrameIteration, ClearFrames
  <2>2. frame_displayed' \in BOOLEAN /\ coalescing' \in BOOLEAN BY <2>1 DEF FrameTypes
  <2>3. frames_to_skip' \in Nat BY <2>1 DEF FrameTypes
  <2> QED BY <2>2, <2>3
<1>8. FrameTypes'
  BY <1>1, <1>4, <1>5, <1>6, <1>7 DEF RestartFrames, ForgetFrame, FrameTypes
<1>9. CursorInv'
  BY <1>0, <1>1, <1>6 DEF RestartFrames, ForgetFrame, CursorInv
<1> QED BY <1>3, <1>8, <1>9

\* Parsing the headers: frame_data becomes a prefix of the codestream.
LEMMA ParseHeadersKeepsFrames ==
  ASSUME ClientInv, FramesInv, ParseHeaders
  PROVE  /\ FramesInv'
         /\ file.container => frame_data'.units = FrameUnits(file)
         /\ ~file.container => frame_data'.units = input_data.units - 1
         /\ input_data.first = 0 /\ input_data.units # 0
<1> USE DEF FramesInv
<1>0. /\ file \in Files /\ UNCHANGED <<file, started_processing>>
      /\ FrameCount' = FrameCount /\ FrameUnits(file) \in Nat
  BY FileFacts DEF ParseHeaders, ClientInv, CallTypes, callVars, FrameCount
<1>1. input_data \in Slice /\ Fits(input_data)
  BY ClientAssumption
     DEF ParseHeaders, ClientInv, CallTypes, InputInv, Running
<1>2. input_data.first = 0 /\ input_data.units # 0
  BY <1>1 DEF ParseHeaders, ParseHeaderErrors, Truncated, Slice
<1>3. /\ frame_data' \in [units : Nat, partial : BOOLEAN]
      /\ frame_data'.units <= FrameUnits(file)
      /\ file.container => frame_data'.units = FrameUnits(file)
      /\ ~file.container => frame_data'.units = input_data.units - 1
  <2>1. CASE file.container BY <1>0, <2>1 DEF ParseHeaders, FrameData
  <2>2. CASE ~file.container
    <3>1. /\ input_data.units \in Nat \ {0} /\ input_data.partial \in BOOLEAN
          /\ input_data.units <= 1 + FrameUnits(file)
      BY <1>0, <1>1, <1>2, <2>2 DEF Fits, Slice, FileUnits
    <3>2. frame_data' = [units |-> input_data.units - 1, partial |-> input_data.partial]
      BY <2>2 DEF ParseHeaders, FrameData
    <3> QED BY <1>0, <2>2, <3>1, <3>2
  <2> QED BY <2>1, <2>2
<1>4. SessionTypes'
  BY <1>0 DEF ParseHeaders, SessionTypes, sessionVars
<1>5. FrameTypes'
  BY <1>0, <1>3 DEF ParseHeaders, FrameTypes, frameState, outputVars, previewVars
<1>6. CursorInv'
  BY <1>0, <1>3
     DEF ParseHeaders, CursorInv, frameState, previewVars, ClientInv, CallTypes, InputInv
<1> QED BY <1>2, <1>3, <1>4, <1>5, <1>6

\* The loop runs on frames only with headers, and after processing started.
LEMMA LoopContext ==
  ASSUME ClientInv, LoopStep
  PROVE  /\ Running /\ started_processing /\ file \in Files
         /\ UNCHANGED <<file, started_processing>>
  BY LoopLeavesCalls DEF ClientInv, CallTypes, InputInv, callVars

\* Parsing a frame header, or failing to, behind the preview.
LEMMA ParseKeepsFrames ==
  ASSUME ClientInv, FramesInv, ParseStep
  PROVE  FramesInv'
<1> USE DEF FramesInv
<1>1. /\ started_processing /\ file \in Files /\ file' = file
      /\ UNCHANGED <<started_processing, basic_info_available>> /\ basic_info_available
      /\ FrameCount' = FrameCount
  BY LoopContext DEF ParseStep, AtFrames, AtHeaders, LoopStep, headVars, FrameCount
<1>2. /\ PastPreview \in Nat /\ PreviewUnits(file) <= PastPreview
      /\ PreviewPending => PastPreview = PreviewUnits(file)
      /\ ~PreviewPending => PastPreview = frame_offset
      /\ PreviewUnits(file) \in {0, 1}
      /\ frame_offset \in Nat /\ frame_data.units \in Nat
  BY <1>1, FileFacts DEF PastPreview, PreviewPending, FrameTypes
<1>3. CASE ParseFrame
  <2>1. PastPreview < frame_data.units
    BY <1>2, <1>3 DEF ParseFrame, ParseErrors, HeaderErrors, Truncated
  <2>2. frame_displayed' \in BOOLEAN BY <1>3 DEF ParseFrame, Displayed
  <2>3. decoded_preview' \in BOOLEAN /\ (decoded_preview' => decoded_preview)
    BY <1>3 DEF ParseFrame, FrameTypes
  <2>4. SessionTypes' BY <1>1, <1>3 DEF ParseFrame, SessionTypes, sessionVars
  <2>5. FrameTypes'
    BY <1>1, <1>2, <1>3, <2>2, <2>3 DEF ParseFrame, FrameTypes, outputVars
  <2>6. CursorInv' BY <1>1, <1>2, <1>3, <2>1, <2>3 DEF ParseFrame, CursorInv
  <2> QED BY <2>4, <2>5, <2>6
<1>4. CASE ParseFrameFails
  <2> DEFINE consumed == PreviewPending /\ PreviewErrors = {}
  <2>1. consumed => frame_data.units > 0
    <3> SUFFICES ASSUME PreviewErrors = {} PROVE frame_data.units > 0
      OBVIOUS
    <3>1. decoded_preview \/ frame_data.units # 0 BY DEF PreviewErrors, Truncated
    <3> QED BY <1>2, <3>1 DEF CursorInv
  <2>2. frame_offset' = IF consumed THEN PastPreview ELSE frame_offset
    BY <1>4 DEF ParseFrameFails
  <2>3. frame_offset' \in Nat /\ frame_offset' <= frame_data.units
    BY <1>2, <2>1, <2>2 DEF CursorInv
  <2>4. decoded_preview' \in BOOLEAN /\ (decoded_preview' => decoded_preview)
    BY <1>4 DEF ParseFrameFails, FrameTypes
  <2>5. SessionTypes' BY <1>1, <1>4 DEF ParseFrameFails, SessionTypes, sessionVars
  <2>6. FrameTypes'
    BY <1>1, <1>4, <2>3, <2>4 DEF ParseFrameFails, FrameTypes, outputVars
  <2>7. CursorInv'
    BY <1>1, <1>4, <2>3, <2>4 DEF ParseFrameFails, CursorInv
  <2> QED BY <2>5, <2>6, <2>7
<1> QED BY <1>3, <1>4 DEF ParseStep

\* Handing out the current frame's pixels, JPEG bytes or nothing at all.
LEMMA OutputKeepsFrames ==
  ASSUME ClientInv, FramesInv,
         SilentFrame \/ WithoutBuffer \/ OutputPixels \/ OutputPixelsFails
           \/ ReconstructJpeg \/ EmitFrameEvent
  PROVE  FramesInv'
<1> USE DEF FramesInv
<1>1. /\ frame_parsed /\ file \in Files /\ file' = file
      /\ UNCHANGED <<started_processing, basic_info_available>>
      /\ started_processing' \in BOOLEAN
  BY LoopContext
     DEF SilentFrame, WithoutBuffer, OutputPixels, OutputPixelsFails, ReconstructJpeg,
         EmitFrameEvent, RenderHiddenFrame, SkipDisplayedFrame, AtPixels, AtJpeg,
         AtOutput, AtDisplayed, LoopStep, headVars, ClientInv, CallTypes
<1>2. FrameCount' = FrameCount BY <1>1 DEF FrameCount
<1>3. ASSUME NEW outcome \in Fates, Settle(outcome), AdvanceCurrentFrame,
             DecodeCurrentFrame \/ UNCHANGED sessionVars, frames_to_skip' \in Nat
      PROVE  FramesInv'
  BY <1>1, <1>3, LeavingTyped
<1>4. CASE RenderHiddenFrame \/ PassFrame \/ LeaveJpegFrame
  BY <1>3, <1>4 DEF RenderHiddenFrame, PassFrame, LeaveJpegFrame, Fates, FrameTypes
<1>5. CASE SkipDisplayedFrame
  <2>1. frames_to_skip' \in Nat BY <1>5 DEF SkipDisplayedFrame, FrameTypes
  <2> QED BY <1>3, <1>5, <2>1 DEF SkipDisplayedFrame, Fates
<1>6. CASE LeaveShownFrame
  BY <1>3, <1>6 DEF LeaveShownFrame, Fates, FrameTypes
<1>7. CASE UNCHANGED frameVars BY <1>1, <1>7, UntouchedFrames
<1>8. CASE EmitFrame
  BY <1>1, <1>2, <1>8 DEF EmitFrame, SessionTypes, FrameTypes, CursorInv, sessionVars,
       outputVars, previewVars
<1>9. CASE ShowJpegFrame
  <2>1. fate' \in [1 .. FrameCount' -> Fates]
    BY <1>1, <1>9, SettleTyped DEF ShowJpegFrame, Fates
  <2> QED
    BY <1>1, <1>2, <1>9, <2>1 DEF ShowJpegFrame, SessionTypes, FrameTypes, CursorInv,
         sessionVars, outputVars, previewVars
<1>10. CASE ShowFrame
  <2>1. fate' \in [1 .. FrameCount' -> Fates]
    BY <1>1, <1>10, SettleTyped DEF ShowFrame, Fates
  <2>2. SessionTypes'
    <3>1. DecodeCurrentFrame \/ UNCHANGED sessionVars BY <1>10 DEF ShowFrame
    <3> QED BY <1>1, <1>2, <3>1, DecodeCurrentFrameTyped DEF SessionTypes, sessionVars
  <2>3. decoded_frame' \in BOOLEAN BY <1>10 DEF ShowFrame, FrameTypes
  <2> QED
    BY <1>1, <1>2, <1>10, <2>1, <2>2, <2>3 DEF ShowFrame, FrameTypes, CursorInv,
         outputVars, previewVars
<1>11. CASE WriteFails
  <2>1. SessionTypes' BY <1>1, <1>11, DecodeCurrentFrameTyped DEF WriteFails
  <2> QED
    BY <1>1, <1>2, <1>11, <2>1 DEF WriteFails, FrameTypes, CursorInv, outputVars,
         previewVars
<1> QED
  BY <1>4, <1>5, <1>6, <1>7, <1>8, <1>9, <1>10, <1>11
     DEF SilentFrame, WithoutBuffer, OutputPixels, OutputPixelsFails, ReconstructJpeg,
         EmitFrameEvent

\* Decoding the preview caches it and nothing else.
LEMMA PreviewKeepsFrames ==
  ASSUME ClientInv, FramesInv, EmitPreview
  PROVE  FramesInv'
<1> USE DEF FramesInv
<1>1. /\ file' = file /\ FrameCount' = FrameCount /\ started_processing
      /\ UNCHANGED <<started_processing, basic_info_available>> /\ basic_info_available
  BY LoopContext DEF EmitPreview, AtPreview, AtHeaders, LoopStep, headVars, FrameCount
<1>2. /\ decoded_preview' \in BOOLEAN
      /\ preview_emitted' \in BOOLEAN /\ preview_buffer' \in BOOLEAN
  BY DEF EmitPreview, OutputPreview, previewVars, FrameTypes
<1>3. decoded_preview' => decoded_preview \/ PreviewErrors = {}
  BY DEF EmitPreview, OutputPreview, previewVars, FrameTypes
<1>4. PreviewErrors = {} => decoded_preview \/ frame_data.units # 0
  BY DEF PreviewErrors, Truncated
<1>5. decoded_preview' => frame_data.units > 0
  BY <1>3, <1>4 DEF CursorInv, FrameTypes
<1>6. SessionTypes' BY <1>1 DEF EmitPreview, SessionTypes, sessionVars
<1>7. FrameTypes'
  BY <1>1, <1>2 DEF EmitPreview, FrameTypes, frameState, outputVars
<1>8. CursorInv'
  BY <1>1, <1>5 DEF EmitPreview, CursorInv, frameState
<1> QED BY <1>6, <1>7, <1>8

LEMMA FramesStep ==
  ASSUME ClientInv, FramesInv, [Next]_vars
  PROVE  FramesInv'
<1>0. /\ file \in Files /\ file' = file
      /\ started_processing \in BOOLEAN /\ started_processing' \in BOOLEAN
  BY ClientStep, FileFixed DEF ClientInv, CallTypes
<1>1. CASE SettingCall BY <1>0, <1>1, SettingsOnly, UntouchedFrames
<1>2. CASE FrameCall BY <1>0, <1>2, FrameCallKeepsFrames
<1>3. CASE BoxCallStep \/ JpegCallStep
  BY <1>0, <1>3, UntouchedFrames DEF BoxCallStep, JpegCallStep, callVars, headVars
<1>4. CASE Rewind \/ Reset BY <1>0, <1>4, RestartKeepsFrames
<1>5. CASE ParseHeaders BY <1>5, ParseHeadersKeepsFrames
<1>6. CASE WalkBoxes \/ EmitJpegReconstruction
  BY <1>0, <1>6, UntouchedFrames DEF WalkBoxes, EmitJpegReconstruction, callVars, headVars
<1>7. CASE ReconstructJpeg BY <1>7, OutputKeepsFrames
<1>8. CASE FrameStep
  BY <1>8, PreviewKeepsFrames, ParseKeepsFrames, OutputKeepsFrames DEF FrameStep
<1>9. CASE ReportStep
  <2>1. UNCHANGED started_processing
    BY <1>9, LoopLeavesCalls DEF ReportStep, LoopStep, callVars
  <2> QED BY <1>0, <1>9, <2>1, ReportsOnly, UntouchedFrames
<1>10. CASE UNCHANGED vars
  BY <1>0, <1>10, UntouchedFrames DEF vars, callVars, headVars
<1> QED
  BY <1>1, <1>2, <1>3, <1>4, <1>5, <1>6, <1>7, <1>8, <1>9, <1>10, StepKinds

-----------------------------------------------------------------------------
(* Success.                                                                *)

\* Whatever a step does with the current frame, short of parsing it.
FrameMove ==
  \/ (Rewind \/ Reset) /\ RestartFrames /\ ~started_processing'
  \/ /\ frame_parsed /\ AdvanceCurrentFrame
     /\ \E outcome \in Fates : Settle(outcome)
  \/ UNCHANGED <<frame_offset, frame_parsed, frame_displayed, decode_complete>>

\* The cursor moves in one of three ways.
LEMMA CursorMoves ==
  ASSUME [Next]_vars
  PROVE  ParseStep \/ FrameMove
<1> USE DEF FrameMove
<1>1. ASSUME UNCHANGED frameVars PROVE FrameMove
  BY <1>1 DEF frameVars, frameState
<1>2. CASE SettingCall BY <1>1, <1>2, SettingsOnly
<1>3. CASE BoxCallStep \/ JpegCallStep BY <1>1, <1>3 DEF BoxCallStep, JpegCallStep
<1>4. CASE Rewind \/ Reset
  BY <1>4 DEF Rewind, Reset, ResetFrameIteration, ClearFrames
<1>5. CASE WalkBoxes \/ EmitJpegReconstruction
  BY <1>1, <1>5 DEF WalkBoxes, EmitJpegReconstruction
<1>6. CASE ReportStep BY <1>1, <1>6, ReportsOnly
<1>7. CASE ParseHeaders BY <1>7 DEF ParseHeaders, frameState
<1>8. CASE FrameCall
  <2>1. CASE SkipCurrentFrame BY <2>1 DEF SkipCurrentFrame, Fates
  <2>2. CASE ~SkipCurrentFrame
    BY <1>8, <2>2 DEF FrameCall, SetCoalescing, SetPreviewOutBuffer,
         SetImageOutBuffer, SkipFrames, frameState
  <2> QED BY <2>1, <2>2
<1>9. CASE EmitPreview BY <1>9 DEF EmitPreview, frameState
<1>10. CASE SilentFrame
  BY <1>10 DEF SilentFrame, RenderHiddenFrame, SkipDisplayedFrame, Fates
<1>11. CASE EmitFrameEvent BY <1>11 DEF EmitFrameEvent, EmitFrame
<1>12. CASE WithoutBuffer
  BY <1>1, <1>12 DEF WithoutBuffer, PassFrame, Fates, AtPixels, AtOutput, AtDisplayed
<1>13. CASE OutputPixels
  BY <1>13 DEF OutputPixels, ShowFrame, LeaveShownFrame, Fates, AtPixels, AtOutput,
               AtDisplayed
<1>14. CASE OutputPixelsFails BY <1>14 DEF OutputPixelsFails, WriteFails
<1>15. CASE ReconstructJpeg
  BY <1>1, <1>15 DEF ReconstructJpeg, ShowJpegFrame, LeaveJpegFrame, Fates, AtJpeg,
               AtOutput, AtDisplayed
<1>16. CASE UNCHANGED vars BY <1>1, <1>16 DEF vars
<1> QED
  BY <1>2, <1>3, <1>4, <1>5, <1>6, <1>7, <1>8, <1>9, <1>10, <1>11, <1>12, <1>13,
     <1>14, <1>15, <1>16, StepKinds DEF FrameStep

\* Parsing does not change which frame is current.
LEMMA ParsingKeepsCurrent ==
  ASSUME file \in Files, FramesInv, ParseStep, file' = file
  PROVE  /\ CurrentFrame' = CurrentFrame
         /\ ~frame_parsed /\ ~decode_complete /\ ~decode_complete'
<1>1. \/ frame_offset' = frame_offset
      \/ PreviewPending /\ frame_offset' = PreviewUnits(file)
  BY DEF ParseStep, ParseFrame, ParseFrameFails, PastPreview
<1>2. PreviewUnits(file) \in {0, 1} /\ frame_offset \in Nat
  BY FileFacts DEF FramesInv, FrameTypes
<1>3. CurrentFrame' = CurrentFrame
  BY <1>1, <1>2 DEF CurrentFrame, PreviewPending
<1> QED BY <1>3 DEF ParseStep, ParseFrame, ParseFrameFails

LEMMA EndStep ==
  ASSUME ClientInv, FramesInv, EndInv, [Next]_vars
  PROVE  EndInv'
<1>0. file \in Files /\ file' = file BY FileFixed DEF ClientInv, CallTypes
<1>1. CASE ParseStep BY <1>0, <1>1, ParsingKeepsCurrent DEF EndInv
<1>2. CASE RestartFrames BY <1>2 DEF RestartFrames, EndInv
<1>3. CASE frame_parsed /\ AdvanceCurrentFrame
  <2>1. /\ PreviewUnits(file) <= frame_offset
        /\ CurrentFrame = frame_offset - PreviewUnits(file) + 1
        /\ PreviewUnits(file) \in {0, 1} /\ frame_offset \in Nat
    BY <1>0, <1>3, CurrentFrameInRange, FileFacts DEF FramesInv, CursorInv, FrameTypes
  <2>2. frame_offset' = frame_offset + 1 /\ decode_complete' = Header(CurrentFrame).is_last
    BY <1>3 DEF AdvanceCurrentFrame
  <2>3. CurrentFrame' - 1 = CurrentFrame BY <1>0, <2>1, <2>2 DEF CurrentFrame
  <2>4. Header(CurrentFrame - 1)' = Header(CurrentFrame) BY <1>0, <2>3 DEF Header
  <2>5. PreviewUnits(file) < frame_offset' BY <2>1, <2>2
  <2>6. PreviewUnits(file') < frame_offset' BY <1>0, <2>5
  <2> QED BY <2>2, <2>4, <2>6 DEF EndInv
<1>4. CASE UNCHANGED <<frame_offset, frame_parsed, frame_displayed, decode_complete>>
  BY <1>0, <1>4 DEF EndInv, CurrentFrame, Header
<1> QED BY <1>1, <1>2, <1>3, <1>4, CursorMoves DEF FrameMove

\* frame_data is set once per parse of the headers.
LEMMA FrameDataFixed ==
  ASSUME [Next]_vars
  PROVE  \/ ParseHeaders \/ Reset
         \/ UNCHANGED <<frame_data, basic_info_available>>
<1>1. CASE SettingCall BY <1>1, SettingsOnly DEF frameVars
<1>2. CASE FrameCall
  BY <1>2, FrameCallsOnly DEF FrameCall, SetCoalescing, SetPreviewOutBuffer,
       SetImageOutBuffer, SkipFrames, SkipCurrentFrame, AdvanceCurrentFrame, headVars
<1>3. CASE BoxCallStep \/ JpegCallStep
  BY <1>3 DEF BoxCallStep, JpegCallStep, headVars, frameVars
<1>4. CASE Rewind BY <1>4 DEF Rewind, ResetFrameIteration
<1>5. CASE WalkBoxes \/ EmitJpegReconstruction
  BY <1>5 DEF WalkBoxes, EmitJpegReconstruction, headVars, frameVars
<1>6. CASE ReportStep BY <1>6, ReportsOnly DEF frameVars
<1>7. CASE FrameStep
  <2>1. UNCHANGED basic_info_available BY <1>7, FrameStepsOnly DEF headVars
  <2>2. UNCHANGED frame_data
    BY <1>7 DEF FrameStep, EmitPreview, ParseStep, ParseFrame, ParseFrameFails,
         SilentFrame, RenderHiddenFrame, SkipDisplayedFrame, EmitFrameEvent, EmitFrame,
         WithoutBuffer, PassFrame, OutputPixels, ShowFrame, LeaveShownFrame,
         OutputPixelsFails, WriteFails, AdvanceCurrentFrame, frameVars
  <2> QED BY <2>1, <2>2
<1>8. CASE ReconstructJpeg
  BY <1>8 DEF ReconstructJpeg, ShowJpegFrame, LeaveJpegFrame, AdvanceCurrentFrame,
       frameVars, headVars
<1>9. CASE UNCHANGED vars BY <1>9 DEF vars, headVars, frameVars
<1> QED BY <1>1, <1>2, <1>3, <1>4, <1>5, <1>6, <1>7, <1>8, <1>9, StepKinds

\* What was supplied only grows, until a reset.
LEMMA SuppliedGrows ==
  ASSUME ClientInv, [Next]_vars
  PROVE  Reset \/ (supplied \in Nat /\ supplied' \in Nat /\ supplied <= supplied')
<1>0. supplied \in Nat /\ supplied' \in Nat BY ClientStep DEF ClientInv, CallTypes
<1>1. CASE ProcessInput
  BY <1>0, <1>1 DEF ProcessInput, SuppliedWith
<1>2. CASE SettingCall /\ ~ProcessInput
  BY <1>0, <1>2 DEF SettingCall, SubscribeEvents, SetInput, ReleaseInput, CloseInput, inputVars
<1>3. CASE FrameCall BY <1>0, <1>3, FrameCallsOnly DEF callVars, inputVars
<1>4. CASE BoxCallStep \/ JpegCallStep \/ Rewind
  BY <1>0, <1>4 DEF BoxCallStep, JpegCallStep, Rewind, callVars, inputVars
<1>5. CASE LoopStep BY <1>0, <1>5, LoopLeavesCalls DEF callVars, inputVars
<1>6. CASE UNCHANGED vars BY <1>0, <1>6 DEF vars, callVars, inputVars
<1> QED
  BY <1>1, <1>2, <1>3, <1>4, <1>5, <1>6, StepKinds DEF LoopStep, FrameStep, ReportStep

LEMMA SupplyStep ==
  ASSUME ClientInv, FramesInv, SupplyInv, [Next]_vars
  PROVE  SupplyInv'
<1>0. file \in Files /\ file' = file BY FileFixed DEF ClientInv, CallTypes
<1>1. (Running /\ input_data.first = 0 => input_data.units <= supplied)'
  <2>1. CASE LoopStep
    BY <2>1, LoopLeavesCalls DEF SupplyInv, callVars, inputVars
  <2>2. CASE ProcessInput
    <3>1. CASE input_data = NoInput BY <2>2, <3>1 DEF ProcessInput, Running
    <3>2. CASE input_data # NoInput
      <4>1. input_data \in Slice /\ supplied \in Nat
        BY <3>2, ClientAssumption DEF ClientInv, CallTypes
      <4> QED BY <2>2, <3>2, <4>1 DEF ProcessInput, SuppliedWith, Slice
    <3> QED BY <3>1, <3>2
  <2>3. CASE UNCHANGED vars
    BY <2>3 DEF SupplyInv, vars, callVars, inputVars, Running
  <2>4. CASE Call /\ ~ProcessInput
    BY <2>4 DEF Call, SubscribeEvents, SetCoalescing, SetInput, ReleaseInput, CloseInput,
         SetPreviewOutBuffer, SetImageOutBuffer, SkipFrames, SkipCurrentFrame, Rewind,
         Reset, Idle, Running, BoxCall, JpegCall
  <2> QED BY <2>1, <2>2, <2>3, <2>4 DEF Next
<1>2. (basic_info_available =>
         (IF file.container THEN 1 ELSE frame_data.units + 1) <= supplied)'
  <2>1. CASE ParseHeaders
    <3>1. /\ Running /\ UNCHANGED <<input_data, supplied>>
      BY <2>1 DEF ParseHeaders, callVars, inputVars
    <3>2. input_data \in Slice /\ supplied \in Nat
      BY <3>1, ClientAssumption DEF ClientInv, CallTypes, InputInv
    <3>3. /\ input_data.first = 0 /\ input_data.units \in Nat \ {0}
          /\ ~file.container => frame_data'.units = input_data.units - 1
      BY <2>1, <3>2, ParseHeadersKeepsFrames DEF Slice
    <3>4. input_data.units <= supplied BY <3>1, <3>3 DEF SupplyInv
    <3> QED BY <1>0, <3>1, <3>2, <3>3, <3>4
  <2>2. CASE Reset BY <2>2 DEF Reset
  <2>3. CASE UNCHANGED <<frame_data, basic_info_available>> /\ ~Reset
    <3>1. frame_data.units \in Nat BY DEF FramesInv, FrameTypes
    <3> QED BY <1>0, <2>3, <3>1, SuppliedGrows DEF SupplyInv
  <2> QED BY <2>1, <2>2, <2>3, FrameDataFixed
<1> QED BY <1>1, <1>2 DEF SupplyInv

\* SUCCESS is only returned by Finish, and kept by the calls that follow.
LEMMA WhoSucceeds ==
  ASSUME [Next]_vars, status' = "SUCCESS"
  PROVE  ~Reset /\ (status = "SUCCESS" \/ Finish)
<1>1. CASE LoopStep
  <2>1. Running BY <1>1, LoopLeavesCalls
  <2>2. CASE ReportStep /\ ~Finish
    BY <2>2 DEF ReportStep, ParseHeadersFails, ReturnOneOf, Return, StatusFromError,
         EmitBasicInfo, EmitColorEncoding, ReconstructJpegFails, DecodeFails
  <2>3. CASE FrameStep
    BY <2>1, <2>3 DEF FrameStep, EmitPreview, OutputPreview, ParseStep, ReturnOneOf,
         StatusFromError, SilentFrame, EmitFrameEvent, WithoutBuffer, OutputPixels,
         OutputPixelsFails, Return, Continue, Running
  <2>4. CASE ParseHeaders \/ WalkBoxes \/ EmitJpegReconstruction \/ ReconstructJpeg
    BY <2>1, <2>4 DEF ParseHeaders, WalkBoxes, BoxStep, PrepareBoxFails,
         EmitJpegReconstruction, ReconstructJpeg, Return, Continue, Running
  <2>5. ~Reset BY <2>1 DEF Reset, Idle, Running
  <2> QED BY <1>1, <2>2, <2>3, <2>4, <2>5 DEF LoopStep, ReportStep, FrameStep
<1>2. CASE SettingCall
  BY <1>2 DEF SettingCall, SubscribeEvents, SetInput, ReleaseInput, CloseInput,
       ProcessInput, Reset
<1>3. CASE FrameCall BY <1>3, FrameCallsOnly DEF Reset
<1>4. CASE BoxCallStep \/ JpegCallStep BY <1>4 DEF BoxCallStep, JpegCallStep, Reset
<1>5. CASE Rewind \/ Reset BY <1>5 DEF Rewind, Reset
<1>6. CASE UNCHANGED vars BY <1>6 DEF vars, Reset
<1> QED
  BY <1>1, <1>2, <1>3, <1>4, <1>5, <1>6, StepKinds DEF LoopStep, FrameStep, ReportStep

\* What was supplied covers the frames up to the end.
LEMMA SuccessStep ==
  ASSUME ClientInv, FramesInv, EndInv, SupplyInv, SuccessIsComplete, [Next]_vars
  PROVE  SuccessIsComplete'
<1> SUFFICES ASSUME status' = "SUCCESS"
             PROVE  (\E n \in 1 .. FrameCount :
                       Header(n).is_last /\ UnitsThrough(n) <= supplied)'
  BY DEF SuccessIsComplete
<1>0. file \in Files /\ file' = file BY FileFixed DEF ClientInv, CallTypes
<1>1. \E n \in 1 .. FrameCount : Header(n).is_last /\ UnitsThrough(n) <= supplied
  <2>1. CASE status = "SUCCESS" BY <2>1 DEF SuccessIsComplete
  <2>2. CASE Finish
    <3>1. decode_complete /\ basic_info_available
      BY <2>2 DEF Finish, AtFrames, AtHeaders
    <3> DEFINE n == CurrentFrame - 1
    <3>2. PreviewUnits(file) < frame_offset /\ Header(n).is_last BY <3>1 DEF EndInv
    <3>3. /\ frame_offset \in Nat /\ frame_data.units \in Nat
          /\ frame_offset <= frame_data.units
          /\ frame_data.units <= PreviewUnits(file) + FrameCount
          /\ PreviewUnits(file) \in {0, 1} /\ FrameCount \in Nat
      BY <1>0, FileFacts DEF FramesInv, FrameTypes, CursorInv
    <3>4. n = frame_offset - PreviewUnits(file)
      BY <3>2, <3>3 DEF CurrentFrame
    <3>5. n \in 1 .. FrameCount BY <3>2, <3>3, <3>4
    <3>6. supplied \in Nat BY DEF ClientInv, CallTypes
    <3>7. (IF file.container THEN 1 ELSE frame_data.units + 1) <= supplied
      BY <3>1 DEF SupplyInv
    <3>8. UnitsThrough(n) <= supplied
      BY <3>3, <3>4, <3>5, <3>6, <3>7 DEF UnitsThrough
    <3> QED BY <3>2, <3>5, <3>8
  <2> QED BY <2>1, <2>2, WhoSucceeds
<1>2. PICK n \in 1 .. FrameCount : Header(n).is_last /\ UnitsThrough(n) <= supplied
  BY <1>1
<1>3. supplied \in Nat /\ supplied' \in Nat /\ supplied <= supplied'
  BY WhoSucceeds, SuppliedGrows
<1>4. UnitsThrough(n) \in Nat
  BY <1>0, FileFacts DEF UnitsThrough
<1>5. UnitsThrough(n) <= supplied' BY <1>2, <1>3, <1>4
<1>6. /\ FrameCount' = FrameCount /\ Header(n)' = Header(n)
      /\ UnitsThrough(n)' = UnitsThrough(n)
  BY <1>0 DEF FrameCount, Header, UnitsThrough
<1> QED BY <1>2, <1>5, <1>6

-----------------------------------------------------------------------------
(* Boxes.                                                                  *)

BoxesInv ==
  /\ BoxTypes /\ BoxInv /\ NoBoxByteLost
  /\ box_buffer # NoBuffer => box_buffer_written <= box_buffer

LEMMA BoxFacts ==
  ASSUME file \in Files, BoxTypes
  PROVE  /\ Len(Boxes) \in Nat
         /\ box_index <= Len(Boxes) =>
              CurrentBox \in Box /\ ContentsLen(CurrentBox) \in Nat
<1>1. file.boxes \in Seq(Box) BY FileFacts DEF File
<1>2. Boxes \in Seq(Box) BY <1>1 DEF Boxes
<1>3. ASSUME box_index <= Len(Boxes)
      PROVE  CurrentBox \in Box /\ ContentsLen(CurrentBox) \in Nat
  <2>1. box_index \in 1 .. Len(Boxes) BY <1>2, <1>3 DEF BoxTypes
  <2>2. CurrentBox \in Box BY <1>2, <2>1 DEF CurrentBox
  <2>3. ContentsLen(CurrentBox) \in Nat BY <2>2 DEF Box, ContentsLen
  <2> QED BY <2>2, <2>3
<1> QED BY <1>2, <1>3

LEMMA BoxesInit ==
  ASSUME Init
  PROVE  BoxesInv
<1>1. BoxInit /\ ~basic_info_available /\ status = "IDLE" /\ file \in Files BY DEF Init
<1>2. BoxTypes
  <2>1. box_index \in Nat \ {0} /\ box_buffer \in Nat \cup {NoBuffer}
    BY <1>1 DEF BoxInit
  <2> QED BY <1>1, <2>1 DEF BoxInit, BoxTypes
<1>3. Boxes = <<>> BY <1>1 DEF Boxes
<1>4. BoxInv BY <1>1, <1>3 DEF BoxInit, BoxInv, Running
<1>5. NoBoxByteLost BY <1>1 DEF BoxInit, NoBoxByteLost
<1> QED BY <1>1, <1>2, <1>4, <1>5 DEF BoxInit, BoxesInv

\* A step that leaves the boxes alone.
LEMMA UntouchedBoxes ==
  ASSUME BoxesInv, UNCHANGED <<boxVars, file, basic_info_available>>,
         started_processing => started_processing',
         status' = status \/ status' # "BOX",
         CarefulClient /\ Running' /\ ~Running =>
           box_buffer = NoBuffer \/ box_buffer_written = 0 \/ box_complete_emitted
  PROVE  BoxesInv'
<1>1. BoxTypes' BY DEF BoxesInv, BoxTypes, boxVars, boxCursor, boxBuffer
<1>2. NoBoxByteLost' BY DEF BoxesInv, NoBoxByteLost, boxVars, boxCursor, boxBuffer
<1>3. Boxes' = Boxes /\ CurrentBox' = CurrentBox
      /\ ContentsLen(CurrentBox)' = ContentsLen(CurrentBox)
  BY DEF Boxes, CurrentBox, ContentsLen, boxVars, boxCursor
<1>4. BoxInv'
  BY <1>3 DEF BoxesInv, BoxInv, boxVars, boxCursor, boxBuffer
<1> QED BY <1>1, <1>2, <1>4 DEF BoxesInv, boxVars, boxBuffer

\* Going to a box of which nothing has been handed out.
LEMMA PointingAtBox ==
  ASSUME ClientInv, BoxesInv, NEW i \in Nat \ {0}, PointAt(i), file' = file,
         decompress_boxes' \in BOOLEAN
  PROVE  BoxesInv'
<1>1. BoxTypes' BY DEF PointAt, BoxTypes
<1>2. file' \in Files BY DEF ClientInv, CallTypes
<1>3. box_index' <= Len(Boxes') => ContentsLen(CurrentBox)' \in Nat
  <2>1. file.boxes \in Seq(Box) BY <1>2, FilesAssumption DEF File
  <2>2. Boxes' \in Seq(Box) BY <1>2, <2>1 DEF Boxes
  <2>3. ASSUME box_index' <= Len(Boxes') PROVE CurrentBox' \in Box
    BY <1>1, <2>2, <2>3 DEF BoxTypes, CurrentBox
  <2> QED BY <2>3 DEF Box, ContentsLen
<1>4. BoxInv' BY <1>3 DEF PointAt, BoxInv
<1>5. NoBoxByteLost' BY DEF PointAt, NoBoxByteLost
<1> QED BY <1>1, <1>4, <1>5 DEF BoxesInv, PointAt

\* The calls on the box buffer.
LEMMA BoxCallKeepsBoxes ==
  ASSUME ClientInv, BoxesInv, BoxCallStep
  PROVE  BoxesInv'
<1> USE DEF BoxesInv
<1>0. /\ file \in Files /\ UNCHANGED <<file, status, started_processing, basic_info_available>>
      /\ Boxes' = Boxes /\ ~Running
  BY DEF BoxCallStep, callVars, headVars, Boxes, ClientInv, CallTypes, BoxCall,
         Idle, Running
<1>1. ASSUME NEW size \in BufferSizes, SetBoxBuffer(size) PROVE BoxesInv'
  <2>1. size \in Nat /\ NoBuffer \notin Nat BY BuffersAssumption
  <2>2. UNCHANGED CurrentBox /\ UNCHANGED ContentsLen(CurrentBox)
    BY <1>0, <1>1 DEF SetBoxBuffer, boxCursor, CurrentBox, ContentsLen
  <2>3. BoxTypes' BY <1>1, <2>1 DEF SetBoxBuffer, boxCursor, BoxTypes
  <2>4. BoxInv' BY <1>0, <1>1, <2>2 DEF SetBoxBuffer, boxCursor, BoxInv, Running
  <2>5. NoBoxByteLost'
    BY <1>1 DEF SetBoxBuffer, boxCursor, NoBoxByteLost, BoxInv
  <2> QED BY <1>1, <2>1, <2>3, <2>4, <2>5 DEF SetBoxBuffer
<1>2. CASE ReleaseBoxBuffer
  <2>1. UNCHANGED CurrentBox /\ UNCHANGED ContentsLen(CurrentBox)
    BY <1>0, <1>2 DEF ReleaseBoxBuffer, boxCursor, CurrentBox, ContentsLen
  <2>2. BoxTypes' BY <1>2 DEF ReleaseBoxBuffer, boxCursor, BoxTypes
  <2>3. BoxInv' BY <1>0, <1>2, <2>1 DEF ReleaseBoxBuffer, boxCursor, BoxInv, Running
  <2>4. NoBoxByteLost'
    BY <1>2 DEF ReleaseBoxBuffer, boxCursor, NoBoxByteLost, BoxTypes
  <2> QED BY <1>2, <2>2, <2>3, <2>4 DEF ReleaseBoxBuffer
<1>3. ASSUME NEW b \in BOOLEAN, SetDecompressBoxes(b),
             CarefulClient => ~started_processing \/ status = "BOX"
      PROVE  BoxesInv'
  <2>1. BoxTypes' BY <1>3 DEF SetDecompressBoxes, boxCursor, boxBuffer, BoxTypes
  <2>2. UNCHANGED <<Boxes, CurrentBox, boxCursor, boxBuffer, box_collected>>
    BY <1>0, <1>3 DEF SetDecompressBoxes, boxCursor, CurrentBox
  <2>3. box_index' <= Len(Boxes') => ContentsLen(CurrentBox)' \in Nat
    <3>1. box_index <= Len(Boxes) => CurrentBox \in Box BY <1>0, BoxFacts
    <3>2. CurrentBox' \in Box => ContentsLen(CurrentBox)' \in Nat
      BY DEF ContentsLen, Box
    <3> QED BY <2>2, <3>1, <3>2 DEF boxCursor
  <2>4. BoxInv' BY <1>0, <1>3, <2>2, <2>3 DEF BoxInv, Running, boxCursor, boxBuffer
  <2>5. NoBoxByteLost' BY <2>2 DEF NoBoxByteLost, boxCursor, boxBuffer
  <2> QED BY <2>1, <2>2, <2>4, <2>5 DEF boxBuffer
<1> QED BY <1>1, <1>2, <1>3 DEF BoxCallStep, BoxCall

\* How much one copy moves.
LEMMA CopiedFits ==
  ASSUME file \in Files, BoxesInv, box_index <= Len(Boxes), box_buffer # NoBuffer
  PROVE  /\ Copied(CurrentBox) \in Nat
         /\ Copied(CurrentBox) <= box_buffer
         /\ box_bytes_emitted <= ContentsLen(CurrentBox) =>
              box_bytes_emitted + Copied(CurrentBox) <= ContentsLen(CurrentBox)
         /\ box_bytes_emitted >= ContentsLen(CurrentBox) => Copied(CurrentBox) = 0
  BY BoxFacts DEF BoxesInv, BoxTypes, Copied

\* The steps of the loop over boxes.
LEMMA WalkKeepsBoxes ==
  ASSUME ClientInv, BoxesInv, WalkBoxes
  PROVE  BoxesInv'
<1> USE DEF BoxesInv
<1>0. /\ file \in Files /\ UNCHANGED <<file, started_processing, basic_info_available>>
      /\ Boxes' = Boxes
  BY DEF WalkBoxes, callVars, headVars, Boxes, ClientInv, CallTypes
<1>1. /\ Running /\ started_processing /\ basic_info_available /\ box_index <= Len(Boxes)
  BY DEF WalkBoxes, BoxStep, PrepareBoxFails, AtBox, BoxesLeft, ClientInv, InputInv
<1>2. CASE PrepareBoxFails
  BY <1>0, <1>2, UntouchedBoxes DEF PrepareBoxFails, Return, Running
<1>3. CASE EmitBoxHeader /\ Return("BOX")
  <2>1. UNCHANGED CurrentBox /\ UNCHANGED ContentsLen(CurrentBox)
    BY <1>0, <1>3 DEF EmitBoxHeader, CurrentBox, ContentsLen
  <2>2. BoxTypes' BY <1>3 DEF EmitBoxHeader, BoxTypes, boxBuffer
  <2>3. BoxInv'
    BY <1>0, <1>1, <1>3, <2>1 DEF EmitBoxHeader, Return, BoxInv, Running, boxBuffer
  <2>4. NoBoxByteLost' BY <1>3 DEF EmitBoxHeader, NoBoxByteLost, boxBuffer
  <2> QED BY <1>3, <2>2, <2>3, <2>4 DEF EmitBoxHeader, boxBuffer
<1>4. CASE AdvanceCurrentBox /\ UNCHANGED decompress_boxes
  BY <1>0, <1>4, PointingAtBox DEF AdvanceCurrentBox, BoxTypes
<1>5. ASSUME box_header_emitted, box_buffer # NoBuffer, CopyBox(CurrentBox),
             ~box_complete_emitted,
             UNCHANGED <<box_index, box_header_emitted, decompress_boxes, box_buffer,
                         box_collected>>,
             box_complete_emitted' \in BOOLEAN,
             box_complete_emitted' => Drained(CurrentBox),
             status' # "BOX" /\ status' # "RUNNING"
      PROVE  BoxesInv'
  <2>1. UNCHANGED CurrentBox /\ UNCHANGED ContentsLen(CurrentBox)
    BY <1>0, <1>5 DEF CurrentBox, ContentsLen
  <2> DEFINE n == Copied(CurrentBox)
             len == ContentsLen(CurrentBox)
  <2>2. /\ n \in Nat /\ n <= box_buffer
        /\ box_bytes_emitted <= len => box_bytes_emitted + n <= len
        /\ box_bytes_emitted >= len => n = 0
    BY <1>0, <1>1, <1>5, CopiedFits
  <2>3. len \in Nat BY <1>0, <1>1, BoxFacts
  <2>4. /\ box_bytes_emitted' = box_bytes_emitted + n
        /\ box_buffer_written' \in {n, box_buffer_written}
        /\ box_bytes_emitted < len => box_buffer_written' = n
        /\ box_bytes_emitted >= len => box_buffer_written' = box_buffer_written
    BY <1>5, <2>2, <2>3 DEF CopyBox, BoxTypes
  <2>5. box_complete_emitted' => box_bytes_emitted + n >= len BY <1>5 DEF Drained
  <2> HIDE DEF n, len
  <2>6. BoxTypes' BY <1>5, <2>2, <2>4 DEF BoxTypes
  <2>7. CarefulClient => box_buffer_written = 0 /\ box_bytes_emitted <= len
    BY <1>1, <1>5 DEF BoxInv, len
  <2>8. NoBoxByteLost'
    <3>1. CASE box_bytes_emitted < len
      BY <1>5, <2>2, <2>4, <2>7, <3>1 DEF NoBoxByteLost, BoxTypes
    <3>2. CASE box_bytes_emitted >= len
      BY <1>5, <2>2, <2>4, <3>2 DEF NoBoxByteLost, BoxTypes
    <3> QED BY <2>3, <3>1, <3>2 DEF BoxTypes
  <2>9. CarefulClient =>
          box_bytes_emitted' <= len /\ (box_complete_emitted' => box_bytes_emitted' = len)
    BY <2>2, <2>3, <2>4, <2>5, <2>7 DEF BoxTypes
  <2>10. BoxInv' BY <1>0, <1>1, <1>5, <2>1, <2>9 DEF BoxInv, Running, len
  <2> QED BY <1>5, <2>2, <2>4, <2>6, <2>8, <2>10
<1>6. CASE FillBoxBuffer(CurrentBox) /\ Return("BOX_NEED_MORE_OUTPUT")
  <2>1. CASE ~box_complete_emitted
    BY <1>5, <1>6, <2>1 DEF FillBoxBuffer, Return, BoxTypes
  <2>2. CASE box_complete_emitted
    <3>1. ~CarefulClient
      <4> SUFFICES ASSUME CarefulClient PROVE FALSE OBVIOUS
      <4>1. box_bytes_emitted = ContentsLen(CurrentBox)
        BY <1>1, <2>2 DEF BoxInv
      <4>2. ~(box_bytes_emitted + Copied(CurrentBox) >= ContentsLen(CurrentBox))
        BY <1>6 DEF FillBoxBuffer, Drained
      <4>3. Copied(CurrentBox) \in Nat BY <1>0, <1>1, <1>6, CopiedFits DEF FillBoxBuffer
      <4> QED BY <4>1, <4>2, <4>3 DEF BoxTypes
    <3>2. /\ Copied(CurrentBox) \in Nat /\ Copied(CurrentBox) <= box_buffer
      BY <1>0, <1>1, <1>6, CopiedFits DEF FillBoxBuffer
    <3>3. /\ box_bytes_emitted' \in Nat /\ box_buffer_written' \in Nat
          /\ box_buffer_written' <= box_buffer
      BY <1>6, <3>2 DEF FillBoxBuffer, CopyBox, BoxTypes
    <3>4. BoxTypes' BY <1>6, <3>3 DEF FillBoxBuffer, BoxTypes
    <3>5. BoxInv'
      BY <1>0, <1>1, <1>6, <3>1 DEF FillBoxBuffer, BoxInv, Return, Running
    <3> QED BY <1>6, <3>1, <3>3, <3>4, <3>5 DEF NoBoxByteLost, FillBoxBuffer
  <2> QED BY <2>1, <2>2
<1>7. CASE CompleteBox(CurrentBox) /\ Return("BOX_COMPLETE")
  BY <1>5, <1>7 DEF CompleteBox, Return
<1> QED
  BY <1>2, <1>3, <1>4, <1>6, <1>7 DEF WalkBoxes, BoxStep, PassOverBox, LeaveBox

LEMMA BoxesStep ==
  ASSUME ClientInv, BoxesInv, [Next]_vars
  PROVE  BoxesInv'
<1>0. /\ file \in Files /\ file' = file
      /\ started_processing \in BOOLEAN /\ started_processing' \in BOOLEAN
  BY ClientStep, FileFixed DEF ClientInv, CallTypes
<1>1. CASE SettingCall
  <2>1. CarefulClient /\ Running' /\ ~Running =>
          box_buffer = NoBuffer \/ box_buffer_written = 0 \/ box_complete_emitted
    BY <1>1 DEF SettingCall, SubscribeEvents, SetInput, ReleaseInput, CloseInput,
         ProcessInput, Running
  <2> QED BY <1>0, <1>1, <2>1, SettingsOnly, UntouchedBoxes
<1>2. CASE FrameCall
  BY <1>2, FrameCallsOnly, UntouchedBoxes DEF callVars, headVars, Running
<1>3. CASE BoxCallStep BY <1>3, BoxCallKeepsBoxes
<1>4. CASE JpegCallStep
  BY <1>4, UntouchedBoxes DEF JpegCallStep, callVars, headVars, Running
<1>5. CASE Rewind \/ Reset
  <2>1. PointAt(1) BY <1>5 DEF Rewind, Reset, ResetBoxIteration
  <2>2. decompress_boxes' \in BOOLEAN BY <1>5 DEF Rewind, Reset, BoxesInv, BoxTypes
  <2> QED BY <1>0, <2>1, <2>2, PointingAtBox
<1>6. CASE ParseHeaders
  <2>1. /\ Running /\ ~basic_info_available /\ basic_info_available'
        /\ UNCHANGED <<status, started_processing, boxVars>>
    BY <1>6 DEF ParseHeaders, Continue, callVars
  <2>2. BoxTypes' /\ NoBoxByteLost'
    BY <2>1 DEF BoxesInv, BoxTypes, NoBoxByteLost, boxVars, boxCursor, boxBuffer
  <2>3. ~box_header_emitted /\ box_bytes_emitted = 0 /\ ~box_complete_emitted
    BY <2>1 DEF BoxesInv, BoxInv
  <2>4. box_index' <= Len(Boxes') => ContentsLen(CurrentBox)' \in Nat
    <3>1. file.boxes \in Seq(Box) BY <1>0, FilesAssumption DEF File
    <3>2. Boxes' \in Seq(Box) BY <1>0, <3>1 DEF Boxes
    <3>3. ASSUME box_index' <= Len(Boxes') PROVE CurrentBox' \in Box
      BY <2>2, <3>2, <3>3 DEF BoxTypes, CurrentBox
    <3> QED BY <3>3 DEF Box, ContentsLen
  <2>5. BoxInv'
    BY <2>1, <2>3, <2>4 DEF BoxesInv, BoxInv, Running, boxVars, boxCursor, boxBuffer
  <2> QED BY <2>1, <2>2, <2>5 DEF BoxesInv, boxVars, boxBuffer
<1>7. CASE WalkBoxes BY <1>7, WalkKeepsBoxes
<1>8. CASE EmitJpegReconstruction
  BY <1>8, LoopLeavesCalls, UntouchedBoxes
     DEF EmitJpegReconstruction, LoopStep, callVars, headVars, Return, Continue
<1>9. CASE ReconstructJpeg
  BY <1>9, LoopLeavesCalls, UntouchedBoxes
     DEF ReconstructJpeg, LoopStep, callVars, headVars, Return, Continue
<1>10. CASE FrameStep
  BY <1>10, FrameStepsOnly, UntouchedBoxes DEF callVars, headVars
<1>11. CASE ReportStep
  <2>1. Running /\ UNCHANGED callVars
    BY <1>11, LoopLeavesCalls DEF ReportStep, LoopStep
  <2> QED BY <1>11, <2>1, ReportsOnly, UntouchedBoxes DEF callVars
<1>12. CASE UNCHANGED vars
  BY <1>12, UntouchedBoxes DEF vars, callVars, headVars, Running
<1> QED
  BY <1>1, <1>2, <1>3, <1>4, <1>5, <1>6, <1>7, <1>8, <1>9, <1>10, <1>11, <1>12,
     StepKinds

-----------------------------------------------------------------------------
(* The order of events.                                                    *)

OrderInv == EventOrder

\* What has been announced stays announced until the decoder is set back.
LEMMA AnnouncedStays ==
  ASSUME [Next]_vars, ~Rewind, ~Reset
  PROVE  /\ basic_info_emitted => basic_info_emitted'
         /\ color_encoding_emitted => color_encoding_emitted'
         /\ jpeg_event_emitted => jpeg_event_emitted'
         /\ preview_emitted => preview_emitted'
         /\ box_index \in Nat => box_index' >= box_index
         /\ started_processing => UNCHANGED subscribed_events
<1>1. ASSUME UNCHANGED <<headVars, jpegVars, boxVars, frameVars>>,
             started_processing => UNCHANGED subscribed_events
      PROVE  /\ UNCHANGED <<basic_info_emitted, color_encoding_emitted,
                            jpeg_event_emitted, preview_emitted, box_index>>
             /\ started_processing => UNCHANGED subscribed_events
  BY <1>1 DEF headVars, jpegVars, boxVars, boxCursor, frameVars, previewVars
<1>2. CASE SettingCall
  BY <1>2, SettingsOnly DEF jpegVars, boxVars, boxCursor, frameVars, previewVars
<1>3. CASE FrameCall
  <2>1. UNCHANGED preview_emitted
    BY <1>3 DEF FrameCall, SetCoalescing, SetPreviewOutBuffer, SetImageOutBuffer,
         SkipFrames, SkipCurrentFrame, AdvanceCurrentFrame, previewVars
  <2> QED
    BY <1>3, <2>1, FrameCallsOnly DEF callVars, headVars, jpegVars, boxVars, boxCursor
<1>4. CASE BoxCallStep
  <2>1. UNCHANGED boxCursor
    BY <1>4 DEF BoxCallStep, BoxCall, SetBoxBuffer, ReleaseBoxBuffer, SetDecompressBoxes
  <2> QED
    BY <1>4, <2>1 DEF BoxCallStep, callVars, headVars, jpegVars, boxCursor, frameVars,
         previewVars
<1>5. CASE JpegCallStep
  <2>1. UNCHANGED jpeg_event_emitted
    BY <1>5 DEF JpegCallStep, JpegCall, SetJPEGBuffer, ReleaseJPEGBuffer
  <2> QED
    BY <1>5, <2>1 DEF JpegCallStep, callVars, headVars, boxVars, boxCursor, frameVars,
         previewVars
<1>6. CASE ParseHeaders
  BY <1>6 DEF ParseHeaders, callVars, boxVars, boxCursor, jpegVars, previewVars
<1>7. CASE WalkBoxes
  <2>1. box_index \in Nat => box_index' >= box_index
    BY <1>7 DEF WalkBoxes, BoxStep, PrepareBoxFails, EmitBoxHeader, PassOverBox,
         FillBoxBuffer, CompleteBox, LeaveBox, AdvanceCurrentBox, PointAt, boxVars,
         boxCursor
  <2> QED
    BY <1>7, <2>1 DEF WalkBoxes, callVars, headVars, jpegVars, frameVars, previewVars
<1>8. CASE EmitJpegReconstruction
  BY <1>8 DEF EmitJpegReconstruction, callVars, headVars, boxVars, boxCursor, frameVars,
       previewVars
<1>9. CASE ReconstructJpeg
  BY <1>9 DEF ReconstructJpeg, OutputJPEG, callVars, headVars, boxVars, boxCursor,
       frameVars, previewVars, ShowJpegFrame, LeaveJpegFrame, AdvanceCurrentFrame
<1>10. CASE FrameStep
  <2>1. preview_emitted => preview_emitted'
    <3>1. CASE EmitPreview BY <3>1 DEF EmitPreview, OutputPreview, previewVars
    <3>2. CASE ParseStep BY <3>2 DEF ParseStep, ParseFrame, ParseFrameFails
    <3>3. CASE ~EmitPreview /\ ~ParseStep
      BY <1>10, <3>3 DEF FrameStep, SilentFrame, RenderHiddenFrame, SkipDisplayedFrame,
           EmitFrameEvent, EmitFrame, WithoutBuffer, PassFrame, OutputPixels, ShowFrame,
           LeaveShownFrame, OutputPixelsFails, WriteFails, AdvanceCurrentFrame,
           frameVars, previewVars
    <3> QED BY <3>1, <3>2, <3>3
  <2> QED
    BY <1>10, <2>1, FrameStepsOnly DEF callVars, headVars, jpegVars, boxVars, boxCursor
<1>11. CASE ReportStep
  <2>1. UNCHANGED callVars BY <1>11, LoopLeavesCalls DEF ReportStep, LoopStep
  <2> QED
    BY <1>11, <2>1, ReportsOnly DEF callVars, jpegVars, boxVars, boxCursor, frameVars,
         previewVars
<1>12. CASE UNCHANGED vars
  BY <1>12 DEF vars, callVars, headVars, jpegVars, boxVars, boxCursor, frameVars,
       previewVars
<1> QED
  BY <1>2, <1>3, <1>4, <1>5, <1>6, <1>7, <1>8, <1>9, <1>10, <1>11, <1>12, StepKinds

LEMMA OrderStep ==
  ASSUME ClientInv, FramesInv, BoxesInv, OrderInv, [Next]_vars
  PROVE  OrderInv'
<1> SUFFICES ASSUME frame_parsed'
             PROVE  /\ (Wants("BOX") => box_index > Len(Boxes))'
                    /\ (BasicInfoDone /\ ColorDone /\ JpegEventDone /\ PreviewDone)'
  BY DEF OrderInv, EventOrder
<1>0. file' = file /\ box_index \in Nat BY FileFixed DEF BoxesInv, BoxTypes
<1>1. CASE ParseStep
  <2>1. UNCHANGED <<callVars, headVars, boxVars, jpegVars, preview_emitted>>
    BY <1>1 DEF ParseStep, ParseFrame, ParseFrameFails
  <2>2. /\ ~BoxesLeft /\ BasicInfoDone /\ ColorDone /\ JpegEventDone /\ PreviewDone
    BY <1>1 DEF ParseStep, AtFrames, AtHeaders
  <2>3. (BasicInfoDone /\ ColorDone /\ JpegEventDone /\ PreviewDone)'
    BY <2>1, <2>2 DEF callVars, headVars, jpegVars, BasicInfoDone, ColorDone,
         JpegEventDone, PreviewDone, Wants
  <2>4. Wants("BOX") => box_index > Len(Boxes)
    <3>1. Len(Boxes) \in Nat BY BoxFacts DEF ClientInv, CallTypes, BoxesInv
    <3> QED BY <1>0, <2>2, <3>1 DEF BoxesLeft
  <2>5. UNCHANGED <<Wants("BOX"), box_index, Boxes>>
    BY <2>1 DEF callVars, headVars, boxVars, boxCursor, Boxes, Wants
  <2> QED BY <2>3, <2>4, <2>5
<1>2. CASE FrameMove
  <2>1. frame_parsed /\ ~Rewind /\ ~Reset
    BY <1>2 DEF FrameMove, AdvanceCurrentFrame, ForgetFrame, Rewind, Reset,
         ResetFrameIteration, ClearFrames, RestartFrames
  <2>2. started_processing /\ basic_info_available
    BY <2>1 DEF FramesInv, CursorInv
  <2>3. UNCHANGED <<subscribed_events, basic_info_available, Boxes>>
    BY <1>0, <2>1, <2>2, AnnouncedStays, FrameDataFixed DEF ParseHeaders, Boxes
  <2>4. /\ Wants("BOX") => box_index > Len(Boxes)
        /\ BasicInfoDone /\ ColorDone /\ JpegEventDone /\ PreviewDone
    BY <2>1 DEF OrderInv, EventOrder
  <2>5. (BasicInfoDone /\ ColorDone /\ JpegEventDone /\ PreviewDone)'
    BY <1>0, <2>1, <2>3, <2>4, AnnouncedStays
       DEF BasicInfoDone, ColorDone, JpegEventDone, PreviewDone, Wants
  <2>6. box_index' \in Nat /\ box_index' >= box_index
    BY <1>0, <2>1, AnnouncedStays, BoxesStep DEF BoxesInv, BoxTypes
  <2>7. Len(Boxes) \in Nat BY BoxFacts DEF ClientInv, CallTypes, BoxesInv
  <2>8. Wants("BOX") => box_index' > Len(Boxes) BY <1>0, <2>4, <2>6, <2>7
  <2> QED BY <2>3, <2>5, <2>8 DEF Wants
<1> QED BY <1>1, <1>2, CursorMoves

-----------------------------------------------------------------------------
(* The theorems.                                                           *)

\* The inductive invariant behind them.
SafetyInv ==
  /\ ClientInv /\ FramesInv /\ JpegBytesInv /\ BoxesInv
  /\ EndInv /\ SupplyInv /\ OrderInv /\ SuccessIsComplete

LEMMA SafetyInit ==
  ASSUME Init
  PROVE  SafetyInv
<1>1. ClientInv /\ FramesInv /\ JpegBytesInv /\ BoxesInv
  BY ClientInit, FramesInit, JpegBytesInit, BoxesInit
<1>2. EndInv BY DEF Init, FrameInit, EndInv
<1>3. SupplyInv BY DEF Init, SupplyInv, Running
<1>4. OrderInv BY DEF Init, FrameInit, OrderInv, EventOrder
<1>5. SuccessIsComplete BY DEF Init, SuccessIsComplete
<1> QED BY <1>1, <1>2, <1>3, <1>4, <1>5 DEF SafetyInv

LEMMA SafetyStep ==
  ASSUME SafetyInv, [Next]_vars
  PROVE  SafetyInv'
<1>1. ClientInv' BY ClientStep DEF SafetyInv
<1>2. FramesInv' BY FramesStep DEF SafetyInv
<1>3. JpegBytesInv' BY JpegStep DEF SafetyInv
<1>4. BoxesInv' BY BoxesStep DEF SafetyInv
<1>5. EndInv' BY EndStep DEF SafetyInv
<1>6. SupplyInv' BY SupplyStep DEF SafetyInv
<1>7. OrderInv' BY OrderStep DEF SafetyInv
<1>8. SuccessIsComplete' BY SuccessStep DEF SafetyInv
<1> QED BY <1>1, <1>2, <1>3, <1>4, <1>5, <1>6, <1>7, <1>8 DEF SafetyInv

THEOREM Safety == Spec => []SafetyInv
<1>1. Init => SafetyInv BY SafetyInit
<1>2. SafetyInv /\ [Next]_vars => SafetyInv' BY SafetyStep
<1> QED BY <1>1, <1>2, PTL DEF Spec

\* Every variable keeps its type: no counter of DecoderImpl wraps below zero
\* and no frame index leaves the file, whatever is called in whatever order.
THEOREM TypeCorrect == Spec => []TypeOK
<1>1. SafetyInv => TypeOK
  BY DEF SafetyInv, ClientInv, FramesInv, JpegBytesInv, BoxesInv, TypeOK
<1> QED BY <1>1, Safety, PTL

\* JxlDecoderProcessInput returns JXL_DEC_SUCCESS only after the caller
\* supplied the file up to and including a last frame, for every file and every
\* way of cutting it.
THEOREM TruncatedNeverSucceeds == Spec => []SuccessIsComplete
<1>1. SafetyInv => SuccessIsComplete BY DEF SafetyInv
<1> QED BY <1>1, Safety, PTL

\* No reconstructed JPEG byte is lost or handed out twice by outputJPEG,
\* whatever buffers of whatever sizes are set and released.
THEOREM JpegBytesKept == Spec => []NoJpegByteLost
<1>1. SafetyInv => NoJpegByteLost BY DEF SafetyInv, JpegBytesInv
<1> QED BY <1>1, Safety, PTL

\* The counts the two release functions return cannot wrap.
THEOREM ReleaseCountsCannotWrap == Spec => []ReleaseCountsFit
<1>1. SafetyInv => ReleaseCountsFit
  BY DEF SafetyInv, JpegBytesInv, BoxesInv, ReleaseCountsFit
<1> QED BY <1>1, Safety, PTL

\* A client that follows decode.h finds every byte of a box in the buffers it
\* held, whatever their sizes, refills and rewinds.
THEOREM BoxBytesKept == Spec => []NoBoxByteLost
<1>1. SafetyInv => NoBoxByteLost BY DEF SafetyInv, BoxesInv
<1> QED BY <1>1, Safety, PTL

\* JXL_DEC_BOX_COMPLETE is only returned for a box handed out whole.
THEOREM CompleteBoxesAreWhole == Spec => []BoxCompleteIsWhole
<1>1. SafetyInv => BoxCompleteIsWhole
  BY DEF SafetyInv, BoxesInv, BoxInv, BoxCompleteIsWhole, BoxesLeft
<1> QED BY <1>1, Safety, PTL

\* Every box comes before any frame, and no frame before the events announced
\* ahead of it, also after a rewind with another subscription.
THEOREM EventsInOrder == Spec => []EventOrder
<1>1. SafetyInv => EventOrder BY DEF SafetyInv, OrderInv
<1> QED BY <1>1, Safety, PTL
=============================================================================
