---------------------------- MODULE SessionProofs ----------------------------
(***************************************************************************)
(* Proofs about what happens to each frame: the session's references and   *)
(* noise seeds follow the codestream, a pixel buffer only receives the     *)
(* frame it was set for, JXL_DEC_FULL_IMAGE is backed by data, and a frame *)
(* bypasses the session only when nobody wanted it.                        *)
(***************************************************************************)
EXTENDS DecoderProofs, FiniteSetTheorems

-----------------------------------------------------------------------------
(* What a step does to the current frame.                                  *)

\* The cursor, the session and the frame's outcome stay.
Quiet ==
  /\ UNCHANGED <<sessionVars, frame_offset, frame_parsed, frame_displayed,
                 frame_decoded, decoded_frame, full_image_emitted, fate>>
  /\ SetImageOutBuffer \/ UNCHANGED outputVars
  /\ started_processing => UNCHANGED coalescing

\* The frame is decoded, and perhaps shown, without being left.
DecodedInPlace ==
  /\ frame_parsed /\ frame_displayed /\ DecodeCurrentFrame /\ decoded_frame' = TRUE
  /\ \/ /\ ~full_image_emitted /\ full_image_emitted' = TRUE
        /\ frame_decoded' = TRUE /\ Settle("shown")
     \/ UNCHANGED <<frame_decoded, full_image_emitted, fate>>
  /\ UNCHANGED <<coalescing, frame_offset, frame_parsed, frame_displayed, outputVars>>

\* The frame's JPEG bytes are reported.
JpegShown ==
  /\ frame_parsed /\ frame_displayed /\ jpeg_requested /\ file.jbrds = 1
  /\ ShowJpegFrame

\* The frame is left after it went through the session.
LeftDecoded ==
  /\ frame_parsed /\ DecodeCurrentFrame /\ AdvanceCurrentFrame
  /\ \/ frame_displayed /\ (Settle("shown") \/ Settle("skipped"))
     \/ ~frame_displayed /\ Settle("hidden")

\* The frame is left without going through the session.
LeftUndecoded ==
  /\ frame_parsed /\ frame_displayed /\ AdvanceCurrentFrame /\ UNCHANGED sessionVars
  /\ \/ Settle("passed") /\ ~Wants("FULL_IMAGE")
     \/ Settle("jpeg") /\ jpeg_requested /\ file.jbrds = 1

Restarted == (Rewind \/ Reset) /\ RestartFrames /\ ~started_processing'

LEMMA FrameOutcomes ==
  ASSUME FramesInv, DecodedInv, [Next]_vars
  PROVE  \/ Quiet \/ DecodedInPlace \/ JpegShown \/ LeftDecoded
         \/ LeftUndecoded \/ Restarted \/ ParseStep
<1>1. ASSUME UNCHANGED frameVars PROVE Quiet
  BY <1>1 DEF Quiet, frameVars, frameState
<1>2. CASE SettingCall BY <1>1, <1>2, SettingsOnly
<1>3. CASE BoxCallStep \/ JpegCallStep BY <1>1, <1>3 DEF BoxCallStep, JpegCallStep
<1>4. CASE Rewind \/ Reset
  BY <1>4 DEF Restarted, Rewind, Reset, ResetFrameIteration, ClearFrames
<1>5. CASE WalkBoxes \/ EmitJpegReconstruction
  BY <1>1, <1>5 DEF WalkBoxes, EmitJpegReconstruction
<1>6. CASE ReportStep BY <1>1, <1>6, ReportsOnly
<1>7. CASE ParseHeaders BY <1>7 DEF ParseHeaders, frameState, Quiet
<1>8. CASE FrameCall
  <2>1. CASE SkipCurrentFrame
    <3>1. Settle("skipped") \/ Settle("hidden") BY <2>1 DEF SkipCurrentFrame
    <3> QED BY <2>1, <3>1 DEF SkipCurrentFrame, LeftDecoded
  <2>2. CASE ~SkipCurrentFrame
    BY <1>8, <2>2 DEF FrameCall, SetCoalescing, SetPreviewOutBuffer,
         SetImageOutBuffer, SkipFrames, frameState, Quiet
  <2> QED BY <2>1, <2>2
<1>9. CASE EmitPreview BY <1>9 DEF EmitPreview, frameState, Quiet
<1>10. CASE SilentFrame
  BY <1>10 DEF SilentFrame, RenderHiddenFrame, SkipDisplayedFrame, LeftDecoded
<1>11. CASE EmitFrameEvent BY <1>11 DEF EmitFrameEvent, EmitFrame, Quiet
<1>12. CASE WithoutBuffer
  BY <1>1, <1>12 DEF WithoutBuffer, PassFrame, LeftUndecoded, AtPixels, AtOutput, AtDisplayed
<1>13. CASE OutputPixels
  <2>1. frame_parsed /\ frame_displayed
    BY <1>13 DEF OutputPixels, AtPixels, AtOutput, AtDisplayed
  <2>2. frame_decoded => decoded_frame = TRUE BY DEF DecodedInv, FramesInv, FrameTypes
  <2>3. CASE ShowFrame
    <3>1. DecodeCurrentFrame /\ decoded_frame' = TRUE
      BY <2>2, <2>3 DEF ShowFrame, DecodeCurrentFrame
    <3> QED BY <2>1, <2>3, <3>1 DEF ShowFrame, DecodedInPlace
  <2>4. CASE LeaveShownFrame
    <3>1. DecodeCurrentFrame BY <2>2, <2>4 DEF LeaveShownFrame, DecodeCurrentFrame
    <3> QED BY <2>1, <2>4, <3>1 DEF LeaveShownFrame, LeftDecoded
  <2> QED BY <1>13, <2>3, <2>4 DEF OutputPixels
<1>14. CASE OutputPixelsFails
  BY <1>14 DEF OutputPixelsFails, WriteFails, DecodedInPlace, AtPixels, AtOutput, AtDisplayed
<1>15. CASE ReconstructJpeg
  <2>1. frame_parsed /\ frame_displayed /\ jpeg_requested /\ file.jbrds = 1
    BY <1>15 DEF ReconstructJpeg, AtJpeg, AtOutput, AtDisplayed
  <2> QED
    BY <1>1, <1>15, <2>1 DEF ReconstructJpeg, LeaveJpegFrame, JpegShown, LeftUndecoded
<1>16. CASE UNCHANGED vars BY <1>1, <1>16 DEF vars
<1> QED
  BY <1>2, <1>3, <1>4, <1>5, <1>6, <1>7, <1>8, <1>9, <1>10, <1>11, <1>12, <1>13,
     <1>14, <1>15, <1>16, StepKinds DEF FrameStep

\* Parsing settles nothing and decodes nothing.
LEMMA ParsingOnly ==
  ASSUME ParseStep
  PROVE  /\ ~frame_parsed
         /\ UNCHANGED <<sessionVars, coalescing, frame_decoded, decoded_frame,
                        full_image_emitted, fate, outputVars>>
  BY DEF ParseStep, ParseFrame, ParseFrameFails

\* A pass over the file ends with a rewind or a reset.
LEMMA StartedStays ==
  ASSUME [Next]_vars, started_processing, ~started_processing'
  PROVE  Restarted /\ status' = "IDLE"
<1>1. CASE SettingCall BY <1>1, SettingsOnly
<1>2. CASE FrameCall BY <1>2, FrameCallsOnly DEF callVars
<1>3. CASE BoxCallStep \/ JpegCallStep BY <1>3 DEF BoxCallStep, JpegCallStep, callVars
<1>4. CASE Rewind \/ Reset
  BY <1>4 DEF Restarted, Rewind, Reset, ResetFrameIteration, ClearFrames
<1>5. CASE LoopStep BY <1>5, LoopLeavesCalls DEF callVars
<1>6. CASE UNCHANGED vars BY <1>6 DEF vars, callVars
<1> QED BY <1>1, <1>2, <1>3, <1>4, <1>5, <1>6, StepKinds
        DEF LoopStep, FrameStep, ReportStep

\* Leaving a frame makes the next one current.
LEMMA LeavingAdvances ==
  ASSUME file \in Files, FramesInv, frame_parsed, AdvanceCurrentFrame, file' = file
  PROVE  /\ CurrentFrame' = CurrentFrame + 1
         /\ CurrentFrame \in 1 .. FrameCount
         /\ ~frame_parsed' /\ ~frame_decoded' /\ ~decoded_frame' /\ ~full_image_emitted'
<1>1. /\ PreviewUnits(file) <= frame_offset
      /\ CurrentFrame = frame_offset - PreviewUnits(file) + 1
      /\ PreviewUnits(file) \in {0, 1} /\ frame_offset \in Nat
      /\ CurrentFrame \in 1 .. FrameCount
  BY CurrentFrameInRange, FileFacts DEF FramesInv, CursorInv, FrameTypes
<1>2. frame_offset' = frame_offset + 1 /\ ForgetFrame
  BY DEF AdvanceCurrentFrame
<1>3. CurrentFrame' = CurrentFrame + 1 BY <1>1, <1>2 DEF CurrentFrame
<1> QED BY <1>1, <1>2, <1>3 DEF ForgetFrame

\* What Settle leaves of the other frames' outcomes.
LEMMA SettleFacts ==
  ASSUME file \in Files, FramesInv, frame_parsed, NEW outcome, Settle(outcome)
  PROVE  /\ \A i \in 1 .. FrameCount : i # CurrentFrame => fate'[i] = fate[i]
         /\ fate[CurrentFrame] = "pending" => fate'[CurrentFrame] = outcome
         /\ fate[CurrentFrame] # "pending" => fate'[CurrentFrame] = fate[CurrentFrame]
         /\ CurrentFrame \in 1 .. FrameCount
<1>1. CurrentFrame \in 1 .. FrameCount BY CurrentFrameInRange DEF FramesInv
<1> QED BY <1>1 DEF Settle, FramesInv, FrameTypes

-----------------------------------------------------------------------------
(* The outcome of each frame, and the buffer it is written to.             *)

OutcomeInv == DecodedInv /\ FateInv /\ BufferInv

LEMMA OutcomeInit ==
  ASSUME Init
  PROVE  OutcomeInv
<1>1. FrameInit BY DEF Init
<1>2. DecodedInv /\ BufferInv BY <1>1 DEF FrameInit, DecodedInv, BufferInv
<1>3. FateInv BY <1>1 DEF FrameInit, FateInv, AllPending, FrameCount
<1> QED BY <1>2, <1>3 DEF OutcomeInv

LEMMA OutcomeStep ==
  ASSUME ClientInv, FramesInv, OutcomeInv, [Next]_vars
  PROVE  OutcomeInv'
<1> USE DEF OutcomeInv
<1>0. /\ file \in Files /\ file' = file /\ FrameCount' = FrameCount
  BY FileFixed DEF ClientInv, CallTypes, FrameCount
<1>c. CurrentFrame \in Nat /\ FrameCount \in Nat
  BY <1>0, FileFacts DEF CurrentFrame, FramesInv, FrameTypes
<1>s. started_processing /\ ~started_processing' => Restarted BY StartedStays
<1>p. frame_parsed => started_processing BY DEF FramesInv, CursorInv
<1>1. CASE Restarted
  <2>1. DecodedInv' /\ BufferInv'
    BY <1>1 DEF Restarted, RestartFrames, ForgetFrame, DecodedInv, BufferInv
  <2>2. FateInv'
    BY <1>0, <1>1 DEF Restarted, RestartFrames, ForgetFrame, FateInv, AllPending, FrameCount
  <2> QED BY <2>1, <2>2
<1>2. CASE Quiet /\ ~Restarted
  <2>1. CurrentFrame' = CurrentFrame BY <1>0, <1>2 DEF Quiet, CurrentFrame
  <2>2. DecodedInv' BY <1>2 DEF Quiet, DecodedInv
  <2>3. FateInv' BY <1>0, <1>2, <1>s, <2>1 DEF Quiet, FateInv
  <2>4. BufferInv'
    <3>1. CASE UNCHANGED outputVars BY <1>2, <2>1, <3>1 DEF Quiet, BufferInv, outputVars
    <3>2. CASE SetImageOutBuffer
      BY <1>2, <2>1, <3>2 DEF Quiet, BufferInv, SetImageOutBuffer
    <3> QED BY <1>2, <3>1, <3>2 DEF Quiet
  <2> QED BY <2>2, <2>3, <2>4
<1>3. CASE ParseStep
  <2>1. CurrentFrame' = CurrentFrame BY <1>0, <1>3, ParsingKeepsCurrent
  <2>2. /\ UNCHANGED <<frame_decoded, decoded_frame, full_image_emitted, fate, outputVars>>
        /\ ~frame_parsed /\ started_processing'
    BY <1>3, ParsingOnly, LoopContext DEF LoopStep
  <2>3. DecodedInv' /\ FateInv' BY <1>0, <2>1, <2>2 DEF DecodedInv, FateInv
  <2>4. BufferInv' BY <2>2 DEF BufferInv, outputVars
  <2> QED BY <2>3, <2>4
<1>4. CASE (DecodedInPlace \/ JpegShown) /\ ~Restarted
  <2>1. /\ UNCHANGED <<frame_offset, frame_parsed, frame_displayed, outputVars>>
        /\ frame_parsed
    BY <1>4 DEF DecodedInPlace, JpegShown, ShowJpegFrame
  <2>2. CurrentFrame' = CurrentFrame BY <1>0, <2>1 DEF CurrentFrame
  <2>3. BufferInv' BY <2>1, <2>2 DEF BufferInv, outputVars
  <2>4. DecodedInv'
    <3>1. decoded_frame' = TRUE \/ UNCHANGED <<frame_decoded, decoded_frame>>
      BY <1>4 DEF DecodedInPlace, JpegShown, ShowJpegFrame
    <3> QED BY <3>1 DEF DecodedInv
  <2>5. CASE UNCHANGED <<full_image_emitted, fate>> /\ DecodedInPlace
    <3>1. FateInv' BY <1>0, <1>4, <1>s, <2>2, <2>5 DEF DecodedInPlace, FateInv
    <3> QED BY <2>3, <2>4, <3>1
  <2>6. ASSUME NEW outcome \in {"shown", "jpeg"}, Settle(outcome), ~full_image_emitted,
               full_image_emitted' = TRUE, outcome = "shown" => decoded_frame' = TRUE
        PROVE  FateInv'
    <3>1. CurrentFrame \in 1 .. FrameCount BY <1>0, <2>1, CurrentFrameInRange DEF FramesInv
    <3>2. fate[CurrentFrame] = "pending" BY <2>6, <3>1 DEF FateInv
    <3>3. /\ fate'[CurrentFrame] = outcome
          /\ \A i \in 1 .. FrameCount : i # CurrentFrame => fate'[i] = fate[i]
      BY <1>0, <2>1, <2>6, <3>2, SettleFacts
    <3>4. started_processing' BY <1>4, <1>s, <1>p, <2>1
    <3> QED BY <1>0, <1>c, <2>2, <2>6, <3>1, <3>3, <3>4 DEF FateInv
  <2> QED
    BY <1>4, <2>3, <2>4, <2>5, <2>6 DEF DecodedInPlace, JpegShown, ShowJpegFrame
<1>5. CASE (LeftDecoded \/ LeftUndecoded) /\ ~Restarted
  <2>1. frame_parsed /\ AdvanceCurrentFrame BY <1>5 DEF LeftDecoded, LeftUndecoded
  <2>2. /\ CurrentFrame' = CurrentFrame + 1 /\ CurrentFrame \in 1 .. FrameCount
        /\ ~frame_parsed' /\ ~frame_decoded' /\ ~decoded_frame' /\ ~full_image_emitted'
    BY <1>0, <2>1, LeavingAdvances
  <2>3. PICK outcome : Settle(outcome) BY <1>5 DEF LeftDecoded, LeftUndecoded
  <2>4. \A i \in 1 .. FrameCount : i # CurrentFrame => fate'[i] = fate[i]
    BY <1>0, <2>1, <2>3, SettleFacts
  <2>5. started_processing' BY <1>5, <1>s, <1>p, <2>1
  <2>6. FateInv' BY <1>0, <1>c, <2>2, <2>4, <2>5 DEF FateInv
  <2>7. BufferInv'
    BY <2>1 DEF AdvanceCurrentFrame, BufferInv, outputVars
  <2> QED BY <2>2, <2>6, <2>7 DEF DecodedInv
<1> QED BY <1>1, <1>2, <1>3, <1>4, <1>5, FrameOutcomes

-----------------------------------------------------------------------------
(* The references.                                                         *)

\* Session.decode takes the references of the first i - 1 frames to those of
\* the first i.
LEMMA SessionAdvances ==
  ASSUME file \in Files, SessionTypes,
         NEW i \in 1 .. FrameCount, SessionAt(i - 1, coalescing),
         SessionDecode(i, coalescing), UNCHANGED <<file, coalescing>>
  PROVE  SessionAt(i, coalescing)'
<1> SUFFICES ASSUME NEW s \in Slots
             PROVE  /\ PrescribedRef(refs[s], i, s, coalescing)'
                    /\ PrescribedDcRef(dc_refs[s], i, s)'
  BY DEF SessionAt
<1>0. i \in Nat \ {0} /\ Header(i) \in FrameHeader BY FileFacts
<1>1. /\ refs[s] \in 0 .. i - 1
      /\ refs[s] # 0 => /\ Saves(Header(refs[s]), coalescing)
                        /\ Header(refs[s]).save_as_reference = s
      /\ \A j \in refs[s] + 1 .. i - 1 :
           ~(Saves(Header(j), coalescing) /\ Header(j).save_as_reference = s)
  BY DEF SessionAt, PrescribedRef
<1>2. /\ dc_refs[s] \in 0 .. i - 1
      /\ dc_refs[s] # 0 => Header(dc_refs[s]).dc_level = s + 1
      /\ \A j \in dc_refs[s] + 1 .. i - 1 : Header(j).dc_level # s + 1
  BY DEF SessionAt, PrescribedDcRef
<1>3. \A j : Header(j)' = Header(j) BY DEF Header
<1> DEFINE saved == Saves(Header(i), coalescing) /\ Header(i).save_as_reference = s
           kept == Header(i).dc_level = s + 1
<1>4. PrescribedRef(refs[s], i, s, coalescing)'
  <2>1. refs'[s] = IF saved THEN i ELSE refs[s]
    <3>1. DOMAIN refs = Slots BY DEF SessionTypes
    <3> QED BY <3>1 DEF SessionDecode
  <2>2. CASE saved
    BY <1>0, <1>3, <2>1, <2>2 DEF PrescribedRef
  <2>3. CASE ~saved
    <3>1. \A j \in refs[s] + 1 .. i :
            ~(Saves(Header(j), coalescing) /\ Header(j).save_as_reference = s)
      BY <1>0, <1>1, <2>3
    <3> QED BY <1>0, <1>1, <1>3, <2>1, <2>3, <3>1 DEF PrescribedRef
  <2> QED BY <2>2, <2>3
<1>5. PrescribedDcRef(dc_refs[s], i, s)'
  <2>1. dc_refs'[s] = IF kept THEN i ELSE dc_refs[s]
    <3> DEFINE l == Header(i).dc_level
    <3>1. DOMAIN dc_refs = Slots /\ s \in Int BY DEF SessionTypes, Slots
    <3>2. l \in 0 .. 4 BY <1>0 DEF FrameHeader
    <3>3. dc_refs' = IF l # 0 THEN [dc_refs EXCEPT ![l - 1] = i] ELSE dc_refs
      BY DEF SessionDecode
    <3>4. l = s + 1 <=> l # 0 /\ l - 1 = s BY <3>1, <3>2 DEF Slots
    <3> HIDE DEF l
    <3>5. dc_refs'[s] = IF l = s + 1 THEN i ELSE dc_refs[s]
      BY <3>1, <3>2, <3>3, <3>4
    <3> QED BY <3>5 DEF l
  <2>2. CASE kept BY <1>0, <1>3, <2>1, <2>2 DEF PrescribedDcRef
  <2>3. CASE ~kept
    <3>1. \A j \in dc_refs[s] + 1 .. i : Header(j).dc_level # s + 1
      BY <1>0, <1>2, <2>3
    <3> QED BY <1>0, <1>2, <1>3, <2>1, <2>3, <3>1 DEF PrescribedDcRef
  <2> QED BY <2>2, <2>3
<1> QED BY <1>4, <1>5

\* How a step moves the session, in terms of how many frames went through it:
\* not at all, by the current frame, or back to the start.
LEMMA SessionMoves ==
  ASSUME ClientInv, FramesInv, OutcomeInv, [Next]_vars, NoneBypassed'
  PROVE  \/ SessionPosition' = 0 /\ refs' = EmptySlots /\ dc_refs' = EmptySlots
            /\ visible_frame_index' = 0 /\ nonvisible_frame_index' = 0
         \/ NoneBypassed /\ UNCHANGED <<sessionVars, SessionPosition>>
            /\ (UNCHANGED coalescing \/ SessionPosition = 0)
         \/ /\ NoneBypassed /\ SessionPosition = CurrentFrame - 1
            /\ SessionPosition' = CurrentFrame /\ CurrentFrame \in 1 .. FrameCount
            /\ SessionDecode(CurrentFrame, coalescing) /\ UNCHANGED coalescing
<1> USE DEF OutcomeInv
<1>0. /\ file \in Files /\ file' = file /\ FrameCount' = FrameCount
      /\ CurrentFrame \in Nat \ {0} /\ PreviewUnits(file) \in {0, 1}
  BY FileFixed, FileFacts DEF ClientInv, CallTypes, FrameCount, CurrentFrame,
       FramesInv, FrameTypes
<1>1. CASE Restarted
  <2>1. frame_offset' = 0 /\ ~decoded_frame' /\ SessionDeinit
    BY <1>1 DEF Restarted, RestartFrames, ForgetFrame
  <2>2. PreviewUnits(file)' \in {0, 1} BY <1>0
  <2>3. CurrentFrame' = 1 BY <2>1, <2>2 DEF CurrentFrame
  <2> QED BY <2>1, <2>3 DEF SessionPosition, SessionDeinit
<1>2. CASE Quiet
  <2>1. CurrentFrame' = CurrentFrame /\ UNCHANGED <<decoded_frame, fate, sessionVars>>
    BY <1>0, <1>2 DEF Quiet, CurrentFrame
  <2>2. NoneBypassed /\ SessionPosition' = SessionPosition
    BY <2>1 DEF NoneBypassed, SessionPosition
  <2>3. CASE started_processing BY <1>2, <2>1, <2>2, <2>3 DEF Quiet
  <2>4. CASE ~started_processing
    <3>1. frame_offset = 0 /\ ~decoded_frame BY <2>4 DEF FramesInv, CursorInv
    <3>2. CurrentFrame = 1 BY <1>0, <3>1 DEF CurrentFrame
    <3> QED BY <2>1, <2>2, <3>1, <3>2 DEF SessionPosition
  <2> QED BY <2>3, <2>4
<1>3. CASE ParseStep
  <2>1. CurrentFrame' = CurrentFrame BY <1>0, <1>3, ParsingKeepsCurrent
  <2>2. UNCHANGED <<decoded_frame, fate, sessionVars, coalescing>>
    BY <1>3, ParsingOnly
  <2> QED BY <2>1, <2>2 DEF NoneBypassed, SessionPosition
<1>4. CASE DecodedInPlace \/ JpegShown
  <2>1. /\ UNCHANGED <<frame_offset, coalescing>> /\ frame_parsed
        /\ \/ UNCHANGED fate
           \/ \E outcome : Settle(outcome)
    BY <1>4 DEF DecodedInPlace, JpegShown, ShowJpegFrame
  <2>2. CurrentFrame' = CurrentFrame BY <1>0, <2>1 DEF CurrentFrame
  <2>3. CurrentFrame \in 1 .. FrameCount BY <1>0, <2>1, CurrentFrameInRange DEF FramesInv
  <2>4. \A i \in 1 .. FrameCount : i # CurrentFrame => fate'[i] = fate[i]
    BY <1>0, <2>1, SettleFacts
  <2>5. NoneBypassed BY <1>0, <2>2, <2>3, <2>4, FileFacts DEF NoneBypassed
  <2>6. CASE UNCHANGED <<sessionVars, decoded_frame>>
    BY <2>1, <2>2, <2>5, <2>6 DEF SessionPosition
  <2>7. CASE SessionDecode(CurrentFrame, coalescing) /\ ~decoded_frame /\ decoded_frame' = TRUE
    <3>1. SessionPosition = CurrentFrame - 1 BY <1>0, <2>7 DEF SessionPosition
    <3>2. SessionPosition' = CurrentFrame BY <1>0, <2>2, <2>7 DEF SessionPosition
    <3> QED BY <2>1, <2>3, <2>5, <2>7, <3>1, <3>2
  <2> QED
    <3>1. decoded_frame \in BOOLEAN BY DEF FramesInv, FrameTypes
    <3> QED
      BY <1>4, <2>6, <2>7, <3>1
         DEF DecodedInPlace, JpegShown, ShowJpegFrame, DecodeCurrentFrame
<1>5. CASE LeftDecoded \/ LeftUndecoded
  <2>1. frame_parsed /\ AdvanceCurrentFrame BY <1>5 DEF LeftDecoded, LeftUndecoded
  <2>2. /\ CurrentFrame' = CurrentFrame + 1 /\ CurrentFrame \in 1 .. FrameCount
        /\ ~decoded_frame' /\ UNCHANGED coalescing
    BY <1>0, <2>1, LeavingAdvances DEF AdvanceCurrentFrame
  <2>3. PICK outcome : /\ Settle(outcome)
                       /\ LeftDecoded \/ outcome \in {"passed", "jpeg"}
    BY <1>5 DEF LeftDecoded, LeftUndecoded
  <2>4. /\ \A i \in 1 .. FrameCount : i # CurrentFrame => fate'[i] = fate[i]
        /\ fate[CurrentFrame] = "pending" => fate'[CurrentFrame] = outcome
        /\ fate[CurrentFrame] # "pending" => fate'[CurrentFrame] = fate[CurrentFrame]
    BY <1>0, <2>1, <2>3, SettleFacts
  <2>5. NoneBypassed BY <1>0, <2>2, <2>4, FileFacts DEF NoneBypassed
  <2>6. fate'[CurrentFrame] \notin {"passed", "jpeg"}
    BY <1>0, <2>2 DEF NoneBypassed
  <2>7. SessionPosition' = CurrentFrame BY <1>0, <2>2 DEF SessionPosition
  <2>8. CASE UNCHANGED sessionVars /\ decoded_frame
    BY <1>0, <2>2, <2>5, <2>7, <2>8 DEF SessionPosition
  <2>9. CASE SessionDecode(CurrentFrame, coalescing) /\ ~decoded_frame
    BY <1>0, <2>2, <2>5, <2>7, <2>9 DEF SessionPosition
  <2>10. CASE LeftDecoded
    BY <2>8, <2>9, <2>10 DEF LeftDecoded, DecodeCurrentFrame
  <2>11. CASE ~LeftDecoded
    <3>1. fate[CurrentFrame] = "shown"
      BY <2>2, <2>3, <2>4, <2>6, <2>11 DEF FateInv
    <3>2. decoded_frame BY <2>2, <3>1 DEF FateInv
    <3> QED BY <1>5, <2>8, <2>11, <3>2 DEF LeftUndecoded
  <2> QED BY <2>10, <2>11
<1> QED BY <1>1, <1>2, <1>3, <1>4, <1>5, FrameOutcomes

LEMMA RefsStep ==
  ASSUME ClientInv, FramesInv, OutcomeInv, RefsInOrder, [Next]_vars
  PROVE  RefsInOrder'
<1> SUFFICES ASSUME NoneBypassed'
             PROVE  SessionAt(SessionPosition, coalescing)'
  BY DEF RefsInOrder
<1>0. file \in Files /\ file' = file BY FileFixed DEF ClientInv, CallTypes
<1>1. CASE SessionPosition' = 0 /\ refs' = EmptySlots /\ dc_refs' = EmptySlots
  BY <1>1 DEF SessionAt, PrescribedRef, PrescribedDcRef, EmptySlots
<1>2. CASE /\ NoneBypassed /\ UNCHANGED <<sessionVars, SessionPosition>>
           /\ UNCHANGED coalescing
  <2>1. SessionAt(SessionPosition, coalescing) BY <1>2 DEF RefsInOrder
  <2> QED
    BY <1>0, <1>2, <2>1 DEF SessionAt, PrescribedRef, PrescribedDcRef, sessionVars, Header
<1>3. CASE /\ NoneBypassed /\ UNCHANGED <<sessionVars, SessionPosition>>
           /\ SessionPosition = 0
  <2>1. SessionAt(0, coalescing) BY <1>3 DEF RefsInOrder
  <2>2. SessionAt(0, coalescing)'
    BY <1>0, <1>3, <2>1 DEF SessionAt, PrescribedRef, PrescribedDcRef, sessionVars, Header
  <2> QED BY <1>3, <2>2
<1>4. CASE /\ NoneBypassed /\ SessionPosition = CurrentFrame - 1
           /\ SessionPosition' = CurrentFrame /\ CurrentFrame \in 1 .. FrameCount
           /\ SessionDecode(CurrentFrame, coalescing) /\ UNCHANGED coalescing
  <2>1. PICK i \in 1 .. FrameCount : i = CurrentFrame BY <1>4
  <2>2. SessionAt(i - 1, coalescing) BY <1>4, <2>1 DEF RefsInOrder
  <2>3. SessionDecode(i, coalescing) BY <1>4, <2>1
  <2>4. SessionAt(i, coalescing)'
    BY <1>0, <1>4, <2>2, <2>3, SessionAdvances DEF FramesInv
  <2> QED BY <1>4, <2>1, <2>4
<1> QED BY <1>1, <1>2, <1>3, <1>4, SessionMoves

-----------------------------------------------------------------------------
(* The noise seeds.                                                        *)

\* The frames of the first n that are visible, and those behind the last
\* visible one.
VisibleUpTo(n) == {j \in 1 .. n : Visible(Header(j))}
HiddenSince(n) == {j \in 1 .. n : \A k \in j .. n : ~Visible(Header(k))}

LEMMA SeedSets ==
  ASSUME NEW i \in Nat \ {0}
  PROVE  /\ IsFiniteSet(VisibleUpTo(i - 1)) /\ IsFiniteSet(HiddenSince(i - 1))
         /\ i \notin VisibleUpTo(i - 1) /\ i \notin HiddenSince(i - 1)
         /\ Visible(Header(i)) => /\ VisibleUpTo(i) = VisibleUpTo(i - 1) \cup {i}
                                  /\ HiddenSince(i) = {}
         /\ ~Visible(Header(i)) => /\ VisibleUpTo(i) = VisibleUpTo(i - 1)
                                   /\ HiddenSince(i) = HiddenSince(i - 1) \cup {i}
<1>1. IsFiniteSet(1 .. i - 1) BY FS_Interval
<1>2. VisibleUpTo(i - 1) \subseteq 1 .. i - 1 /\ HiddenSince(i - 1) \subseteq 1 .. i - 1
  BY DEF VisibleUpTo, HiddenSince
<1>3. IsFiniteSet(VisibleUpTo(i - 1)) /\ IsFiniteSet(HiddenSince(i - 1))
  BY <1>1, <1>2, FS_Subset
<1>4. i \notin 1 .. i - 1 OBVIOUS
<1>5. ASSUME Visible(Header(i))
      PROVE  VisibleUpTo(i) = VisibleUpTo(i - 1) \cup {i} /\ HiddenSince(i) = {}
  BY <1>5 DEF VisibleUpTo, HiddenSince
<1>6. ASSUME ~Visible(Header(i))
      PROVE  /\ VisibleUpTo(i) = VisibleUpTo(i - 1)
             /\ HiddenSince(i) = HiddenSince(i - 1) \cup {i}
  <2>1. VisibleUpTo(i) = VisibleUpTo(i - 1) BY <1>6 DEF VisibleUpTo
  <2>2. ASSUME NEW j \in 1 .. i - 1
        PROVE  (\A k \in j .. i : ~Visible(Header(k)))
                 <=> (\A k \in j .. i - 1 : ~Visible(Header(k)))
    BY <1>6
  <2>3. \A k \in i .. i : ~Visible(Header(k)) BY <1>6
  <2>4. HiddenSince(i) = HiddenSince(i - 1) \cup {i}
    BY <2>2, <2>3 DEF HiddenSince
  <2> QED BY <2>1, <2>4
<1> QED BY <1>2, <1>3, <1>4, <1>5, <1>6

\* Session.decode counts a visible frame once and restarts the other count.
LEMMA SeedsAdvance ==
  ASSUME NEW i \in Nat \ {0}, SeedsAt(i - 1), SessionDecode(i, coalescing),
         file' = file
  PROVE  SeedsAt(i)'
<1>1. SeedsAt(i)' <=>
        /\ visible_frame_index' = Cardinality(VisibleUpTo(i))
        /\ nonvisible_frame_index' = Cardinality(HiddenSince(i))
  BY DEF SeedsAt, VisibleUpTo, HiddenSince, Header
<1>2. /\ visible_frame_index = Cardinality(VisibleUpTo(i - 1))
      /\ nonvisible_frame_index = Cardinality(HiddenSince(i - 1))
  BY DEF SeedsAt, VisibleUpTo, HiddenSince
<1>3. /\ Cardinality(VisibleUpTo(i - 1) \cup {i}) = Cardinality(VisibleUpTo(i - 1)) + 1
      /\ Cardinality(HiddenSince(i - 1) \cup {i}) = Cardinality(HiddenSince(i - 1)) + 1
  BY SeedSets, FS_AddElement
<1>4. CASE Visible(Header(i))
  <2>1. visible_frame_index' = visible_frame_index + 1 /\ nonvisible_frame_index' = 0
    BY <1>4 DEF SessionDecode
  <2> QED BY <1>1, <1>2, <1>3, <1>4, <2>1, SeedSets, FS_EmptySet
<1>5. CASE ~Visible(Header(i))
  <2>1. /\ visible_frame_index' = visible_frame_index
        /\ nonvisible_frame_index' = nonvisible_frame_index + 1
    BY <1>5 DEF SessionDecode
  <2> QED BY <1>1, <1>2, <1>3, <1>5, <2>1, SeedSets
<1> QED BY <1>4, <1>5

LEMMA SeedsStep ==
  ASSUME ClientInv, FramesInv, OutcomeInv, SeedsInOrder, [Next]_vars
  PROVE  SeedsInOrder'
<1> SUFFICES ASSUME NoneBypassed'
             PROVE  SeedsAt(SessionPosition)'
  BY DEF SeedsInOrder
<1>0. file \in Files /\ file' = file BY FileFixed DEF ClientInv, CallTypes
<1>1. CASE /\ SessionPosition' = 0
           /\ visible_frame_index' = 0 /\ nonvisible_frame_index' = 0
  <2>1. 1 .. 0 = {} OBVIOUS
  <2>2. SeedsAt(0)' BY <1>1, <2>1, FS_EmptySet DEF SeedsAt
  <2> QED BY <1>1, <2>2
<1>2. CASE NoneBypassed /\ UNCHANGED <<sessionVars, SessionPosition>>
  <2>1. SeedsAt(SessionPosition) BY <1>2 DEF SeedsInOrder
  <2> QED BY <1>0, <1>2, <2>1 DEF SeedsAt, sessionVars, Header
<1>3. CASE /\ NoneBypassed /\ SessionPosition = CurrentFrame - 1
           /\ SessionPosition' = CurrentFrame /\ CurrentFrame \in 1 .. FrameCount
           /\ SessionDecode(CurrentFrame, coalescing)
  <2>1. PICK i \in 1 .. FrameCount : i = CurrentFrame BY <1>3
  <2>2. SeedsAt(i - 1) BY <1>3, <2>1 DEF SeedsInOrder
  <2>3. SessionDecode(i, coalescing) /\ i \in Nat \ {0} BY <1>3, <2>1, FileFacts, <1>0
  <2>4. SeedsAt(i)' BY <1>0, <2>2, <2>3, SeedsAdvance
  <2> QED BY <1>3, <2>1, <2>4
<1> QED BY <1>1, <1>2, <1>3, SessionMoves

-----------------------------------------------------------------------------
(* What is asked for and what is delivered.                                *)

\* The client's request for a JPEG stands, and the bytes handed out stay
\* counted, until the decoder is set back.
LEMMA JpegRequestStays ==
  ASSUME [Next]_vars, ~Rewind, ~Reset, ~ReconstructJpeg
  PROVE  /\ jpeg_requested => jpeg_requested'
         /\ UNCHANGED jpeg_offset
<1>1. ASSUME UNCHANGED jpegVars
      PROVE  UNCHANGED <<jpeg_requested, jpeg_offset>>
  BY <1>1 DEF jpegVars
<1>2. CASE JpegCallStep
  <2>1. ASSUME NEW size, SetJPEGBuffer(size)
        PROVE  jpeg_requested' = (jpeg_requested \/ size # NoBuffer) /\ UNCHANGED jpeg_offset
    BY <2>1 DEF SetJPEGBuffer
  <2>2. ASSUME NEW size, SetJPEGBuffer(size)
        PROVE  (jpeg_requested => jpeg_requested') /\ UNCHANGED jpeg_offset
    BY <2>1, <2>2, Zenon
  <2>3. ReleaseJPEGBuffer => UNCHANGED <<jpeg_requested, jpeg_offset>>
    BY DEF ReleaseJPEGBuffer
  <2> QED BY <1>2, <2>2, <2>3 DEF JpegCallStep, JpegCall
<1>3. CASE EmitJpegReconstruction BY <1>3 DEF EmitJpegReconstruction
<1>4. CASE SettingCall BY <1>1, <1>4, SettingsOnly
<1>5. CASE FrameCall BY <1>1, <1>5, FrameCallsOnly
<1>6. CASE BoxCallStep BY <1>1, <1>6 DEF BoxCallStep
<1>7. CASE FrameStep BY <1>1, <1>7, FrameStepsOnly
<1>8. CASE ReportStep BY <1>1, <1>8, ReportsOnly
<1>9. CASE ParseHeaders \/ WalkBoxes BY <1>1, <1>9 DEF ParseHeaders, WalkBoxes
<1>10. CASE UNCHANGED vars BY <1>1, <1>10 DEF vars
<1> QED
  BY <1>2, <1>3, <1>4, <1>5, <1>6, <1>7, <1>8, <1>9, <1>10, StepKinds

LEMMA BypassStep ==
  ASSUME ClientInv, FramesInv, OutcomeInv, BypassOnlyUnwanted, [Next]_vars
  PROVE  BypassOnlyUnwanted'
<1> USE DEF OutcomeInv
<1>0. file \in Files /\ file' = file /\ FrameCount' = FrameCount
  BY FileFixed DEF ClientInv, CallTypes, FrameCount
<1> SUFFICES ASSUME NEW i \in 1 .. FrameCount
             PROVE  /\ fate'[i] = "passed" => ~Wants("FULL_IMAGE")'
                    /\ fate'[i] = "jpeg" => jpeg_requested' /\ file.jbrds = 1
  BY <1>0 DEF BypassOnlyUnwanted
<1>1. CASE Restarted
  <2>1. fate'[i] = "pending"
    BY <1>1 DEF Restarted, RestartFrames, AllPending, FrameCount
  <2> QED BY <2>1
<1>2. CASE ~Restarted
  <2>1. ~Rewind /\ ~Reset
    BY <1>2 DEF Restarted, Rewind, Reset, ResetFrameIteration, ClearFrames
  <2>2. /\ jpeg_requested => jpeg_requested'
        /\ started_processing => (Wants("FULL_IMAGE")' <=> Wants("FULL_IMAGE"))
    <3>1. CASE ReconstructJpeg
      BY <3>1 DEF ReconstructJpeg, OutputJPEG, callVars, Wants
    <3>2. CASE ~ReconstructJpeg
      BY <2>1, <3>2, JpegRequestStays, AnnouncedStays DEF Wants
    <3> QED BY <3>1, <3>2
  <2>3. ASSUME NEW outcome, Settle(outcome) PROVE fate'[i] \in {fate[i], outcome}
    BY <2>3 DEF Settle, FramesInv, FrameTypes
  <2>4. /\ fate[i] = "passed" => ~Wants("FULL_IMAGE")
        /\ fate[i] = "jpeg" => jpeg_requested /\ file.jbrds = 1
        /\ fate[i] # "pending" => started_processing
        /\ frame_parsed => started_processing
    BY DEF BypassOnlyUnwanted, FateInv, FramesInv, CursorInv
  <2>5. CASE UNCHANGED fate BY <2>2, <2>4, <2>5
  <2>6. CASE JpegShown
    BY <2>2, <2>3, <2>4, <2>6 DEF JpegShown, ShowJpegFrame
  <2>7. CASE DecodedInPlace \/ LeftDecoded
    <3>1. fate'[i] \in {fate[i], "hidden", "shown", "skipped"}
      BY <2>3, <2>7 DEF DecodedInPlace, LeftDecoded
    <3> QED BY <2>2, <2>4, <3>1
  <2>8. CASE LeftUndecoded BY <2>2, <2>3, <2>4, <2>8 DEF LeftUndecoded
  <2> QED
    BY <1>2, <2>5, <2>6, <2>7, <2>8, FrameOutcomes, ParsingOnly DEF Quiet
<1> QED BY <1>1, <1>2

\* When a full image has been reported, the frame it was reported for is still
\* the current one and its data is out.
DeliveredInv ==
  status = "FULL_IMAGE" =>
    /\ full_image_emitted
    /\ \/ frame_decoded /\ fate[CurrentFrame] = "shown"
       \/ jpeg_offset >= file.jpeg_size

\* Where JXL_DEC_FULL_IMAGE comes from.
LEMMA WhoReportsImages ==
  ASSUME [Next]_vars, status' = "FULL_IMAGE"
  PROVE  \/ OutputPixels /\ ShowFrame
         \/ /\ ReconstructJpeg /\ ShowJpegFrame
            /\ jpeg_offset' = file.jpeg_size
         \/ /\ status = "FULL_IMAGE" /\ ~Rewind /\ ~Reset /\ ~ReconstructJpeg
            /\ \/ UNCHANGED frameVars
               \/ FrameCall
<1>1. CASE SettingCall BY <1>1, SettingsOnly DEF SettingCall, ReconstructJpeg, AtJpeg,
        AtOutput, AtDisplayed, AtFrames, AtHeaders, Rewind, Reset
<1>2. CASE FrameCall BY <1>2, FrameCallsOnly DEF Rewind, Reset, ReconstructJpeg, AtJpeg,
        AtOutput, AtDisplayed, AtFrames, AtHeaders
<1>3. CASE BoxCallStep \/ JpegCallStep
  BY <1>3 DEF BoxCallStep, JpegCallStep, Rewind, Reset, ReconstructJpeg, AtJpeg,
       AtOutput, AtDisplayed, AtFrames, AtHeaders, Running
<1>4. CASE Rewind \/ Reset BY <1>4 DEF Rewind, Reset
<1>5. CASE ParseHeaders BY <1>5 DEF ParseHeaders, Continue, Running
<1>6. CASE WalkBoxes
  BY <1>6 DEF WalkBoxes, BoxStep, PrepareBoxFails, AtBox, Return, Continue, Running
<1>7. CASE EmitJpegReconstruction
  BY <1>7 DEF EmitJpegReconstruction, AtHeaders, Return, Continue, Running
<1>8. CASE ReconstructJpeg
  BY <1>8 DEF ReconstructJpeg, AtJpeg, AtOutput, AtDisplayed, AtFrames, AtHeaders,
       Return, Continue, Running
<1>9. CASE ReportStep BY <1>9, ReportsOnly
<1>10. CASE FrameStep
  <2>1. Running BY <1>10, FrameStepsOnly
  <2>2. CASE EmitPreview
    BY <2>2 DEF EmitPreview, OutputPreview, ReturnOneOf, Return, StatusFromError
  <2>3. CASE ParseStep
    BY <2>1, <2>3 DEF ParseStep, ReturnOneOf, Return, StatusFromError, Continue, Running
  <2>4. CASE SilentFrame BY <2>1, <2>4 DEF SilentFrame, Continue, Running
  <2>5. CASE EmitFrameEvent BY <2>5 DEF EmitFrameEvent, Return
  <2>6. CASE WithoutBuffer BY <2>1, <2>6 DEF WithoutBuffer, Return, Continue, Running
  <2>7. CASE OutputPixels BY <2>1, <2>7 DEF OutputPixels, Return, Continue, Running
  <2>8. CASE OutputPixelsFails BY <2>8 DEF OutputPixelsFails, Return
  <2> QED BY <1>10, <2>2, <2>3, <2>4, <2>5, <2>6, <2>7, <2>8 DEF FrameStep
<1>11. CASE UNCHANGED vars
  BY <1>11 DEF vars, Rewind, Reset, ReconstructJpeg, AtJpeg, AtOutput, AtDisplayed,
       AtFrames, AtHeaders, Running
<1> QED
  BY <1>1, <1>2, <1>3, <1>4, <1>5, <1>6, <1>7, <1>8, <1>9, <1>10, <1>11, StepKinds

LEMMA DeliveredStep ==
  ASSUME ClientInv, FramesInv, OutcomeInv, DeliveredInv, [Next]_vars
  PROVE  DeliveredInv'
<1> USE DEF OutcomeInv
<1> SUFFICES ASSUME status' = "FULL_IMAGE"
             PROVE  /\ full_image_emitted'
                    /\ \/ frame_decoded' /\ fate'[CurrentFrame'] = "shown"
                       \/ jpeg_offset' >= file'.jpeg_size
  BY DEF DeliveredInv
<1>0. /\ file \in Files /\ file' = file /\ FrameCount' = FrameCount
      /\ file.jpeg_size \in Nat
  BY FileFixed, FileFacts DEF ClientInv, CallTypes, FrameCount, File
<1>1. CASE OutputPixels /\ ShowFrame
  <2>1. frame_parsed BY <1>1 DEF OutputPixels, AtPixels, AtOutput, AtDisplayed
  <2>2. /\ CurrentFrame' = CurrentFrame /\ ~full_image_emitted /\ Settle("shown")
        /\ full_image_emitted' /\ frame_decoded'
    BY <1>0, <1>1 DEF ShowFrame, CurrentFrame
  <2>3. CurrentFrame \in 1 .. FrameCount BY <1>0, <2>1, CurrentFrameInRange DEF FramesInv
  <2>4. fate[CurrentFrame] = "pending" BY <2>2, <2>3 DEF FateInv
  <2>5. fate'[CurrentFrame] = "shown" BY <1>0, <2>1, <2>2, <2>4, SettleFacts
  <2> QED BY <2>2, <2>5
<1>2. CASE ReconstructJpeg /\ ShowJpegFrame /\ jpeg_offset' = file.jpeg_size
  BY <1>0, <1>2 DEF ShowJpegFrame
<1>3. CASE /\ status = "FULL_IMAGE" /\ ~Rewind /\ ~Reset /\ ~ReconstructJpeg
           /\ UNCHANGED frameVars \/ FrameCall
  <2>1. UNCHANGED jpeg_offset BY <1>3, JpegRequestStays
  <2>2. full_image_emitted BY <1>3 DEF DeliveredInv
  <2>3. UNCHANGED <<frame_offset, full_image_emitted, frame_decoded, fate>>
    BY <1>3, <2>2 DEF frameVars, frameState, FrameCall, SetCoalescing,
         SetPreviewOutBuffer, SetImageOutBuffer, SkipFrames, SkipCurrentFrame
  <2>4. CurrentFrame' = CurrentFrame BY <1>0, <2>3 DEF CurrentFrame
  <2> QED BY <1>0, <1>3, <2>1, <2>3, <2>4 DEF DeliveredInv
<1> QED BY <1>1, <1>2, <1>3, WhoReportsImages

-----------------------------------------------------------------------------
(* The theorems.                                                           *)

SessionInv ==
  /\ OutcomeInv /\ RefsInOrder /\ SeedsInOrder /\ BypassOnlyUnwanted /\ DeliveredInv

LEMMA SessionInvInit ==
  ASSUME Init
  PROVE  SessionInv
<1>1. /\ FrameInit /\ SessionInit /\ PreviewUnits(file) \in {0, 1}
      /\ file \in Files /\ status = "IDLE"
  BY FileFacts DEF Init, FrameInit
<1>2. CurrentFrame = 1 BY <1>1 DEF FrameInit, CurrentFrame
<1>3. SessionPosition = 0 BY <1>1, <1>2 DEF SessionPosition, FrameInit
<1>4. RefsInOrder
  BY <1>1, <1>3 DEF RefsInOrder, SessionAt, PrescribedRef, PrescribedDcRef,
       SessionInit, EmptySlots
<1>5. SeedsInOrder
  <2>1. 1 .. 0 = {} OBVIOUS
  <2>2. SeedsAt(0) BY <1>1, <2>1, FS_EmptySet DEF SeedsAt, SessionInit
  <2> QED BY <1>3, <2>2 DEF SeedsInOrder
<1>6. BypassOnlyUnwanted
  BY <1>1 DEF FrameInit, AllPending, BypassOnlyUnwanted, FrameCount
<1>7. DeliveredInv BY <1>1 DEF DeliveredInv
<1> QED BY <1>4, <1>5, <1>6, <1>7, OutcomeInit DEF SessionInv

LEMMA SessionInvStep ==
  ASSUME SafetyInv, SessionInv, [Next]_vars
  PROVE  SessionInv'
<1>1. ClientInv /\ FramesInv BY DEF SafetyInv
<1>2. OutcomeInv' BY <1>1, OutcomeStep DEF SessionInv
<1>3. RefsInOrder' BY <1>1, RefsStep DEF SessionInv
<1>4. SeedsInOrder' BY <1>1, SeedsStep DEF SessionInv
<1>5. BypassOnlyUnwanted' BY <1>1, BypassStep DEF SessionInv
<1>6. DeliveredInv' BY <1>1, DeliveredStep DEF SessionInv
<1> QED BY <1>2, <1>3, <1>4, <1>5, <1>6 DEF SessionInv

THEOREM SessionSafety == Spec => [](SafetyInv /\ SessionInv)
<1>1. Init => SafetyInv /\ SessionInv BY SafetyInit, SessionInvInit
<1>2. SafetyInv /\ SessionInv /\ [Next]_vars => (SafetyInv /\ SessionInv)'
  BY SafetyStep, SessionInvStep
<1> QED BY <1>1, <1>2, PTL DEF Spec

\* The reference slots always hold what decoding every frame once in order
\* leaves in them, whatever mix of skips, retries, errors and rewinds came
\* before, as long as no frame bypassed the session.
THEOREM ReferencesFollowStream == Spec => []RefsInOrder
<1>1. SessionInv => RefsInOrder BY DEF SessionInv
<1> QED BY <1>1, SessionSafety, PTL

\* No retry and no skip makes Session.decode count a frame twice: the noise
\* seeds depend on the codestream alone.
THEOREM SeedsFollowStream == Spec => []SeedsInOrder
<1>1. SessionInv => SeedsInOrder BY DEF SessionInv
<1> QED BY <1>1, SessionSafety, PTL

\* A frame bypasses the session only when its pixels were not subscribed to or
\* its JPEG took their place.
THEOREM OnlyUnwantedBypass == Spec => []BypassOnlyUnwanted
<1>1. SessionInv => BypassOnlyUnwanted BY DEF SessionInv
<1> QED BY <1>1, SessionSafety, PTL

\* A pixel buffer attached for one displayed frame never receives another:
\* advanceCurrentFrame detaches it on every way out of the frame.
THEOREM BufferKeepsItsFrame == Spec => []BufferOnlyForItsFrame
<1>1. SessionInv => BufferOnlyForItsFrame
  BY DEF SessionInv, OutcomeInv, BufferInv, BufferOnlyForItsFrame
<1> QED BY <1>1, SessionSafety, PTL

\* JXL_DEC_FULL_IMAGE is backed by the frame's pixels or by the whole JPEG, and
\* stays so until the client lets the decoder go on.
THEOREM FullImageBacked == Spec => []FullImageIsDelivered
<1>1. SafetyInv /\ SessionInv => FullImageIsDelivered
  <2> SUFFICES ASSUME SafetyInv, SessionInv, status = "FULL_IMAGE"
               PROVE  \/ frame_decoded /\ fate[CurrentFrame] = "shown"
                      \/ jpeg_collected + jpeg_buffer_written >= file.jpeg_size
    BY DEF FullImageIsDelivered
  <2>1. jpeg_collected + jpeg_buffer_written = jpeg_offset
    BY DEF SafetyInv, JpegBytesInv, NoJpegByteLost
  <2> QED BY <2>1 DEF SessionInv, DeliveredInv
<1> QED BY <1>1, SessionSafety, PTL
=============================================================================
