---------------------------- MODULE DeliveryProofs ----------------------------
(***************************************************************************)
(* What a client gets in the end. First, that JxlDecoder implements        *)
(* FrameDelivery: whatever the client calls, every frame is settled once,  *)
(* in codestream order, with an outcome that fits it. SessionProofs says   *)
(* what a step does to the current frame; what is missing is that the      *)
(* frames left behind are all settled, and that the end is only reported   *)
(* behind the last one. Second, that a sound file is never refused.        *)
(***************************************************************************)
EXTENDS SessionProofs

\* No frame is left behind without an outcome, and what the decoder thinks of
\* the parsed frame is what its header says.
SettledInv ==
  /\ \A i \in 1 .. FrameCount : i < CurrentFrame => fate[i] # "pending"
  /\ frame_parsed => frame_displayed = Displayed(Header(CurrentFrame), coalescing)

\* Success is reported at the end of a pass, and nothing is current there.
FinishedInv == status = "SUCCESS" => decode_complete /\ started_processing

DeliveryInv == SettledInv /\ FinishedInv

LEMMA DeliveryInit ==
  ASSUME Init
  PROVE  DeliveryInv
<1>1. /\ frame_offset = 0 /\ frame_parsed = FALSE /\ status = "IDLE"
      /\ PreviewUnits(file) \in {0, 1}
  BY FileFacts DEF Init, FrameInit
<1>2. CurrentFrame = 1 BY <1>1 DEF CurrentFrame
<1> QED BY <1>1, <1>2 DEF DeliveryInv, SettledInv, FinishedInv

\* Parsing fills in what the header says of the frame.
LEMMA ParsingDisplays ==
  ASSUME file \in Files, FramesInv, ParseStep, file' = file, frame_parsed'
  PROVE  frame_displayed' = Displayed(Header(CurrentFrame), coalescing)
  BY DEF ParseStep, ParseFrame, ParseFrameFails

LEMMA SettledStep ==
  ASSUME ClientInv, FramesInv, OutcomeInv, SettledInv, [Next]_vars
  PROVE  SettledInv'
<1> USE DEF OutcomeInv
<1>0. /\ file \in Files /\ file' = file /\ FrameCount' = FrameCount
      /\ CurrentFrame \in Nat \ {0} /\ FrameCount \in Nat
      /\ \A j : Header(j)' = Header(j)
  BY FileFixed, FileFacts DEF ClientInv, CallTypes, FrameCount, CurrentFrame,
       FramesInv, FrameTypes, Header
<1>1. CASE Restarted
  <2>1. frame_offset' = 0 /\ ~frame_parsed'
    BY <1>1 DEF Restarted, RestartFrames, ForgetFrame
  <2>2. CurrentFrame' = 1 BY <1>0, <2>1, FileFacts DEF CurrentFrame
  <2> QED BY <2>1, <2>2 DEF SettledInv
<1>2. CASE Quiet
  <2>1. CurrentFrame' = CurrentFrame /\ UNCHANGED <<fate, frame_parsed, frame_displayed>>
    BY <1>0, <1>2 DEF Quiet, CurrentFrame
  <2>2. frame_parsed => UNCHANGED coalescing
    BY <1>2 DEF Quiet, FramesInv, CursorInv
  <2> QED BY <1>0, <2>1, <2>2 DEF SettledInv
<1>3. CASE ParseStep
  <2>1. CurrentFrame' = CurrentFrame BY <1>0, <1>3, ParsingKeepsCurrent
  <2>2. UNCHANGED <<fate, coalescing>> BY <1>3, ParsingOnly
  <2>3. frame_parsed' => frame_displayed' = Displayed(Header(CurrentFrame), coalescing)
    BY <1>0, <1>3, ParsingDisplays
  <2> QED BY <1>0, <2>1, <2>2, <2>3 DEF SettledInv
<1>4. CASE DecodedInPlace \/ JpegShown
  <2>1. /\ UNCHANGED <<frame_offset, frame_parsed, frame_displayed, coalescing>>
        /\ frame_parsed
        /\ \/ UNCHANGED fate
           \/ \E outcome \in {"shown", "jpeg"} : Settle(outcome)
    BY <1>4 DEF DecodedInPlace, JpegShown, ShowJpegFrame
  <2>2. CurrentFrame' = CurrentFrame BY <1>0, <2>1 DEF CurrentFrame
  <2>3. \A i \in 1 .. FrameCount : i # CurrentFrame => fate'[i] = fate[i]
    BY <1>0, <2>1, SettleFacts
  <2> QED BY <1>0, <2>1, <2>2, <2>3 DEF SettledInv
<1>5. CASE LeftDecoded \/ LeftUndecoded
  <2>1. frame_parsed /\ AdvanceCurrentFrame BY <1>5 DEF LeftDecoded, LeftUndecoded
  <2>2. /\ CurrentFrame' = CurrentFrame + 1 /\ CurrentFrame \in 1 .. FrameCount
        /\ ~frame_parsed'
    BY <1>0, <2>1, LeavingAdvances
  <2>3. PICK outcome \in {"hidden", "shown", "skipped", "passed", "jpeg"} : Settle(outcome)
    BY <1>5 DEF LeftDecoded, LeftUndecoded
  <2>4. /\ \A i \in 1 .. FrameCount : i # CurrentFrame => fate'[i] = fate[i]
        /\ fate'[CurrentFrame] # "pending"
    BY <1>0, <2>1, <2>3, SettleFacts
  <2> QED BY <1>0, <2>2, <2>4 DEF SettledInv
<1> QED BY <1>1, <1>2, <1>3, <1>4, <1>5, FrameOutcomes

\* What is current is not the end: nothing is parsed once success is reported.
LEMMA ParsedIsUnfinished ==
  ASSUME FramesInv, FinishedInv, frame_parsed, [Next]_vars
  PROVE  status # "SUCCESS" /\ status' # "SUCCESS"
<1>1. ~decode_complete BY DEF FramesInv, CursorInv
<1> QED BY <1>1, WhoSucceeds DEF FinishedInv, Finish

LEMMA FinishedStep ==
  ASSUME ClientInv, FramesInv, FinishedInv, [Next]_vars
  PROVE  FinishedInv'
<1> SUFFICES ASSUME status' = "SUCCESS" PROVE decode_complete' /\ started_processing'
  BY DEF FinishedInv
<1>1. CASE Finish
  <2>1. decode_complete /\ UNCHANGED <<frameVars, callVars>> /\ started_processing
    BY <1>1 DEF Finish, AtFrames, AtHeaders, ClientInv, InputInv
  <2> QED BY <2>1 DEF frameVars, frameState, callVars
<1>2. CASE status = "SUCCESS" /\ ~Finish
  <2>1. decode_complete /\ started_processing /\ ~frame_parsed
    BY <1>2 DEF FinishedInv, FramesInv, CursorInv
  <2>2. started_processing \in BOOLEAN /\ started_processing' \in BOOLEAN
    BY ClientStep DEF ClientInv, CallTypes
  <2>3. started_processing' BY <2>1, <2>2, StartedStays
  <2>4. ~ParseStep BY <2>1 DEF ParseStep, ParseFrame, ParseFrameFails
  <2>5. UNCHANGED decode_complete BY <2>1, <2>3, <2>4, CursorMoves DEF FrameMove
  <2> QED BY <2>1, <2>3, <2>5
<1> QED BY <1>1, <1>2, WhoSucceeds

-----------------------------------------------------------------------------
(* The refinement.                                                         *)

\* A pass begins without a choice of what is displayed.
LEMMA BeginningKeepsCoalescing ==
  ASSUME [Next]_vars, ~started_processing, started_processing'
  PROVE  UNCHANGED coalescing
<1>1. CASE SettingCall BY <1>1, SettingsOnly DEF frameVars
<1>2. CASE FrameCall BY <1>2, FrameCallsOnly DEF callVars
<1>3. CASE BoxCallStep \/ JpegCallStep BY <1>3 DEF BoxCallStep, JpegCallStep, callVars
<1>4. CASE Rewind \/ Reset BY <1>4 DEF Rewind, Reset
<1>5. CASE LoopStep BY <1>5, LoopLeavesCalls DEF callVars
<1>6. CASE UNCHANGED vars BY <1>6 DEF vars, callVars
<1> QED BY <1>1, <1>2, <1>3, <1>4, <1>5, <1>6, StepKinds
        DEF LoopStep, FrameStep, ReportStep

\* The frames settled so far are those before the current one, and it as well
\* when it was reported.
LEMMA SettledSoFar ==
  ASSUME file \in Files, FramesInv, FateInv, SettledInv
  PROVE  /\ frame_parsed /\ fate[CurrentFrame] = "pending" =>
              Delivery!SettledUpTo(CurrentFrame - 1)
         /\ ~frame_parsed => Delivery!SettledUpTo(CurrentFrame - 1)
<1>0. CurrentFrame \in Nat \ {0} /\ FrameCount \in Nat
  BY FileFacts DEF CurrentFrame, FramesInv, FrameTypes
<1>1. ~frame_parsed => ~full_image_emitted BY DEF FramesInv, CursorInv
<1>2. frame_parsed => CurrentFrame \in 1 .. FrameCount
  BY CurrentFrameInRange DEF FramesInv
<1> QED
  BY <1>0, <1>1, <1>2
     DEF FateInv, SettledInv, Delivery!SettledUpTo, Delivery!Indexes, FrameCount

\* The client sees which frames are displayed as a function to BOOLEAN.
Shown == [i \in 1 .. FrameCount |-> Displayed(Header(i), coalescing)]

LEMMA ShownTyped ==
  ASSUME file \in Files
  PROVE  Shown \in [1 .. FrameCount -> BOOLEAN]
  BY FileFacts DEF Shown, Displayed, FrameHeader

\* The current frame gets its outcome: the next one is settled.
LEMMA SettlingRefines ==
  ASSUME ClientInv, FramesInv, OutcomeInv, DeliveryInv, [Next]_vars,
         ~Restarted, frame_parsed, UNCHANGED coalescing,
         NEW outcome, Settle(outcome),
         outcome \in IF frame_displayed THEN {"shown", "jpeg", "skipped", "passed"}
                                        ELSE {"hidden"}
  PROVE  [Delivery!Next]_(Delivery!vars)
<1> USE DEF OutcomeInv, DeliveryInv
<1>0. /\ file \in Files /\ file' = file
      /\ \A j : Header(j)' = Header(j)
      /\ FrameCount' = FrameCount
  BY FileFixed DEF ClientInv, CallTypes, Header, FrameCount
<1>1. started_processing = TRUE /\ started_processing' = TRUE
  <2>1. started_processing BY DEF FramesInv, CursorInv
  <2>2. started_processing \in BOOLEAN /\ started_processing' \in BOOLEAN
    BY ClientStep DEF ClientInv, CallTypes
  <2> QED BY <2>1, <2>2, StartedStays
<1>2. status # "SUCCESS" /\ status' # "SUCCESS" BY ParsedIsUnfinished
<1>3. Shown' = Shown BY <1>0 DEF Shown
<1>4. PICK i \in 1 .. FrameCount : i = CurrentFrame
  BY <1>0, CurrentFrameInRange DEF FramesInv
<1>5. fate' = [fate EXCEPT ![i] = IF @ = "pending" THEN outcome ELSE @]
      /\ fate \in [1 .. FrameCount -> Fates]
  BY <1>4 DEF Settle, FramesInv, FrameTypes
<1>6. CASE fate[i] # "pending"
  <2>1. fate' = fate BY <1>5, <1>6
  <2> QED BY <1>0, <1>1, <1>2, <1>3, <2>1 DEF Delivery!vars, Shown
<1>7. CASE fate[i] = "pending"
  <2>1. Delivery!SettledUpTo(i - 1) BY <1>0, <1>4, <1>7, SettledSoFar
  <2>2. fate' = [fate EXCEPT ![i] = outcome] BY <1>5, <1>7
  <2>3. Shown[i] = frame_displayed BY <1>4 DEF Shown, SettledInv
  <2>4. Delivery!SettleNext(i, outcome)
    BY <1>0, <1>1, <1>2, <1>3, <2>1, <2>2, <2>3 DEF Delivery!SettleNext, Shown
  <2>5. outcome \in {"shown", "jpeg", "skipped", "passed"} \cup {"hidden"} OBVIOUS
  <2>6. i \in Delivery!Indexes BY DEF Delivery!Indexes, FrameCount
  <2> QED BY <2>4, <2>5, <2>6 DEF Delivery!Next
<1> QED BY <1>6, <1>7

\* Nothing is settled: a pass begins, ends, goes on behind its end, or what is
\* displayed is chosen ahead of one.
LEMMA OtherwiseRefines ==
  ASSUME ClientInv, FramesInv, OutcomeInv, EndInv, DeliveryInv, DeliveryInv', [Next]_vars,
         ~Restarted, UNCHANGED fate, started_processing => UNCHANGED coalescing
  PROVE  [Delivery!Next]_(Delivery!vars)
<1> USE DEF OutcomeInv, DeliveryInv
<1>0. /\ file \in Files /\ file' = file
      /\ \A j : Header(j)' = Header(j)
      /\ FrameCount' = FrameCount /\ FrameCount \in Nat
  BY FileFixed, FileFacts DEF ClientInv, CallTypes, Header, FrameCount
<1>1. started_processing \in BOOLEAN /\ started_processing' \in BOOLEAN
  BY ClientStep DEF ClientInv, CallTypes
<1>2. CASE started_processing
  <2>1. started_processing' = started_processing BY <1>1, <1>2, StartedStays
  <2>2. Shown' = Shown BY <1>0, <1>2 DEF Shown
  <2>3. CASE (status' = "SUCCESS") = (status = "SUCCESS")
    BY <1>0, <2>1, <2>2, <2>3 DEF Delivery!vars, Shown
  <2>4. CASE status' # "SUCCESS" /\ status = "SUCCESS"
    <3>1. Delivery!Resume BY <1>0, <2>1, <2>2, <2>4 DEF Delivery!Resume, Shown
    <3> QED BY <3>1 DEF Delivery!Next
  <2>5. CASE status' = "SUCCESS" /\ status # "SUCCESS"
    <3>1. decode_complete BY <2>5, WhoSucceeds DEF Finish
    <3>2. ~frame_parsed BY <3>1 DEF FramesInv, CursorInv
    <3> DEFINE n == CurrentFrame - 1
    <3>3. PreviewUnits(file) < frame_offset /\ Header(n).is_last BY <3>1 DEF EndInv
    <3>4. n \in 1 .. FrameCount
      BY <1>0, <3>3, FileFacts DEF CurrentFrame, FramesInv, FrameTypes, CursorInv
    <3>5. Delivery!SettledUpTo(n) BY <1>0, <3>2, SettledSoFar
    <3>6. n \in Delivery!Indexes /\ file.frames[n].is_last
      BY <3>3, <3>4 DEF Delivery!Indexes, FrameCount, Header
    <3> HIDE DEF n
    <3>7. Delivery!End
      BY <1>0, <1>2, <2>1, <2>2, <2>5, <3>5, <3>6 DEF Delivery!End, Shown
    <3> QED BY <3>7 DEF Delivery!Next
  <2> QED BY <2>3, <2>4, <2>5
<1>3. CASE ~started_processing
  <2>1. status # "SUCCESS" BY <1>3 DEF FinishedInv
  <2>2. fate = [i \in 1 .. FrameCount |-> "pending"]
    BY <1>3 DEF FateInv, FramesInv, FrameTypes
  <2>3. CASE ~started_processing'
    <3>1. status' # "SUCCESS" BY <2>3 DEF FinishedInv
    <3>2. Shown' \in [1 .. FrameCount -> BOOLEAN]
      <4>1. FrameCount' = FrameCount BY <1>0
      <4>2. \A i \in 1 .. FrameCount : Header(i).regular \in BOOLEAN
        BY <1>0, FileFacts DEF FrameHeader
      <4> QED BY <1>0, <4>1, <4>2 DEF Shown, Displayed
    <3>3. Delivery!Restart
      BY <1>0, <1>1, <2>2, <2>3, <3>1, <3>2
         DEF Delivery!Restart, Delivery!Indexes, Shown, FrameCount
    <3> QED BY <3>3 DEF Delivery!Next
  <2>4. CASE started_processing'
    <3>1. Shown' = Shown BY <1>0, <1>3, <2>4, BeginningKeepsCoalescing DEF Shown
    <3>2. status' # "SUCCESS"
      <4>1. ~Finish BY <1>3 DEF Finish, AtFrames, AtHeaders, ClientInv, InputInv
      <4> QED BY <2>1, <4>1, WhoSucceeds
    <3>3. Delivery!Begin
      BY <1>0, <1>1, <2>1, <2>4, <3>1, <3>2 DEF Delivery!Begin, Shown
    <3> QED BY <3>3 DEF Delivery!Next
  <2> QED BY <2>3, <2>4
<1> QED BY <1>2, <1>3

LEMMA RestartRefines ==
  ASSUME ClientInv, Restarted, [Next]_vars
  PROVE  Delivery!Restart
<1>0. /\ file \in Files /\ file' = file
      /\ \A j : Header(j)' = Header(j)
      /\ FrameCount' = FrameCount
  BY FileFixed DEF ClientInv, CallTypes, Header, FrameCount
<1>1. /\ fate' = [i \in 1 .. FrameCount |-> "pending"]
      /\ started_processing' = FALSE /\ status' = "IDLE"
  BY DEF Restarted, Rewind, Reset, RestartFrames, AllPending, FrameCount
<1>2. \A i \in 1 .. FrameCount : Header(i).regular \in BOOLEAN
  BY <1>0, FileFacts DEF FrameHeader
<1>3. Shown' \in [1 .. FrameCount -> BOOLEAN]
  BY <1>0, <1>2 DEF Shown, Displayed
<1> QED BY <1>0, <1>1, <1>3 DEF Delivery!Restart, Delivery!Indexes, Shown, FrameCount

LEMMA DeliveryRefines ==
  ASSUME ClientInv, FramesInv, OutcomeInv, EndInv, DeliveryInv, DeliveryInv', [Next]_vars
  PROVE  [Delivery!Next]_(Delivery!vars)
<1>1. CASE Restarted BY <1>1, RestartRefines DEF Delivery!Next
<1>2. CASE ~Restarted
  <2>1. CASE Quiet BY <1>2, <2>1, OtherwiseRefines DEF Quiet
  <2>2. CASE ParseStep BY <1>2, <2>2, ParsingOnly, OtherwiseRefines
  <2>3. CASE DecodedInPlace
    <3>1. CASE UNCHANGED fate
      BY <1>2, <2>3, <3>1, OtherwiseRefines DEF DecodedInPlace
    <3>2. CASE Settle("shown")
      BY <1>2, <2>3, <3>2, SettlingRefines DEF DecodedInPlace
    <3> QED BY <2>3, <3>1, <3>2 DEF DecodedInPlace
  <2>4. CASE JpegShown
    BY <1>2, <2>4, SettlingRefines DEF JpegShown, ShowJpegFrame
  <2>5. CASE LeftDecoded
    BY <1>2, <2>5, SettlingRefines DEF LeftDecoded, AdvanceCurrentFrame
  <2>6. CASE LeftUndecoded
    BY <1>2, <2>6, SettlingRefines DEF LeftUndecoded, AdvanceCurrentFrame
  <2> QED BY <1>2, <2>1, <2>2, <2>3, <2>4, <2>5, <2>6, FrameOutcomes DEF OutcomeInv
<1> QED BY <1>1, <1>2

\* JxlDecoder implements FrameDelivery: over any sequence of calls, failures,
\* skips and rewinds, the frames of a pass are settled in order, one at a time
\* and once, hidden ones silently and displayed ones never so, and the end
\* comes behind a last frame (ensureCurrentFrameParsed, advanceCurrentFrame).
THEOREM DecoderDelivers == Spec => DeliversFrames
<1> DEFINE Inv == SafetyInv /\ SessionInv /\ DeliveryInv
<1>1. Init => Inv BY SafetyInit, SessionInvInit, DeliveryInit
<1>2. Inv /\ [Next]_vars => Inv'
  BY SafetyStep, SessionInvStep, SettledStep, FinishedStep
     DEF SafetyInv, SessionInv, DeliveryInv
<1>3. Init => Delivery!Init
  <2> SUFFICES ASSUME Init PROVE Delivery!Init
    OBVIOUS
  <2>1. Shown \in [1 .. FrameCount -> BOOLEAN] BY ShownTyped DEF Init
  <2> QED
    BY <2>1 DEF Init, FrameInit, AllPending, Delivery!Init, Delivery!Indexes, Shown, FrameCount
<1>4. Inv /\ Inv' /\ [Next]_vars => [Delivery!Next]_(Delivery!vars)
  BY DeliveryRefines DEF SafetyInv, SessionInv
<1> QED BY <1>1, <1>2, <1>3, <1>4, PTL DEF Spec, DeliversFrames, Delivery!Spec

-----------------------------------------------------------------------------
(* A sound file is never refused.                                          *)

\* No last frame was left before the end.
LastInv == ~decode_complete => \A j \in 1 .. CurrentFrame - 1 : ~Header(j).is_last

LEMMA LastStep ==
  ASSUME ClientInv, FramesInv, LastInv, [Next]_vars
  PROVE  LastInv'
<1>0. /\ file \in Files /\ file' = file
      /\ \A j : Header(j)' = Header(j)
      /\ CurrentFrame \in Nat \ {0}
  BY FileFixed, FileFacts DEF ClientInv, CallTypes, Header, CurrentFrame, FramesInv, FrameTypes
<1>1. CASE ParseStep
  BY <1>0, <1>1, ParsingKeepsCurrent DEF LastInv
<1>2. CASE RestartFrames
  <2>1. frame_offset' = 0 BY <1>2 DEF RestartFrames
  <2>2. CurrentFrame' = 1 BY <1>0, <2>1, FileFacts DEF CurrentFrame
  <2> QED BY <2>2 DEF LastInv
<1>3. CASE frame_parsed /\ AdvanceCurrentFrame
  <2>1. CurrentFrame' = CurrentFrame + 1 BY <1>0, <1>3, LeavingAdvances
  <2>2. ~decode_complete /\ decode_complete' = Header(CurrentFrame).is_last
    BY <1>3 DEF FramesInv, CursorInv, AdvanceCurrentFrame
  <2>3. \A j \in 1 .. CurrentFrame - 1 : ~Header(j).is_last BY <2>2 DEF LastInv
  <2> QED BY <1>0, <2>1, <2>2, <2>3 DEF LastInv
<1>4. CASE UNCHANGED <<frame_offset, frame_parsed, frame_displayed, decode_complete>>
  <2>1. CurrentFrame' = CurrentFrame BY <1>0, <1>4 DEF CurrentFrame
  <2> QED BY <1>0, <1>4, <2>1 DEF LastInv
<1> QED BY <1>1, <1>2, <1>3, <1>4, CursorMoves DEF FrameMove

\* A slot is prescribed one frame, so what it holds is what SoundFrame finds.
LEMMA HeldIsPrescribed ==
  ASSUME NEW i \in Nat \ {0}, NEW s, PrescribedRef(refs[s], i - 1, s, coalescing)
  PROVE  HeldBefore(i, s) = refs[s]
<1> DEFINE P(h) == PrescribedRef(h, i - 1, s, coalescing)
<1>1. ASSUME NEW a \in 0 .. i - 1, NEW b \in 0 .. i - 1, P(a), P(b), a < b PROVE FALSE
  <2>1. b # 0 /\ b \in a + 1 .. i - 1 BY <1>1
  <2> QED BY <1>1, <2>1 DEF PrescribedRef
<1>2. refs[s] \in 0 .. i - 1 /\ P(refs[s]) BY DEF PrescribedRef
<1>3. \A h \in 0 .. i - 1 : P(h) => h = refs[s]
  <2> SUFFICES ASSUME NEW h \in 0 .. i - 1, P(h) PROVE h = refs[s] OBVIOUS
  <2>1. ~(h < refs[s]) BY <1>1, <1>2
  <2>2. ~(refs[s] < h) BY <1>1, <1>2
  <2> QED BY <1>2, <2>1, <2>2
<1> HIDE DEF P
<1>4. (CHOOSE h \in 0 .. i - 1 : P(h)) = refs[s] BY <1>2, <1>3
<1> QED BY <1>4 DEF P, HeldBefore

\* The session accepts a sound frame once those before it went through.
LEMMA SoundIsAccepted ==
  ASSUME file \in Files, NEW i \in 1 .. FrameCount, SoundFrame(i),
         SessionAt(i - 1, coalescing)
  PROVE  SessionAccepts(i, coalescing)
<1>0. i \in Nat \ {0} /\ Header(i) \in FrameHeader BY FileFacts
<1>1. \A s \in Slots : HeldBefore(i, s) = refs[s]
  BY <1>0, HeldIsPrescribed DEF SessionAt
<1>2. Header(i).patches \subseteq Slots /\ Header(i).blends \subseteq Slots
  BY <1>0 DEF FrameHeader
<1>3. ASSUME Header(i).uses_dc
      PROVE  Header(i).dc_level < 4 /\ dc_refs[Header(i).dc_level] # 0
  <2>1. PICK j \in 1 .. i - 1 : Header(j).dc_level = Header(i).dc_level + 1
    BY <1>3 DEF SoundFrame
  <2>2. j \in 1 .. FrameCount BY <1>0, FileFacts
  <2>3. Header(j).dc_level \in 0 .. 4 /\ Header(i).dc_level \in 0 .. 4
    BY <1>0, <2>2, FileFacts DEF FrameHeader
  <2>4. Header(i).dc_level \in Slots BY <2>1, <2>3 DEF Slots
  <2>5. PrescribedDcRef(dc_refs[Header(i).dc_level], i - 1, Header(i).dc_level)
    BY <2>4 DEF SessionAt
  <2>6. dc_refs[Header(i).dc_level] # 0 BY <2>1, <2>5 DEF PrescribedDcRef
  <2> QED BY <2>1, <2>3, <2>6
<1>4. FrameDecodes(i) BY <1>1, <1>2, <1>3 DEF FrameDecodes, SoundFrame
<1>5. FrameComposes(i, coalescing) BY <1>1, <1>2 DEF FrameComposes, SoundFrame
<1> QED BY <1>4, <1>5 DEF SessionAccepts

\* So does it accept the current one, as long as it has not been decoded.
LEMMA CurrentIsAccepted ==
  ASSUME file \in Files, FramesInv, RefsInOrder, SoundFile, NoneBypassed,
         frame_parsed, ~decoded_frame
  PROVE  SessionAccepts(CurrentFrame, coalescing)
<1>1. CurrentFrame \in 1 .. FrameCount BY CurrentFrameInRange DEF FramesInv
<1>2. SessionPosition = CurrentFrame - 1 BY <1>1, FileFacts DEF SessionPosition
<1>3. SessionAt(CurrentFrame - 1, coalescing) BY <1>2 DEF RefsInOrder
<1> QED BY <1>1, <1>3, SoundIsAccepted DEF SoundFile

\* Which steps of the loop may return JXL_DEC_ERROR.
LEMMA WhoFails ==
  ASSUME [Next]_vars, Running, status' = "ERROR"
  PROVE  \/ ParseHeadersFails \/ EmitJpegReconstruction \/ EmitPreview \/ ParseStep
         \/ ReconstructJpegFails \/ OutputPixelsFails \/ DecodeFails
         \/ WalkBoxes /\ AllocMayFail
<1>1. LoopStep
  <2>1. ~Call
    BY DEF Running, Call, BoxCall, JpegCall, Idle, SubscribeEvents, SetCoalescing,
       SetInput, ReleaseInput, CloseInput, SetPreviewOutBuffer, SetImageOutBuffer,
       SkipFrames, SkipCurrentFrame, Rewind, Reset, ProcessInput
  <2> QED BY <2>1 DEF Next, vars, Running
<1>2. ~ParseHeaders /\ ~EmitBasicInfo /\ ~EmitColorEncoding /\ ~Finish /\ ~SilentFrame
      /\ ~EmitFrameEvent /\ ~ReconstructJpeg /\ ~WithoutBuffer /\ ~OutputPixels
  BY DEF ParseHeaders, EmitBasicInfo, EmitColorEncoding, Finish, SilentFrame, EmitFrameEvent,
     ReconstructJpeg, WithoutBuffer, OutputPixels, Return, Continue, Running
<1>3. ASSUME WalkBoxes PROVE AllocMayFail
  BY <1>3 DEF WalkBoxes, BoxStep, PrepareBoxFails, Return, Continue, Running
<1> QED BY <1>1, <1>2, <1>3 DEF LoopStep

\* The headers of a whole file can be read.
LEMMA SoundHeadersParse ==
  ASSUME ClientInv, SoundFile, WholeFile, Running, ~basic_info_available
  PROVE  ParseHeaderErrors = {}
<1>1. /\ input_data.first = 0 /\ input_data.units = FileUnits(file)
      /\ FileUnits(file) \in Nat \ {0}
  BY FileFacts DEF WholeFile, ClientInv, CallTypes
<1> QED BY <1>1 DEF ParseHeaderErrors, SoundFile

\* So can its preview, and the header of each frame up to the last.
LEMMA SoundFramesParse ==
  ASSUME ClientInv, FramesInv, LastInv, SoundFile, WholeFile, basic_info_available
  PROVE  /\ file.preview # "none" => PreviewErrors = {}
         /\ ~frame_parsed /\ ~decode_complete => ParseErrors = {}
<1>0. /\ file \in Files /\ FrameCount \in Nat
      /\ PreviewUnits(file) \in {0, 1}
      /\ frame_data.units = PreviewUnits(file) + FrameCount
      /\ frame_offset \in Nat
  BY FileFacts DEF WholeFile, ClientInv, CallTypes, FramesInv, FrameTypes
<1>1. file.preview # "none" => PreviewErrors = {}
  BY <1>0 DEF PreviewErrors, PreviewUnits, SoundFile
<1>2. ASSUME ~decode_complete PROVE ParseErrors = {}
  <2>1. PICK i \in 1 .. FrameCount : Header(i).is_last BY DEF SoundFile
  <2>2. i >= CurrentFrame /\ CurrentFrame \in 1 .. FrameCount
    BY <1>0, <1>2, <2>1 DEF LastInv, CurrentFrame
  <2>3. PastPreview = PreviewUnits(file) + CurrentFrame - 1
    BY <1>0 DEF PastPreview, PreviewPending, CurrentFrame
  <2>4. Header(CurrentFrame).fault = "none" BY <2>2 DEF SoundFile, SoundFrame
  <2>5. HeaderErrors = {} BY <1>0, <2>2, <2>3, <2>4 DEF HeaderErrors
  <2>6. PreviewPending => file.preview # "none"
    BY <1>0 DEF PreviewPending, PreviewUnits
  <2> QED BY <1>1, <2>5, <2>6 DEF ParseErrors
<1> QED BY <1>1, <1>2

LEMMA SoundStep ==
  ASSUME ClientInv, FramesInv, RefsInOrder, LastInv, [Next]_vars,
         SoundFile, WholeFile, NoneBypassed, ~AllocMayFail, ~JpegAfterPixels,
         Running, status' = "ERROR"
  PROVE  FALSE
<1>0. file \in Files BY DEF ClientInv, CallTypes
<1>1. basic_info_available => ~Unreliable BY DEF Unreliable, WholeFile
<1>2. ASSUME frame_parsed, ~decoded_frame PROVE SessionAccepts(CurrentFrame, coalescing)
  BY <1>0, <1>2, CurrentIsAccepted
<1>3. CASE ParseHeadersFails
  BY <1>3, SoundHeadersParse DEF ParseHeadersFails, ReturnOneOf
<1>4. CASE EmitJpegReconstruction
  <2>1. file.jbrds <= 1 /\ file.jbrds \in Nat BY <1>0, FileFacts DEF SoundFile, File
  <2> QED BY <1>4, <2>1 DEF EmitJpegReconstruction, Return, Continue, Running
<1>5. CASE EmitPreview
  <2>1. basic_info_available /\ file.preview # "none"
    BY <1>5 DEF EmitPreview, AtPreview, AtHeaders, PreviewDone
  <2>2. PreviewErrors = {} BY <2>1, SoundFramesParse
  <2> QED BY <1>1, <1>5, <2>1, <2>2 DEF EmitPreview, OutputPreview, ReturnOneOf, Return
<1>6. CASE ParseStep
  <2>1. basic_info_available BY <1>6 DEF ParseStep, AtFrames, AtHeaders
  <2>2. ParseFrameFails /\ (ReturnOneOf(ParseErrors) \/ Unreliable)
    BY <1>6 DEF ParseStep, Continue, Running
  <2>3. ~frame_parsed /\ ~decode_complete BY <2>2 DEF ParseFrameFails
  <2>4. ParseErrors = {} BY <2>1, <2>3, SoundFramesParse
  <2> QED BY <1>1, <2>1, <2>2, <2>4 DEF ReturnOneOf
<1>7. CASE ReconstructJpegFails
  <2>1. basic_info_available /\ frame_parsed /\ AtJpeg
    BY <1>7 DEF ReconstructJpegFails, AtJpeg, AtOutput, AtDisplayed, AtFrames, AtHeaders
  <2>2. file.jbrds <= 1 /\ file.jbrds \in Nat BY <1>0, FileFacts DEF SoundFile, File
  <2>3. FrameDecodes(CurrentFrame) BY <1>2, <2>1 DEF JpegAfterPixels, SessionAccepts
  <2> QED BY <1>1, <1>7, <2>1, <2>2, <2>3 DEF ReconstructJpegFails
<1>8. CASE OutputPixelsFails BY <1>8 DEF OutputPixelsFails
<1>9. CASE DecodeFails
  BY <1>1, <1>2, <1>9 DEF DecodeFails, AtDecode, AtFrames, AtHeaders
<1> QED BY <1>3, <1>4, <1>5, <1>6, <1>7, <1>8, <1>9, WhoFails

\* JXL_DEC_ERROR is never the answer to a sound file that was handed over
\* whole: over any skips, retries, rewinds and choices of coalescing, the
\* references each frame needs are in their slots when decodeCurrentFrame or
\* prepareJPEG asks for them.
THEOREM SoundIsAlwaysDecoded == Spec => SoundNeverFails
<1> DEFINE Inv == SafetyInv /\ SessionInv /\ LastInv
           Never == status = "RUNNING" /\ status' = "ERROR" =>
             ~SoundFile \/ ~WholeFile \/ ~NoneBypassed \/ AllocMayFail \/ JpegAfterPixels
<1>1. Init => Inv
  <2>1. Init => LastInv
    <3> SUFFICES ASSUME Init PROVE LastInv OBVIOUS
    <3>1. frame_offset = 0 /\ PreviewUnits(file) \in {0, 1} BY FileFacts DEF Init, FrameInit
    <3>2. CurrentFrame = 1 BY <3>1 DEF CurrentFrame
    <3> QED BY <3>2 DEF LastInv
  <2> QED BY <2>1, SafetyInit, SessionInvInit
<1>2. Inv /\ [Next]_vars => Inv'
  BY SafetyStep, SessionInvStep, LastStep DEF SafetyInv
<1>3. Inv /\ [Next]_vars => Never
  BY SoundStep DEF SafetyInv, SessionInv, Running
<1> QED BY <1>1, <1>2, <1>3, PTL DEF Spec, SoundNeverFails
=============================================================================
