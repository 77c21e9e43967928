----------------------------- MODULE FrameSections -----------------------------
(***************************************************************************)
(* Decoding one frame with the C++ decoder: JxlDecoderProcessSections and  *)
(* the frame part of JxlDecoderProcessCodestream (decode.cc) hand complete *)
(* sections to jxl::FrameDecoder (dec_frame.cc), which decodes what it can *)
(* use, stops where the client wants to see progress, and draws groups on  *)
(* a pool of threads.                                                      *)
(*                                                                         *)
(* A section holds parts: <<"dc global">>, <<"dc", i>>, <<"ac global">> and*)
(* <<"ac", g, p>> for a group and a pass, each in a section of its own or  *)
(* all in one. frame.toc lists the sections in the order of their bytes.   *)
(* Frames are VarDCT without extra channels, or keep the whole modular     *)
(* image and draw from that (frame.full).                                  *)
(***************************************************************************)
EXTENDS GroupBorder

CONSTANTS
  Frames,       \* the frames that are tried
  Details       \* the progressive details clients ask for

VARIABLES
  (* JxlDecoder *)
  prog_detail,                 \* 0 frames, 1 DC, 2 last passes, 3 passes
  avail,                       \* number of sections that have arrived in full
  section_processed,           \* the sections reported done
  next_section,
  dc_frame_progression_done,
  next_num_passes_to_pause,
  outcome,                     \* what the last call returned
  (* FrameDecoder *)
  processed_section,
  num_sections_done,
  decoded_dc_global,
  decoded_dc_groups,
  finalized_dc,
  decoded_ac_global,
  decoded_passes,              \* decoded_passes_per_ac_group_
  (* one call of ProcessSections, Flush or FinalizeDecoding *)
  phase,
  given,                       \* the sections passed in
  duplicate,                   \* those of them with status kDuplicate
  done,                        \* those of them with status kDone
  desired,                     \* desired_num_ac_passes
  num_threads,
  todo,                        \* groups the pool has not been called for
  has_error

sessionVars ==
  <<prog_detail, avail, section_processed, next_section,
    dc_frame_progression_done, next_num_passes_to_pause, outcome>>
frameVars ==
  <<processed_section, num_sections_done, decoded_dc_global, decoded_dc_groups,
    finalized_dc, decoded_ac_global, decoded_passes>>
callVars == <<phase, given, duplicate, done, desired, num_threads, todo, has_error>>
vars == <<frame, borderVars, sessionVars, frameVars, callVars>>

-----------------------------------------------------------------------------
(* What a frame is.                                                        *)

GroupsOf(f) == 0 .. GroupsAlong(f.xsize) * GroupsAlong(f.ysize) - 1
PartsOf(f) ==
  {<<"dc global">>, <<"ac global">>} \cup {<<"dc", i>> : i \in 1 .. f.dc_groups} \cup
  {<<"ac", g, n>> : g \in GroupsOf(f), n \in 0 .. f.passes - 1}

\* One group in one pass is one section; otherwise every part is a section of
\* its own, in any order (the table of contents may permute them).
SectionsHold(toc, parts, f) ==
  IF GroupsOf(f) = {0} /\ f.passes = 1 THEN toc = <<parts>>
  ELSE /\ \A i \in 1 .. Len(toc) : \E part \in parts : toc[i] = {part}
       /\ \A part \in parts : \E i \in 1 .. Len(toc) : toc[i] = {part}
       /\ \A i, j \in 1 .. Len(toc) : toc[i] = toc[j] => i = j

ASSUME DetailsAssumption == Details \subseteq 0 .. 3

\* A pause comes after a pass the frame has (passes.last_pass).
ASSUME FramesAssumption ==
  \A f \in Frames :
    /\ {f.xsize, f.ysize, f.dc_groups, f.passes} \subseteq Nat \ {0}
    /\ f.pauses \subseteq 1 .. f.passes
    /\ {f.full, f.pausable, f.flushable} \subseteq BOOLEAN
    /\ f.broken \subseteq PartsOf(f)
    /\ f.toc \in Seq(SUBSET PartsOf(f))
    /\ SectionsHold(f.toc, PartsOf(f), f)

-----------------------------------------------------------------------------
Sections == 1 .. Len(frame.toc)
Single == Len(frame.toc) = 1
Holding(parts) == {i \in given \ duplicate : frame.toc[i] \cap parts # {}}
Given == UNION {frame.toc[i] : i \in given \ duplicate}
PassOf(g, n) == <<"ac", g, n>>
Complete(passes) == CHOOSE n \in 0 .. frame.passes :
  (\A g \in Groups : n <= passes[g]) /\ (\E g \in Groups : n = passes[g])
NumCompletePasses == Complete(decoded_passes)

\* HasDecodedAll, mutated: it is enough that every section has arrived.
HaveAllArrived == avail = Len(frame.toc)

HasDecodedAll == num_sections_done = Len(frame.toc)

\* SetPauseAtProgressive. Only frames that can show progress pause.
EffectiveDetail(f, detail) == IF f.pausable /\ Len(f.toc) > 1 THEN detail ELSE 0

PassesToPause ==
  IF prog_detail = 3 THEN 1 .. frame.passes - 1
  ELSE IF prog_detail = 2 THEN frame.pauses
  ELSE {}

\* NextNumPassesToPause, mutated: std::lower_bound.
PauseAgainAtOnce ==
  LET later == {n \in PassesToPause : n >= NumCompletePasses}
  IN  IF later = {} THEN frame.passes + 1 ELSE CHOOSE n \in later : \A m \in later : n <= m

\* The number of passes to stop at; more than there are means never.
NextNumPassesToPause ==
  LET later == {n \in PassesToPause : n > NumCompletePasses}
  IN  IF later = {} THEN frame.passes + 1 ELSE CHOOSE n \in later : \A m \in later : n <= m

\* How many passes of a group directly follow those it has.
NewPasses(parts, g) ==
  CHOOSE n \in 0 .. frame.passes - decoded_passes[g] :
    /\ \A k \in 0 .. n - 1 : PassOf(g, decoded_passes[g] + k) \in parts
    /\ n < frame.passes - decoded_passes[g] => PassOf(g, decoded_passes[g] + n) \notin parts

\* GetStorageLocation, mutated: threads use their own number always.
StorageByThread(t, g, tasks) == t

\* GetStorageLocation: the buffers a thread works in.
StorageLocation(t, g, tasks) == IF num_threads > tasks THEN g ELSE t

NumGroups == Cardinality(Groups)

Init ==
  /\ frame \in Frames
  /\ \E detail \in Details : prog_detail = EffectiveDetail(frame, detail)
  /\ avail = 0 /\ section_processed = {} /\ next_section = 1
  /\ dc_frame_progression_done = FALSE
  /\ next_num_passes_to_pause = 0
  /\ outcome = "none"
  /\ processed_section = {} /\ num_sections_done = 0
  /\ decoded_dc_global = FALSE /\ decoded_dc_groups = {}
  /\ finalized_dc = FALSE /\ decoded_ac_global = FALSE
  /\ decoded_passes = [g \in Groups |-> 0]
  /\ phase = "idle"
  /\ given = {} /\ duplicate = {} /\ done = {}
  /\ desired = [g \in Groups |-> 0]
  /\ num_threads = 0 /\ todo = {} /\ has_error = FALSE
  /\ counters = [c \in Corners |-> Outside(c)]
  /\ saved = {} /\ stale = Pixels
  /\ lane = [t \in Threads |-> Free]

-----------------------------------------------------------------------------
(* Between calls.                                                          *)

\* A client stops at an error, as it should (nothing in decode.cc stops it).
Usable == phase = "idle" /\ outcome \notin {"image", "error"}

\* How many sections there may be in full for the next call: the client brings
\* at least one when it was asked to.
Arrivals ==
  IF outcome = "progression" \/ avail = Len(frame.toc) THEN {avail}
  ELSE avail + 1 .. Len(frame.toc)

\* JxlDecoderProcessInput, up to the point where ProcessSections has sorted the
\* sections it was given.
ProcessInput ==
  \E arrived \in Arrivals :
  LET sections == {i \in next_section .. arrived : i \notin section_processed}
      new == UNION {frame.toc[i] : i \in sections \ processed_section}
  IN  /\ Usable
      /\ avail' = arrived
      /\ next_num_passes_to_pause' = NextNumPassesToPause
      /\ given' = sections
      /\ duplicate' = sections \cap processed_section
      /\ done' = {}
      /\ processed_section' = processed_section \cup sections
      /\ desired' = [g \in Groups |-> NewPasses(new, g)]
      /\ phase' = IF sections = {} THEN "report" ELSE "dc"
      /\ UNCHANGED <<frame, borderVars, prog_detail, section_processed,
                     next_section, dc_frame_progression_done, outcome,
                     num_sections_done, decoded_dc_global, decoded_dc_groups,
                     finalized_dc, decoded_ac_global, decoded_passes,
                     num_threads, todo, has_error>>

\* The call returns an error; marks made so far stay.
Fails ==
  /\ outcome' = "error"
  /\ phase' = "idle"
  /\ UNCHANGED <<prog_detail, avail, section_processed, next_section,
                 dc_frame_progression_done, next_num_passes_to_pause,
                 given, duplicate, done, desired, num_threads, todo>>
  /\ has_error' = FALSE

-----------------------------------------------------------------------------
(* ProcessSections.                                                        *)

\* DC global and then, with it, the DC groups.
DcGroupsGiven == {i \in 1 .. frame.dc_groups : <<"dc", i>> \in Given}

DecodeDC ==
  LET global == decoded_dc_global \/ <<"dc global">> \in Given
      groups == IF global THEN DcGroupsGiven ELSE {}
      parts == (Given \cap {<<"dc global">>}) \cup {<<"dc", i>> : i \in groups}
  IN  /\ phase = "dc"
      /\ IF parts \cap frame.broken # {}
           THEN /\ Fails
                /\ decoded_dc_global' = (decoded_dc_global \/ <<"dc global">> \in parts \ frame.broken)
                /\ \E some \in SUBSET {i \in groups : <<"dc", i>> \notin frame.broken} :
                     decoded_dc_groups' = IF decoded_dc_global'
                                            THEN decoded_dc_groups \cup some ELSE decoded_dc_groups
           ELSE /\ decoded_dc_global' = global
                /\ decoded_dc_groups' = decoded_dc_groups \cup groups
                /\ done' = done \cup Holding(parts)
                /\ phase' = "finalize dc"
                /\ UNCHANGED <<sessionVars, given, duplicate, desired, num_threads, todo, has_error>>
      /\ UNCHANGED <<frame, borderVars, processed_section, num_sections_done,
                     finalized_dc, decoded_ac_global, decoded_passes>>

\* With the last DC group the pipeline is set up, and the call may stop here.
FinalizeDC ==
  /\ phase = "finalize dc"
  /\ IF decoded_dc_groups = 1 .. frame.dc_groups /\ ~ finalized_dc
       THEN /\ finalized_dc' = TRUE
            /\ InitBorders
            /\ phase' = IF prog_detail >= 1 THEN "mark" ELSE "ac"
       ELSE /\ phase' = "ac"
            /\ UNCHANGED <<finalized_dc, borderVars>>
  /\ UNCHANGED <<frame, sessionVars, processed_section, num_sections_done,
                 decoded_dc_global, decoded_dc_groups, decoded_ac_global,
                 decoded_passes, given, duplicate, done, desired, num_threads,
                 todo, has_error>>

\* DesiredUpTo, mutated: whatever has arrived is decoded.
DesiredUnbounded(target) == desired

\* The passes to decode now, no more than up to the next pause.
DesiredUpTo(target) ==
  [g \in Groups |->
     IF prog_detail >= 2 THEN Least(desired[g], target - decoded_passes[g]) ELSE desired[g]]

\* AC global; the groups that get new passes are no longer done, and the pool
\* is called for them. The values it returns from at once are left out.
StartGroups ==
  LET global == <<"ac global">> \in Given /\ finalized_dc /\ ~ decoded_ac_global
  IN  /\ phase = "ac"
      /\ IF global /\ <<"ac global">> \in frame.broken
           THEN Fails /\ UNCHANGED <<decoded_ac_global, borderVars>>
           ELSE /\ decoded_ac_global' = (decoded_ac_global \/ global)
                /\ done' = IF global THEN done \cup Holding({<<"ac global">>}) ELSE done
                /\ desired' = DesiredUpTo(NextNumPassesToPause)
                /\ IF decoded_ac_global'
                     THEN LET touched == {g \in Groups : desired'[g] # 0}
                          IN  /\ ClearDone(touched)
                              /\ saved' = saved \ touched
                              /\ todo' = touched
                              /\ num_threads' \in 1 .. Cardinality(Threads)
                              /\ phase' = "groups"
                              /\ UNCHANGED <<stale, lane>>
                     ELSE phase' = "mark" /\ UNCHANGED <<borderVars, todo, num_threads>>
                /\ UNCHANGED <<sessionVars, given, duplicate, has_error>>
      /\ UNCHANGED <<frame, processed_section, num_sections_done, decoded_dc_global,
                     decoded_dc_groups, finalized_dc, decoded_passes>>

\* A thread of the pool is called for a group: ProcessACGroup up to the
\* drawing. A group is drawn when it has all of its passes.
DecodeGroup(t) ==
  \E g \in todo :
    LET first == decoded_passes[g]
        parts == {PassOf(g, first + k) : k \in 0 .. desired[g] - 1}
        drawn == ~ frame.full /\ first + desired[g] = frame.passes
    IN  /\ phase = "groups" /\ t < num_threads /\ lane[t] = Free
        /\ todo' = todo \ {g}
        /\ IF has_error \/ parts \cap frame.broken # {}
             THEN /\ has_error' = TRUE
                  /\ UNCHANGED <<decoded_passes, done, lane>>
             ELSE /\ decoded_passes' = [decoded_passes EXCEPT ![g] = @ + desired[g]]
                  /\ done' = done \cup Holding(parts)
                  /\ lane' = IF drawn
                       THEN [lane EXCEPT ![t].at = "save", ![t].group = g,
                               ![t].storage = StorageLocation(t, g, NumGroups)]
                       ELSE lane
                  /\ UNCHANGED has_error
        /\ UNCHANGED <<frame, counters, saved, stale, sessionVars, processed_section,
                       num_sections_done, decoded_dc_global, decoded_dc_groups,
                       finalized_dc, decoded_ac_global, phase, given, duplicate,
                       desired, num_threads>>

Quiet == \A t \in Threads : lane[t] = Free

EndGroups ==
  /\ phase = "groups" /\ todo = {} /\ Quiet
  /\ IF has_error
       THEN Fails
       ELSE /\ phase' = "mark"
            /\ UNCHANGED <<sessionVars, given, duplicate, done, desired,
                           num_threads, todo, has_error>>
  /\ UNCHANGED <<frame, borderVars, frameVars>>

\* MarkSections, mutated: sections that could not be used stay marked.
MarkAllSections ==
  /\ num_sections_done' = num_sections_done + Cardinality(done)
  /\ UNCHANGED processed_section

\* MarkSections: what is not done may be given again.
MarkSections ==
  /\ num_sections_done' = num_sections_done + Cardinality(done)
  /\ processed_section' = processed_section \ (given \ done)

\* JxlDecoderProcessSections goes on past the sections at the front.
FirstNotIn(sections) ==
  CHOOSE n \in 1 .. Len(frame.toc) + 1 : n \notin sections /\ \A i \in 1 .. n - 1 : i \in sections

Mark ==
  /\ phase = "mark"
  /\ MarkSections
  /\ IF duplicate # {}
       THEN Fails
       ELSE /\ section_processed' = section_processed \cup done
            /\ next_section' = FirstNotIn(section_processed')
            /\ phase' = "report"
            /\ UNCHANGED <<prog_detail, avail, dc_frame_progression_done,
                           next_num_passes_to_pause, outcome, given, duplicate, done,
                           desired, num_threads, todo, has_error>>
  /\ UNCHANGED <<frame, borderVars, decoded_dc_global, decoded_dc_groups, finalized_dc,
                 decoded_ac_global, decoded_passes>>

-----------------------------------------------------------------------------
(* What the call returns, and the end of the frame.                        *)

Returns(what) ==
  /\ outcome' = what
  /\ phase' = "idle"
  /\ UNCHANGED <<frame, borderVars, prog_detail, avail, section_processed, next_section,
                 next_num_passes_to_pause, frameVars, given, duplicate, done, desired,
                 num_threads, todo, has_error>>

ReportDC ==
  /\ phase = "report" /\ ~ HasDecodedAll /\ finalized_dc
  /\ prog_detail >= 1 /\ ~ dc_frame_progression_done
  /\ dc_frame_progression_done' = TRUE
  /\ Returns("progression")

\* A pause only counts for frames that pause by passes.
Reached == prog_detail >= 2 /\ NumCompletePasses >= next_num_passes_to_pause
DcReported == prog_detail >= 1 /\ finalized_dc => dc_frame_progression_done

ReportPasses ==
  /\ phase = "report" /\ ~ HasDecodedAll /\ DcReported /\ Reached
  /\ UNCHANGED dc_frame_progression_done
  /\ Returns("progression")

NeedMoreInput ==
  /\ phase = "report" /\ ~ HasDecodedAll /\ DcReported /\ ~ Reached
  /\ UNCHANGED dc_frame_progression_done
  /\ Returns("more input")

FullImage ==
  /\ phase = "report" /\ HasDecodedAll /\ ~ frame.full
  /\ UNCHANGED dc_frame_progression_done
  /\ Returns("image")

\* A drawing run of the pool over the groups gs.
StartDrawing(gs, next) ==
  /\ ClearDone(gs)
  /\ saved' = saved \ gs
  /\ todo' = gs
  /\ num_threads' \in 1 .. Cardinality(Threads)
  /\ phase' = next
  /\ UNCHANGED <<frame, stale, lane, sessionVars, frameVars, given, duplicate, done,
                 desired, has_error>>

\* FinalizeFrame: the whole modular image is drawn.
FinalizeDecoding ==
  /\ phase = "report" /\ HasDecodedAll /\ frame.full
  /\ StartDrawing(Groups, "final")

\* JxlDecoderFlushImage: draws what there is. Groups that are complete were
\* drawn before, unless the frame draws from the whole modular image.
Flush ==
  /\ Usable /\ finalized_dc /\ frame.flushable
  /\ LET missing == {g \in Groups : decoded_passes[g] < frame.passes}
     IN  IF frame.full THEN StartDrawing(Groups, "flush")
         ELSE missing # {} /\ StartDrawing(missing, "flush")

DrawGroup(t) ==
  \E g \in todo :
    /\ phase \in {"final", "flush"} /\ t < num_threads /\ lane[t] = Free
    /\ todo' = todo \ {g}
    /\ lane' = [lane EXCEPT ![t].at = "save", ![t].group = g,
                  ![t].storage = IF frame.full THEN t ELSE StorageLocation(t, g, NumGroups)]
    /\ UNCHANGED <<frame, counters, saved, stale, sessionVars, frameVars, phase, given,
                   duplicate, done, desired, num_threads, has_error>>

EndDrawing ==
  /\ phase \in {"final", "flush"} /\ todo = {} /\ Quiet
  /\ UNCHANGED dc_frame_progression_done
  /\ Returns(IF phase = "final" THEN "image" ELSE outcome)

-----------------------------------------------------------------------------
Draw(t) ==
  /\ DrawStep(t)
  /\ UNCHANGED <<frame, sessionVars, frameVars, callVars>>

ThreadStep(t) == DecodeGroup(t) \/ DrawGroup(t) \/ Draw(t)

DecoderStep ==
  \/ DecodeDC \/ FinalizeDC \/ StartGroups \/ EndGroups \/ Mark
  \/ ReportDC \/ ReportPasses \/ NeedMoreInput \/ FullImage \/ FinalizeDecoding
  \/ EndDrawing

CallStep == DecoderStep \/ \E t \in Threads : ThreadStep(t)

Next == ProcessInput \/ Flush \/ CallStep

\* A call that was made goes on; the client brings the input it is asked for
\* and keeps calling ProcessInput, however often it flushes in between.
Fairness == WF_vars(CallStep) /\ SF_vars(ProcessInput)

Spec == Init /\ [][Next]_vars /\ Fairness

-----------------------------------------------------------------------------
\* Everything a thread has left to draw.
Pending(t) == UNION {Area(lane[t].rects[k]) : k \in 1 .. Len(lane[t].rects)}

\* A thread draws a pixel only from data that is there: every group the pixel
\* depends on has saved its borders, and none of them is about to be decoded
\* again (GroupDone, ClearDone; "the pixel data of the group is already
\* written to memory").
DrawsFromSavedData ==
  \A t \in Threads : \A p \in Pending(t) : NearGroups(p) \subseteq saved

\* No pixel is drawn twice in a run, and no two threads ever have the same
\* pixel to draw ("the last of the four groups gets the responsibility of
\* handling the corner", dec_group_border.cc). A group gets at most
\* kMaxToFinalize rectangles (dec_group_border.h).
AreasDisjoint ==
  \A t \in Threads :
    /\ Len(lane[t].rects) <= 3
    /\ Pending(t) \subseteq Pixels
    /\ \A u \in Threads \ {t} : Pending(t) \cap Pending(u) = {}
    /\ \A j, k \in 1 .. Len(lane[t].rects) :
         j # k => Area(lane[t].rects[j]) \cap Area(lane[t].rects[k]) = {}

\* Between runs nothing is left undrawn: a pixel all of whose groups are saved
\* shows what they saved, whichever thread came last at each corner, also over
\* repaints by Flush (ProcessBuffers, ProcessSections, Flush).
NothingLeftUndrawn ==
  phase = "idle" /\ finalized_dc /\ outcome # "error" =>
    \A p \in Pixels : NearGroups(p) \subseteq saved => p \notin stale

\* When the image is reported, every pass of every group is in it and every
\* pixel was drawn from the final data; a damaged frame is never reported.
ImageIsComplete ==
  outcome = "image" =>
    /\ stale = {}
    /\ \A g \in Groups : decoded_passes[g] = frame.passes
    /\ frame.broken = {}

\* The decoder and the frame decoder keep the same record of the sections
\* that are done, although each keeps its own: nothing is refused as a
\* duplicate, and what was skipped is given again.
RecordsAgree ==
  phase = "idle" /\ outcome # "error" =>
    /\ processed_section = section_processed
    /\ num_sections_done = Cardinality(section_processed)

\* Threads at work use buffers of their own, and no more than were allocated
\* (PrepareStorage, GetStorageLocation).
StorageIsExclusive ==
  \A t \in Threads : lane[t] # Free =>
    /\ lane[t].storage < (IF frame.full THEN num_threads ELSE Least(num_threads, NumGroups))
    /\ \A u \in Threads \ {t} : lane[u] # Free => lane[u].storage # lane[t].storage

\* "The flushed image will correspond exactly to this point in decoding, and not
\* yet contain partial results of a next step" (decode.h, of the event
\* JXL_DEC_FRAME_PROGRESSION): when it is returned every group has no pass, for
\* the DC, or exactly those up to the pause.
PausesAreExact ==
  [][ outcome' = "progression" /\ phase = "report" /\ phase' = "idle" =>
        \A g \in Groups : decoded_passes[g] =
          IF dc_frame_progression_done' # dc_frame_progression_done
            THEN 0 ELSE next_num_passes_to_pause ]_vars

\* A client that brings the whole frame and keeps calling gets it, or the
\* error it deserves: pauses, skipped sections and any order of sections in
\* the file never keep the frame from being finished, and
\* the decoder never asks for input when it has all there is.
FrameFinishes == <> (outcome = IF frame.broken = {} THEN "image" ELSE "error")
==============================================================================
