------------------------ MODULE FrameSectionsInvariants ------------------------
(***************************************************************************)
(* The inductive invariant of FrameSections, in parts: what the variables  *)
(* range over, who works on which group, what the two decoders remember of *)
(* the sections, what has been decoded, where the next pause is, and what  *)
(* the threads still have to draw.                                         *)
(***************************************************************************)
EXTENDS FrameSections

InCall == phase \in {"dc", "finalize dc", "ac", "groups", "mark"}
Drawing == phase \in {"groups", "final", "flush"}
Phases == {"idle", "report"} \cup {"dc", "finalize dc", "ac", "groups", "mark", "final", "flush"}

Rects == [x0 : Int, x1 : Int, y0 : Int, y1 : Int]
Lanes ==
  [at : {"free", "save", "mark", "draw"}, group : Nat, storage : Nat,
   status : Seq(SUBSET Sides), rects : Seq(Rects)]

BorderTypeOK ==
  /\ counters \in [Corners -> SUBSET Sides]
  /\ saved \subseteq Groups
  /\ stale \subseteq Pixels
  /\ lane \in [Threads -> Lanes]

SessionTypeOK ==
  /\ prog_detail \in 0 .. 3
  /\ prog_detail >= 1 => ~ Single
  /\ avail \in 0 .. Len(frame.toc)
  /\ section_processed \subseteq Sections
  /\ next_section \in 1 .. Len(frame.toc) + 1
  /\ next_num_passes_to_pause \in Nat
  /\ outcome \in {"none", "progression", "more input", "image", "error"}

FrameTypeOK ==
  /\ processed_section \subseteq Sections
  /\ num_sections_done \in Nat
  /\ decoded_dc_groups \subseteq 1 .. frame.dc_groups
  /\ decoded_passes \in [Groups -> 0 .. frame.passes]

CallTypeOK ==
  /\ phase \in Phases
  /\ given \subseteq Sections
  /\ duplicate \subseteq given
  /\ done \subseteq given
  /\ desired \in [Groups -> 0 .. frame.passes]
  /\ num_threads \in Nat
  /\ todo \subseteq Groups

FlagsOK ==
  /\ dc_frame_progression_done \in BOOLEAN
  /\ decoded_dc_global \in BOOLEAN
  /\ finalized_dc \in BOOLEAN
  /\ decoded_ac_global \in BOOLEAN
  /\ has_error \in BOOLEAN

TypeOK ==
  /\ frame \in Frames
  /\ BorderTypeOK /\ SessionTypeOK /\ FrameTypeOK /\ CallTypeOK /\ FlagsOK

-----------------------------------------------------------------------------
(* Lanes.                                                                  *)

\* A thread at work has a group that was handed out in this run, to it alone,
\* and the buffers that GetStorageLocation gives it.
LanesInv ==
  /\ \A t \in Threads : lane[t].at = "free" => lane[t] = Free
  /\ \A t \in Threads : lane[t] # Free =>
       /\ Drawing
       /\ t < num_threads
       /\ lane[t].group \in Groups \ todo
       /\ lane[t].storage = IF frame.full THEN t ELSE StorageLocation(t, lane[t].group, NumGroups)
       /\ \A u \in Threads \ {t} : lane[u] # Free => lane[u].group # lane[t].group

\* The groups of a run have newer data than is saved until a thread saves it.
SavedInv ==
  /\ ~ Drawing => todo = {} \/ outcome = "error"
  /\ Drawing => todo \cap saved = {}
  /\ \A t \in Threads :
       /\ lane[t].at = "save" => lane[t].group \notin saved
       /\ lane[t].at \in {"mark", "draw"} => lane[t].group \in saved

-----------------------------------------------------------------------------
(* Records of the sections.                                                *)

RecordsInv ==
  /\ num_sections_done = Cardinality(section_processed)
  /\ duplicate = {}
  /\ InCall => /\ given \cap section_processed = {}
               /\ processed_section = section_processed \cup given
  /\ ~ InCall /\ (phase = "idle" => outcome # "error") => processed_section = section_processed
  /\ phase # "idle" => outcome \notin {"image", "error"}

-----------------------------------------------------------------------------
(* What has been decoded.                                                  *)

Decoded(part) ==
  \/ part = <<"dc global">> /\ decoded_dc_global
  \/ part = <<"ac global">> /\ decoded_ac_global
  \/ \E i \in decoded_dc_groups : part = <<"dc", i>>
  \/ \E g \in Groups : \E n \in 0 .. decoded_passes[g] - 1 : part = PassOf(g, n)

\* Data is decoded in the order of its dependencies, and none of it is damaged.
OrderInv ==
  /\ decoded_dc_groups # {} => decoded_dc_global
  /\ finalized_dc => decoded_dc_groups = 1 .. frame.dc_groups
  /\ decoded_ac_global => finalized_dc
  /\ ~ decoded_ac_global => \A g \in Groups : decoded_passes[g] = 0
  /\ \A part \in frame.broken : ~ Decoded(part)
  /\ phase = "groups" => decoded_ac_global
  /\ has_error => phase = "groups"

\* The passes to decode in this call are there, and the group has them all when
\* it gets the last.
Wanted(g) ==
  /\ decoded_passes[g] + desired[g] <= frame.passes
  /\ \A k \in 0 .. desired[g] - 1 : PassOf(g, decoded_passes[g] + k) \in Given

DesiredInv ==
  /\ phase \in {"dc", "finalize dc", "ac"} => \A g \in Groups : Wanted(g)
  /\ phase = "groups" => \A g \in todo : Wanted(g) /\ desired[g] > 0

\* A frame in one section has all of it decoded by the call that is given it.
SingleInv ==
  /\ InCall => given # {}
  /\ Single => frame.passes = 1 /\ Groups = {0}
  /\ Single /\ phase \in {"dc", "finalize dc", "ac"} => decoded_passes[0] = 0 /\ desired[0] = 1
  /\ Single /\ phase = "finalize dc" =>
       decoded_dc_global /\ decoded_dc_groups = 1 .. frame.dc_groups
  /\ Single /\ phase = "ac" => finalized_dc
  /\ Single /\ phase = "groups" => decoded_passes[0] = 1 \/ 0 \in todo \/ has_error
  /\ Single /\ phase = "mark" => decoded_passes[0] = 1
  /\ Single /\ InCall /\ phase # "dc" => done = given
  /\ Single /\ ~ InCall /\ section_processed = {} /\ (phase = "idle" => outcome # "error") =>
       decoded_passes[0] = 0

\* What is done is decoded.
DoneInv ==
  /\ \A i \in section_processed : \A part \in frame.toc[i] : Decoded(part)
  /\ phase \in {"finalize dc", "ac", "groups"} /\ ~ Single =>
       \A i \in done : \A part \in frame.toc[i] : Decoded(part)
  /\ phase = "mark" => \A i \in done : \A part \in frame.toc[i] : Decoded(part)
  /\ phase = "dc" => done = {}
  /\ phase = "final" \/ outcome = "image" => HasDecodedAll

\* A group that is complete was drawn, or is about to be.
DrawnInv ==
  /\ ~ frame.full =>
       \A g \in Groups : decoded_passes[g] = frame.passes =>
         g \in saved \/ \E t \in Threads : lane[t].at = "save" /\ lane[t].group = g
  /\ phase \in {"groups", "flush"} /\ ~ frame.full =>
       \A g \in todo : decoded_passes[g] < frame.passes
  /\ phase = "final" =>
       \A g \in Groups : g \in saved \cup todo
         \/ \E t \in Threads : lane[t].at = "save" /\ lane[t].group = g
  /\ phase = "final" => frame.full
  /\ outcome = "image" => saved = Groups

-----------------------------------------------------------------------------
(* Pauses.                                                                 *)

Stops == PassesToPause \cup {frame.passes + 1}

PausesInv ==
  /\ prog_detail >= 2 =>
       /\ \A n \in Stops : n > NumCompletePasses => n >= next_num_passes_to_pause
       /\ \A g \in Groups : decoded_passes[g] <= next_num_passes_to_pause
       /\ phase = "groups" => \A g \in todo : decoded_passes[g] + desired[g] <= next_num_passes_to_pause
  /\ phase \in {"dc", "finalize dc", "ac"} => next_num_passes_to_pause = NextNumPassesToPause
  /\ prog_detail >= 1 /\ ~ dc_frame_progression_done =>
       /\ \A g \in Groups : decoded_passes[g] = 0
       /\ finalized_dc => \/ phase \in {"mark", "report", "final"}
                          \/ phase = "idle" /\ outcome = "image"

-----------------------------------------------------------------------------
(* Borders.                                                                *)

\* The pixel also depends on the column to the right, on the row below.
ReachesRight(g, p) == GroupX(g) + 1 < xsize_groups /\ Reaches(GroupX(g) + 1, Padding[1], p[1])
ReachesDown(g, p) == GroupY(g) + 1 < ysize_groups /\ Reaches(GroupY(g) + 1, Padding[2], p[2])

\* The corner of group g, by its number, at which it is settled who draws a
\* pixel that depends on it: the one that the groups it depends on share.
Visit(g, p) ==
  IF ReachesRight(g, p) THEN (IF ReachesDown(g, p) THEN 3 ELSE 2)
  ELSE (IF ReachesDown(g, p) THEN 4 ELSE 1)
NearSides(p) == {SideOf[Visit(g, p)] : g \in NearGroups(p)}

\* A group draws a pixel when it was the last one there.
Draws(g, status, p) == g \in NearGroups(p) /\ NearSides(p) \subseteq status[Visit(g, p)]

\* Group g has marked its corner k since its data is saved.
Marked(g, k) ==
  /\ g \in saved
  /\ \A t \in Threads : lane[t].at = "mark" /\ lane[t].group = g => k <= Len(lane[t].status)

Seen(t, k) == lane[t].at \in {"mark", "draw"} /\ k \in 1 .. Len(lane[t].status)

MarksInv ==
  /\ \A g \in Groups : \A k \in 1 .. 4 : SideOf[k] \in counters[CornerOf(g)[k]] <=> Marked(g, k)
  /\ \A t \in Threads :
       /\ lane[t].at = "save" => lane[t].status = <<>>
       /\ lane[t].at = "mark" => Len(lane[t].status) < 4
       /\ lane[t].at = "draw" => Len(lane[t].status) = 4
       /\ \A k \in 1 .. 4 : Seen(t, k) =>
            /\ SideOf[k] \in lane[t].status[k]
            /\ lane[t].status[k] \subseteq counters[CornerOf(lane[t].group)[k]]
  /\ \A t, u \in Threads : \A j, k \in 1 .. 4 :
       /\ t # u /\ Seen(t, j) /\ Seen(u, k)
       /\ CornerOf(lane[t].group)[j] = CornerOf(lane[u].group)[k]
       => ~ (SideOf[k] \in lane[t].status[j] /\ SideOf[j] \in lane[u].status[k])

Covered(rects) == UNION {Area(rects[k]) : k \in 1 .. Len(rects)}
Separate(rects) ==
  \A j, k \in 1 .. Len(rects) : j # k => Area(rects[j]) \cap Area(rects[k]) = {}

\* A thread draws what its group came last at, in separate rectangles.
RectsInv ==
  \A t \in Threads :
    /\ lane[t].at # "draw" => lane[t].rects = <<>>
    /\ lane[t].at = "draw" =>
         /\ Len(lane[t].rects) <= 3
         /\ Covered(lane[t].rects) \subseteq {p \in Pixels : Draws(lane[t].group, lane[t].status, p)}
         /\ Separate(lane[t].rects)

\* Thread t will draw the pixel, or has not seen yet whether it will.
MayDraw(t, p) ==
  /\ lane[t].at \in {"mark", "draw"}
  /\ lane[t].group \in NearGroups(p)
  /\ LET k == Visit(lane[t].group, p)
     IN  \/ Len(lane[t].status) < k
         \/ lane[t].at = "mark" /\ NearSides(p) \subseteq lane[t].status[k]
         \/ lane[t].at = "draw" /\ p \in Covered(lane[t].rects)

CoverInv == \A p \in stale : NearGroups(p) \subseteq saved => \E t \in Threads : MayDraw(t, p)

-----------------------------------------------------------------------------
IInv ==
  /\ TypeOK
  /\ LanesInv /\ SavedInv
  /\ RecordsInv /\ OrderInv /\ DesiredInv /\ SingleInv /\ DoneInv /\ DrawnInv
  /\ PausesInv
  /\ MarksInv /\ RectsInv /\ CoverInv
==============================================================================
