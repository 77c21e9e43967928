------------------------------ MODULE GroupBorder ------------------------------
(***************************************************************************)
(* How the low memory render pipeline draws a frame group by group. A      *)
(* group's pixels near another group need that group's pixels too, so the  *)
(* border between groups is drawn by the one that is done last:            *)
(* jxl::GroupBorderAssigner lets the groups around a corner agree on who   *)
(* that is, with four bits per corner of an atomic word. Threads do this   *)
(* concurrently; a step is one atomic operation, one group's borders saved *)
(* for the others, or one rectangle drawn.                                 *)
(*                                                                         *)
(* Drawing is seen from what it shows: a pixel is stale when a group whose *)
(* data it depends on has saved newer data than the pixel was drawn from.  *)
(***************************************************************************)
EXTENDS Integers, Sequences, FiniteSets

CONSTANTS
  GroupDim,      \* pixels along the side of a group
  Padding,       \* <<group_border_.first, group_border_.second>>
  Threads        \* the thread numbers a runner may call with

ASSUME GeometryAssumption ==
  /\ GroupDim \in Nat \ {0}
  /\ Padding \in Nat \X Nat
  /\ 2 * Padding[1] <= GroupDim /\ 2 * Padding[2] <= GroupDim

ASSUME ThreadsAssumption == Threads \subseteq Nat /\ IsFiniteSet(Threads)

VARIABLES
  frame,         \* the frame: xsize, ysize, and what FrameSections needs
  counters,      \* counters_: the sides that are done, for each corner
  saved,         \* history: groups whose stored borders hold their newest data
  stale,         \* history: pixels that show older data than what is saved
  lane           \* what each thread does for the group it was given

borderVars == <<counters, saved, stale, lane>>

-----------------------------------------------------------------------------
(* FrameDimensions.                                                        *)

Least(a, b) == IF a < b THEN a ELSE b
GroupsAlong(size) == (size + GroupDim - 1) \div GroupDim
xsize_groups == GroupsAlong(frame.xsize)
ysize_groups == GroupsAlong(frame.ysize)
Groups == 0 .. xsize_groups * ysize_groups - 1
GroupX(g) == g % xsize_groups
GroupY(g) == g \div xsize_groups
Pixels == (0 .. frame.xsize - 1) \X (0 .. frame.ysize - 1)

\* A pixel depends on the groups that reach into its neighbourhood.
Reaches(i, pad, at) == i * GroupDim - pad <= at /\ at < (i + 1) * GroupDim + pad
NearGroups(p) ==
  {g \in Groups : Reaches(GroupX(g), Padding[1], p[1]) /\ Reaches(GroupY(g), Padding[2], p[2])}
NearPixels(g) == {p \in Pixels : g \in NearGroups(p)}

-----------------------------------------------------------------------------
(* The four groups around a corner.                                        *)

Sides == {"TopLeft", "TopRight", "BottomRight", "BottomLeft"}
Corners == (0 .. xsize_groups) \X (0 .. ysize_groups)

\* The corners of a group in the order GroupDone visits them, clockwise from
\* the top left one, and the side of each that the group is on.
CornerOf(g) ==
  LET x == GroupX(g)  y == GroupY(g)
  IN  <<<<x, y>>, <<x + 1, y>>, <<x + 1, y + 1>>, <<x, y + 1>>>>
SideOf == <<"BottomRight", "BottomLeft", "TopLeft", "TopRight">>

\* Init: what lies outside the frame counts as done.
Outside(c) ==
  (IF c[2] = 0 THEN {"TopLeft", "TopRight"} ELSE {}) \cup
  (IF c[2] = ysize_groups THEN {"BottomLeft", "BottomRight"} ELSE {}) \cup
  (IF c[1] = 0 THEN {"TopLeft", "BottomLeft"} ELSE {}) \cup
  (IF c[1] = xsize_groups THEN {"TopRight", "BottomRight"} ELSE {})

Free == [at |-> "free", group |-> 0, storage |-> 0, status |-> <<>>, rects |-> <<>>]

InitBorders ==
  /\ counters' = [c \in Corners |-> Outside(c)]
  /\ saved' = {}
  /\ stale' = Pixels
  /\ UNCHANGED lane

\* ClearDone, for all of the groups gs.
ClearDone(gs) ==
  counters' = [c \in Corners |->
    counters[c] \ {SideOf[k] : k \in {j \in 1 .. 4 : \E g \in gs : CornerOf(g)[j] = c}}]

-----------------------------------------------------------------------------
(* GroupDone, once the four corners have been visited.                     *)

Full(side) == side = Sides

\* Mutation of Parts: the last but one at a corner draws it.
PartsWithThree(status) ==
  {<<1, 1>>} \cup
  {<<<<0, 0>>, <<2, 0>>, <<2, 2>>, <<0, 2>>>>[k] : k \in {j \in 1 .. 4 : Cardinality(status[j]) >= 3}} \cup
  (IF "TopRight" \in status[1] THEN {<<1, 0>>} ELSE {}) \cup
  (IF "BottomLeft" \in status[1] THEN {<<0, 1>>} ELSE {}) \cup
  (IF "BottomRight" \in status[2] THEN {<<2, 1>>} ELSE {}) \cup
  (IF "BottomRight" \in status[4] THEN {<<1, 2>>} ELSE {})

\* Which of the 3 x 3 parts of a group's area this group draws: its centre,
\* and the borders and corners where it came last.
Parts(status) ==
  {<<1, 1>>} \cup
  (IF Full(status[1]) THEN {<<0, 0>>} ELSE {}) \cup
  (IF Full(status[2]) THEN {<<2, 0>>} ELSE {}) \cup
  (IF Full(status[3]) THEN {<<2, 2>>} ELSE {}) \cup
  (IF Full(status[4]) THEN {<<0, 2>>} ELSE {}) \cup
  (IF "TopRight" \in status[1] THEN {<<1, 0>>} ELSE {}) \cup
  (IF "BottomLeft" \in status[1] THEN {<<0, 1>>} ELSE {}) \cup
  (IF "BottomRight" \in status[2] THEN {<<2, 1>>} ELSE {}) \cup
  (IF "BottomRight" \in status[4] THEN {<<1, 2>>} ELSE {})

\* xpos and ypos: where the three parts begin and end along one axis.
Cuts(i, along, size, pad) ==
  LET first == i * GroupDim  next == (i + 1) * GroupDim
  IN  << IF i = 0 THEN 0 ELSE first - pad,
         IF i = 0 THEN 0 ELSE Least(size, first + pad),
         IF i + 1 = along THEN size ELSE next - pad,
         Least(size, next + pad) >>

\* The parts of one row as a segment [from, to), <<3, 3>> if there are none.
Segment(parts, py) ==
  LET px == {q[1] : q \in {p \in parts : p[2] = py}}
  IN  IF px = {} THEN <<3, 3>>
      ELSE << CHOOSE a \in px : \A b \in px : a <= b,
              1 + CHOOSE a \in px : \A b \in px : a >= b >>

Rect(g, segment, from, to) ==
  LET xpos == Cuts(GroupX(g), xsize_groups, frame.xsize, Padding[1])
      ypos == Cuts(GroupY(g), ysize_groups, frame.ysize, Padding[2])
  IN  IF segment = <<3, 3>> THEN [x0 |-> 0, x1 |-> 0, y0 |-> 0, y1 |-> 0]
      ELSE [ x0 |-> xpos[segment[1] + 1], x1 |-> xpos[segment[2] + 1],
             y0 |-> ypos[from + 1], y1 |-> ypos[to + 1] ]

Area(rect) == (rect.x0 .. rect.x1 - 1) \X (rect.y0 .. rect.y1 - 1)

\* append_rect: empty rectangles are dropped.
AppendRect(rects, r) == IF Area(r) = {} THEN rects ELSE Append(rects, r)

\* Mutation of RectsToFinalize: rows are merged by where they begin.
RectsMergedByStart(g, status) ==
  LET s == [py \in 0 .. 2 |-> Segment(Parts(status), py)]
      R(py, to) == Rect(g, s[py], py, to)
  IN  IF s[0][1] = s[1][1] /\ s[0][1] = s[2][1] THEN AppendRect(<<>>, R(0, 3))
      ELSE IF s[0][1] = s[1][1] THEN AppendRect(AppendRect(<<>>, R(0, 2)), R(2, 3))
      ELSE IF s[1][1] = s[2][1] THEN AppendRect(AppendRect(<<>>, R(0, 1)), R(1, 3))
      ELSE AppendRect(AppendRect(AppendRect(<<>>, R(0, 1)), R(1, 2)), R(2, 3))

\* Rows of the same extent are merged.
RectsToFinalize(g, status) ==
  LET s == [py \in 0 .. 2 |-> Segment(Parts(status), py)]
      R(py, to) == Rect(g, s[py], py, to)
  IN  IF s[0] = s[1] /\ s[0] = s[2] THEN AppendRect(<<>>, R(0, 3))
      ELSE IF s[0] = s[1] THEN AppendRect(AppendRect(<<>>, R(0, 2)), R(2, 3))
      ELSE IF s[1] = s[2] THEN AppendRect(AppendRect(<<>>, R(0, 1)), R(1, 3))
      ELSE AppendRect(AppendRect(AppendRect(<<>>, R(0, 1)), R(1, 2)), R(2, 3))

-----------------------------------------------------------------------------
(* ProcessBuffers, for the group a thread was given and has new data for.  *)

\* SaveBorders.
SaveBorders(t) ==
  LET g == lane[t].group
  IN  /\ lane[t].at = "save"
      /\ saved' = saved \cup {g}
      /\ stale' = stale \cup NearPixels(g)
      /\ lane' = [lane EXCEPT ![t].at = "mark"]
      /\ UNCHANGED counters

\* Mutation of MarkCorner: the group does not count itself.
MarkCornerOldValue(t) ==
  LET g == lane[t].group
      k == Len(lane[t].status) + 1
      c == CornerOf(g)[k]
  IN  /\ lane[t].at = "mark"
      /\ counters' = [counters EXCEPT ![c] = @ \cup {SideOf[k]}]
      /\ \E status \in {Append(lane[t].status, counters[c])} :
           lane' = [lane EXCEPT ![t].status = status,
                      ![t].at = IF k = 4 THEN "draw" ELSE "mark",
                      ![t].rects = IF k = 4 THEN RectsToFinalize(g, status) ELSE <<>>]
      /\ UNCHANGED <<saved, stale>>

\* One fetch_status of GroupDone: the group marks a corner and sees who did
\* before. After the last one it knows what to draw.
MarkCorner(t) ==
  LET g == lane[t].group
      k == Len(lane[t].status) + 1
      c == CornerOf(g)[k]
  IN  /\ lane[t].at = "mark"
      /\ counters' = [counters EXCEPT ![c] = @ \cup {SideOf[k]}]
      /\ \E status \in {Append(lane[t].status, counters[c] \cup {SideOf[k]})} :
           lane' = [lane EXCEPT ![t].status = status,
                      ![t].at = IF k = 4 THEN "draw" ELSE "mark",
                      ![t].rects = IF k = 4 THEN RectsToFinalize(g, status) ELSE <<>>]
      /\ UNCHANGED <<saved, stale>>

\* LoadBorders and RenderRect for the next rectangle.
RenderRect(t) ==
  /\ lane[t].at = "draw" /\ lane[t].rects # <<>>
  /\ stale' = stale \ Area(Head(lane[t].rects))
  /\ lane' = [lane EXCEPT ![t].rects = Tail(@)]
  /\ UNCHANGED <<counters, saved>>

\* The thread is done with the group.
Leave(t) ==
  /\ lane[t].at = "draw" /\ lane[t].rects = <<>>
  /\ lane' = [lane EXCEPT ![t] = Free]
  /\ UNCHANGED <<counters, saved, stale>>

DrawStep(t) == SaveBorders(t) \/ MarkCorner(t) \/ RenderRect(t) \/ Leave(t)
==============================================================================
