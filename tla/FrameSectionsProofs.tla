-------------------------- MODULE FrameSectionsProofs --------------------------
(***************************************************************************)
(* Proofs about FrameSections, for frames, groups and paddings of any      *)
(* size, any number of passes and any number of threads.  First the        *)
(* geometry of groups and their borders: which groups a pixel depends on,  *)
(* at which corner they settle who draws it, and what the rectangles of    *)
(* GroupDone cover.  Then the steps of the decoder.                        *)
(***************************************************************************)
EXTENDS FrameSectionsInvariants, TLAPS, FiniteSetTheorems, WellFoundedInduction

-----------------------------------------------------------------------------
(* Numbers and sets.                                                       *)

LEMMA LeastNumber ==
  ASSUME NEW S \in SUBSET Nat, S # {}
  PROVE  \E n \in S : \A m \in S : n <= m
<1>1. PICK n \in S : \A m \in S : ~ (<<m, n>> \in OpToRel(<, Nat))
  BY NatLessThanWellFounded, WFMin, Zenon
<1>2. \A m \in S : ~ (m < n)
  BY <1>1 DEF OpToRel
<1> QED BY <1>2

LEMMA GroupsAlongType ==
  ASSUME NEW size \in Nat \ {0}
  PROVE  /\ GroupsAlong(size) \in Nat \ {0}
         /\ GroupsAlong(size) * GroupDim >= size
         /\ (GroupsAlong(size) - 1) * GroupDim < size
  BY GeometryAssumption DEF GroupsAlong

LEMMA FrameType ==
  ASSUME frame \in Frames
  PROVE  /\ frame.xsize \in Nat \ {0} /\ frame.ysize \in Nat \ {0}
         /\ frame.dc_groups \in Nat \ {0} /\ frame.passes \in Nat \ {0}
         /\ frame.pauses \subseteq 1 .. frame.passes
         /\ frame.full \in BOOLEAN /\ frame.pausable \in BOOLEAN /\ frame.flushable \in BOOLEAN
         /\ frame.broken \subseteq PartsOf(frame)
         /\ frame.toc \in Seq(SUBSET PartsOf(frame))
         /\ Len(frame.toc) \in Nat
         /\ SectionsHold(frame.toc, PartsOf(frame), frame)
<1>1. frame.toc \in Seq(SUBSET PartsOf(frame))
  BY FramesAssumption
<1>2. Len(frame.toc) \in Nat
  BY <1>1
<1>3. /\ frame.xsize \in Nat \ {0} /\ frame.ysize \in Nat \ {0}
      /\ frame.dc_groups \in Nat \ {0} /\ frame.passes \in Nat \ {0}
  BY FramesAssumption
<1>4. frame.full \in BOOLEAN /\ frame.pausable \in BOOLEAN /\ frame.flushable \in BOOLEAN
  BY FramesAssumption
<1> QED BY <1>1, <1>2, <1>3, <1>4, FramesAssumption

\* There is a group, and there are as many as their numbers say.
LEMMA GroupsFacts ==
  ASSUME frame \in Frames
  PROVE  /\ xsize_groups \in Nat \ {0} /\ ysize_groups \in Nat \ {0}
         /\ NumGroups \in Nat \ {0}
         /\ Groups = 0 .. NumGroups - 1
         /\ Groups = GroupsOf(frame)
         /\ IsFiniteSet(Groups)
<1>1. frame.xsize \in Nat \ {0} /\ frame.ysize \in Nat \ {0}
  BY FrameType
<1>2. xsize_groups \in Nat \ {0} /\ ysize_groups \in Nat \ {0}
  BY <1>1, GroupsAlongType DEF xsize_groups, ysize_groups
<1>3. xsize_groups * ysize_groups \in Nat \ {0}
  BY <1>2
<1>4. IsFiniteSet(Groups) /\ Cardinality(Groups) = xsize_groups * ysize_groups
  BY <1>3, FS_Interval DEF Groups
<1> QED
  BY <1>2, <1>3, <1>4 DEF NumGroups, Groups, GroupsOf, xsize_groups, ysize_groups

\* What the frame determines stays as it is.
LEMMA FrameStays ==
  ASSUME frame' = frame
  PROVE  /\ xsize_groups' = xsize_groups /\ ysize_groups' = ysize_groups
         /\ Groups' = Groups /\ NumGroups' = NumGroups
         /\ Pixels' = Pixels /\ Corners' = Corners
         /\ Sections' = Sections /\ Single' = Single
         /\ \A p : NearGroups(p)' = NearGroups(p)
         /\ \A g : CornerOf(g)' = CornerOf(g)
         /\ \A c : Outside(c)' = Outside(c)
         /\ \A g, p : Visit(g, p)' = Visit(g, p)
         /\ \A p : NearSides(p)' = NearSides(p)
<1>1. xsize_groups' = xsize_groups /\ ysize_groups' = ysize_groups
  BY DEF xsize_groups, ysize_groups
<1>2. Groups' = Groups /\ Pixels' = Pixels /\ Corners' = Corners /\ Sections' = Sections /\ Single' = Single
  BY <1>1 DEF Groups, Pixels, Corners, Sections, Single
<1>3. NumGroups' = NumGroups
  BY <1>2 DEF NumGroups
<1>4. \A g : GroupX(g)' = GroupX(g) /\ GroupY(g)' = GroupY(g)
  BY <1>1 DEF GroupX, GroupY
<1>5. \A p : NearGroups(p)' = NearGroups(p)
  BY <1>2, <1>4 DEF NearGroups
<1>6. \A g : CornerOf(g)' = CornerOf(g)
  BY <1>4 DEF CornerOf
<1>7. \A c : Outside(c)' = Outside(c)
  BY <1>1 DEF Outside
<1>8. \A g, p : Visit(g, p)' = Visit(g, p)
  BY <1>1, <1>4 DEF Visit, ReachesRight, ReachesDown
<1>9. \A p : NearSides(p)' = NearSides(p)
  BY <1>5, <1>8 DEF NearSides
<1> QED BY <1>1, <1>2, <1>3, <1>5, <1>6, <1>7, <1>8, <1>9

-----------------------------------------------------------------------------
(* Groups by their places.                                                 *)

LEMMA PlaceOfGroup ==
  ASSUME frame \in Frames, NEW g \in Groups
  PROVE  /\ GroupX(g) \in 0 .. xsize_groups - 1
         /\ GroupY(g) \in 0 .. ysize_groups - 1
         /\ g = GroupY(g) * xsize_groups + GroupX(g)
<1>1. xsize_groups \in Nat \ {0} /\ ysize_groups \in Nat \ {0}
  BY GroupsFacts
<1>2. g \in Nat /\ g < xsize_groups * ysize_groups
  BY <1>1 DEF Groups
<1>3. \A n \in Nat, a \in Nat \ {0}, b \in Nat \ {0} : n < a * b =>
        n % a \in 0 .. a - 1 /\ n \div a \in 0 .. b - 1 /\ n = (n \div a) * a + (n % a)
  <2> SUFFICES ASSUME NEW n \in Nat, NEW a \in Nat \ {0}, NEW b \in Nat \ {0}, n < a * b
               PROVE  n % a \in 0 .. a - 1 /\ n \div a \in 0 .. b - 1 /\ n = (n \div a) * a + (n % a)
    OBVIOUS
  <2>1. n % a \in 0 .. a - 1 /\ n \div a \in Nat /\ n = (n \div a) * a + (n % a)
    OBVIOUS
  <2>2. n \div a < b
    <3>1. CASE n \div a >= b
      <4>1. (n \div a) * a >= b * a
        BY <2>1, <3>1
      <4> QED BY <2>1, <4>1
    <3> QED BY <2>1, <3>1
  <2> QED BY <2>1, <2>2
<1> QED BY <1>1, <1>2, <1>3 DEF GroupX, GroupY

LEMMA GroupAtPlace ==
  ASSUME frame \in Frames, NEW x \in 0 .. xsize_groups - 1, NEW y \in 0 .. ysize_groups - 1
  PROVE  \E g \in Groups : GroupX(g) = x /\ GroupY(g) = y
<1>1. xsize_groups \in Nat \ {0} /\ ysize_groups \in Nat \ {0}
  BY GroupsFacts
<1>2. \A a \in Nat \ {0}, b \in Nat \ {0} : \A i \in 0 .. a - 1, j \in 0 .. b - 1 :
        /\ (j * a + i) % a = i /\ (j * a + i) \div a = j
        /\ j * a + i \in 0 .. a * b - 1
  <2> SUFFICES ASSUME NEW a \in Nat \ {0}, NEW b \in Nat \ {0}, NEW i \in 0 .. a - 1, NEW j \in 0 .. b - 1
               PROVE  /\ (j * a + i) % a = i /\ (j * a + i) \div a = j
                      /\ j * a + i \in 0 .. a * b - 1
    OBVIOUS
  <2>1. (j * a + i) % a = i /\ (j * a + i) \div a = j
    OBVIOUS
  <2>2. j * a <= (b - 1) * a /\ j * a \in Nat /\ (b - 1) * a = a * b - a
    OBVIOUS
  <2> QED BY <2>1, <2>2
<1> DEFINE g == y * xsize_groups + x
<1>3. g \in Groups /\ g % xsize_groups = x /\ g \div xsize_groups = y
  BY <1>1, <1>2 DEF Groups
<1> QED BY <1>3 DEF GroupX, GroupY

LEMMA SamePlace ==
  ASSUME frame \in Frames, NEW g \in Groups, NEW h \in Groups,
         GroupX(g) = GroupX(h), GroupY(g) = GroupY(h)
  PROVE  g = h
BY PlaceOfGroup

-----------------------------------------------------------------------------
(* One axis: along it a pixel depends on one column, or on two neighbours. *)

ReachesBack(i, pad, at) == i >= 1 /\ Reaches(i - 1, pad, at)
ReachesOn(i, along, pad, at) == i + 1 < along /\ Reaches(i + 1, pad, at)

LEMMA AxisReaches ==
  ASSUME NEW size \in Nat \ {0}, NEW pad \in Nat, 2 * pad <= GroupDim,
         NEW at \in 0 .. size - 1
  PROVE  LET along == GroupsAlong(size)
         IN  /\ \E i \in 0 .. along - 1 : Reaches(i, pad, at)
             /\ \A i, j \in 0 .. along - 1 : Reaches(i, pad, at) =>
                  /\ ~ (ReachesBack(i, pad, at) /\ ReachesOn(i, along, pad, at))
                  /\ Reaches(j, pad, at) <=>
                       \/ j = i
                       \/ j = i - 1 /\ ReachesBack(i, pad, at)
                       \/ j = i + 1 /\ ReachesOn(i, along, pad, at)
<1> DEFINE along == GroupsAlong(size)
<1>0. GroupDim \in Nat \ {0}
  BY GeometryAssumption
<1>1. along \in Nat \ {0} /\ along * GroupDim >= size
  BY GroupsAlongType
<1> HIDE DEF along
<1>2. \E i \in 0 .. along - 1 : Reaches(i, pad, at)
  <2> DEFINE i == at \div GroupDim
  <2>1. i \in Nat /\ i * GroupDim <= at /\ at < (i + 1) * GroupDim
    BY <1>0
  <2> HIDE DEF i
  <2>2. i < along
    <3>1. CASE i >= along
      <4>1. i * GroupDim >= along * GroupDim
        BY <1>0, <1>1, <2>1, <3>1
      <4> QED BY <1>0, <1>1, <2>1, <4>1
    <3> QED BY <1>1, <2>1, <3>1
  <2>3. Reaches(i, pad, at)
    BY <1>0, <2>1 DEF Reaches
  <2> QED BY <1>1, <2>1, <2>2, <2>3
<1>3. ASSUME NEW i \in 0 .. along - 1, NEW j \in 0 .. along - 1, Reaches(i, pad, at)
      PROVE  /\ ~ (ReachesBack(i, pad, at) /\ ReachesOn(i, along, pad, at))
             /\ Reaches(j, pad, at) <=>
                  \/ j = i
                  \/ j = i - 1 /\ ReachesBack(i, pad, at)
                  \/ j = i + 1 /\ ReachesOn(i, along, pad, at)
  <2> DEFINE x == i * GroupDim
  <2>1. /\ x \in Nat /\ (i + 1) * GroupDim = x + GroupDim
        /\ (i - 1) * GroupDim = x - GroupDim /\ ((i - 1) + 1) * GroupDim = x
        /\ ((i + 1) + 1) * GroupDim = x + 2 * GroupDim
    BY <1>0, <1>1
  <2>2. x - pad <= at /\ at < x + GroupDim + pad
    BY <1>3, <2>1 DEF Reaches
  <2>3. Reaches(i - 1, pad, at) => at < x + pad
    BY <1>0, <2>1 DEF Reaches
  <2>4. Reaches(i + 1, pad, at) => at >= x + GroupDim - pad
    BY <1>0, <2>1 DEF Reaches
  <2>5. ~ (ReachesBack(i, pad, at) /\ ReachesOn(i, along, pad, at))
    BY <1>0, <2>1, <2>3, <2>4 DEF ReachesBack, ReachesOn
  <2>6. CASE j < i - 1
    <3>1. (j + 1) * GroupDim <= (i - 1) * GroupDim /\ (j + 1) * GroupDim \in Nat
      BY <1>0, <1>1, <2>6
    <3>2. ~ Reaches(j, pad, at)
      BY <1>0, <2>1, <2>2, <3>1 DEF Reaches
    <3> QED BY <1>1, <2>5, <2>6, <3>2
  <2>7. CASE j > i + 1
    <3>1. j * GroupDim >= (i + 2) * GroupDim /\ (i + 2) * GroupDim = x + 2 * GroupDim /\ j * GroupDim \in Nat
      BY <1>0, <1>1, <2>7
    <3>2. ~ Reaches(j, pad, at)
      BY <1>0, <2>1, <2>2, <3>1 DEF Reaches
    <3> QED BY <1>1, <2>5, <2>7, <3>2
  <2>8. CASE j \in {i - 1, i, i + 1}
    BY <1>1, <1>3, <2>5, <2>8 DEF ReachesBack, ReachesOn
  <2> QED BY <1>1, <2>6, <2>7, <2>8
<1> QED BY <1>2, <1>3 DEF along

\* The three parts between the cuts are what is shared with the column before,
\* what is the column's own, and what is shared with the one after.
LEMMA AxisCuts ==
  ASSUME NEW size \in Nat \ {0}, NEW pad \in Nat, 2 * pad <= GroupDim,
         NEW i \in 0 .. GroupsAlong(size) - 1
  PROVE  LET along == GroupsAlong(size)
             c == Cuts(i, along, size, pad)
         IN  /\ c[1] \in Int /\ c[2] \in Int /\ c[3] \in Int /\ c[4] \in Int
             /\ 0 <= c[1] /\ c[1] <= c[2] /\ c[2] <= c[3] /\ c[3] <= c[4] /\ c[4] <= size
             /\ \A at \in 0 .. size - 1 :
                  /\ c[1] <= at /\ at < c[2] <=> Reaches(i, pad, at) /\ ReachesBack(i, pad, at)
                  /\ c[3] <= at /\ at < c[4] <=> Reaches(i, pad, at) /\ ReachesOn(i, along, pad, at)
                  /\ c[2] <= at /\ at < c[3] <=>
                       /\ Reaches(i, pad, at)
                       /\ ~ ReachesBack(i, pad, at) /\ ~ ReachesOn(i, along, pad, at)
<1> DEFINE along == GroupsAlong(size)
           c == Cuts(i, along, size, pad)
           x == i * GroupDim
<1>0. GroupDim \in Nat \ {0}
  BY GeometryAssumption
<1>1. along \in Nat \ {0} /\ along * GroupDim >= size /\ (along - 1) * GroupDim < size
  BY GroupsAlongType
<1> HIDE DEF along
<1>2. /\ x \in Nat /\ (i + 1) * GroupDim = x + GroupDim
      /\ (i - 1) * GroupDim = x - GroupDim /\ ((i - 1) + 1) * GroupDim = x
      /\ ((i + 1) + 1) * GroupDim = x + 2 * GroupDim
  BY <1>0, <1>1
<1>3. x < size
  <2>1. i * GroupDim <= (along - 1) * GroupDim
    BY <1>0, <1>1 DEF along
  <2> QED BY <1>0, <1>1, <2>1
<1>4. i >= 1 => x >= GroupDim
  BY <1>0, <1>2
<1>5. i + 1 < along => x + GroupDim < size
  <2>1. i + 1 < along => (i + 1) * GroupDim <= (along - 1) * GroupDim
    BY <1>0, <1>1 DEF along
  <2> QED BY <1>0, <1>1, <1>2, <2>1
<1>6. i + 1 = along => size <= x + GroupDim
  BY <1>1, <1>2
<1>7. i + 1 < along \/ i + 1 = along
  BY <1>1 DEF along
<1>8. /\ c[1] = IF i = 0 THEN 0 ELSE x - pad
      /\ c[2] = IF i = 0 THEN 0 ELSE Least(size, x + pad)
      /\ c[3] = IF i + 1 = along THEN size ELSE x + GroupDim - pad
      /\ c[4] = Least(size, x + GroupDim + pad)
  BY <1>0, <1>2 DEF Cuts
<1> HIDE DEF c
<1>9. /\ c[1] \in Int /\ c[2] \in Int /\ c[3] \in Int /\ c[4] \in Int
      /\ 0 <= c[1] /\ c[1] <= c[2] /\ c[2] <= c[3] /\ c[3] <= c[4] /\ c[4] <= size
  <2> HIDE DEF x
  <2> QED BY <1>0, <1>1, <1>2, <1>3, <1>4, <1>5, <1>6, <1>7, <1>8 DEF Least, along
<1>10. ASSUME NEW at \in 0 .. size - 1
       PROVE  /\ c[1] <= at /\ at < c[2] <=> Reaches(i, pad, at) /\ ReachesBack(i, pad, at)
              /\ c[3] <= at /\ at < c[4] <=> Reaches(i, pad, at) /\ ReachesOn(i, along, pad, at)
              /\ c[2] <= at /\ at < c[3] <=>
                   /\ Reaches(i, pad, at)
                   /\ ~ ReachesBack(i, pad, at) /\ ~ ReachesOn(i, along, pad, at)
  <2>1. Reaches(i, pad, at) <=> x - pad <= at /\ at < x + GroupDim + pad
    BY <1>0, <1>2 DEF Reaches
  <2>2. ReachesBack(i, pad, at) <=> i >= 1 /\ x - GroupDim - pad <= at /\ at < x + pad
    BY <1>0, <1>2 DEF Reaches, ReachesBack
  <2>3. ReachesOn(i, along, pad, at) <=> i + 1 < along /\ x + GroupDim - pad <= at /\ at < x + 2 * GroupDim + pad
    BY <1>0, <1>2 DEF Reaches, ReachesOn
  <2> HIDE DEF x
  <2>4. i = 0 => x = 0
    BY <1>0 DEF x
  <2> QED BY <1>0, <1>1, <1>2, <1>3, <1>4, <1>5, <1>6, <1>7, <1>8, <2>1, <2>2, <2>3, <2>4 DEF Least, along
<1> QED BY <1>9, <1>10 DEF c, along

-----------------------------------------------------------------------------
(* The groups a pixel depends on.                                          *)

ReachesLeft(g, p) == ReachesBack(GroupX(g), Padding[1], p[1])
ReachesUp(g, p) == ReachesBack(GroupY(g), Padding[2], p[2])

LEMMA PixelType ==
  ASSUME NEW p \in Pixels
  PROVE  p = <<p[1], p[2]>> /\ p[1] \in 0 .. frame.xsize - 1 /\ p[2] \in 0 .. frame.ysize - 1
BY DEF Pixels

LEMMA NearNotEmpty ==
  ASSUME frame \in Frames, NEW p \in Pixels
  PROVE  \E g \in Groups : g \in NearGroups(p)
<1>1. \E x \in 0 .. xsize_groups - 1 : Reaches(x, Padding[1], p[1])
  BY PixelType, FrameType, GeometryAssumption, AxisReaches DEF xsize_groups
<1>2. \E y \in 0 .. ysize_groups - 1 : Reaches(y, Padding[2], p[2])
  BY PixelType, FrameType, GeometryAssumption, AxisReaches DEF ysize_groups
<1> QED BY <1>1, <1>2, GroupAtPlace DEF NearGroups

\* Seen from one of them, they are those around one corner, or on one side.
LEMMA NearAre ==
  ASSUME frame \in Frames, NEW p \in Pixels, NEW g \in NearGroups(p)
  PROVE  /\ g \in Groups
         /\ ~ (ReachesLeft(g, p) /\ ReachesRight(g, p))
         /\ ~ (ReachesUp(g, p) /\ ReachesDown(g, p))
         /\ \A h \in Groups : h \in NearGroups(p) <=>
              /\ \/ GroupX(h) = GroupX(g)
                 \/ GroupX(h) = GroupX(g) - 1 /\ ReachesLeft(g, p)
                 \/ GroupX(h) = GroupX(g) + 1 /\ ReachesRight(g, p)
              /\ \/ GroupY(h) = GroupY(g)
                 \/ GroupY(h) = GroupY(g) - 1 /\ ReachesUp(g, p)
                 \/ GroupY(h) = GroupY(g) + 1 /\ ReachesDown(g, p)
<1>1. /\ g \in Groups
      /\ Reaches(GroupX(g), Padding[1], p[1]) /\ Reaches(GroupY(g), Padding[2], p[2])
  BY DEF NearGroups
<1>0. /\ frame.xsize \in Nat \ {0} /\ Padding[1] \in Nat /\ 2 * Padding[1] <= GroupDim
      /\ p[1] \in 0 .. frame.xsize - 1
  BY PixelType, FrameType, GeometryAssumption
<1>y. /\ frame.ysize \in Nat \ {0} /\ Padding[2] \in Nat /\ 2 * Padding[2] <= GroupDim
      /\ p[2] \in 0 .. frame.ysize - 1
  BY PixelType, FrameType, GeometryAssumption
<1>2. \A i, j \in 0 .. xsize_groups - 1 : Reaches(i, Padding[1], p[1]) =>
        /\ ~ (ReachesBack(i, Padding[1], p[1]) /\ ReachesOn(i, xsize_groups, Padding[1], p[1]))
        /\ Reaches(j, Padding[1], p[1]) <=>
             \/ j = i
             \/ j = i - 1 /\ ReachesBack(i, Padding[1], p[1])
             \/ j = i + 1 /\ ReachesOn(i, xsize_groups, Padding[1], p[1])
  BY ONLY <1>0, AxisReaches DEF xsize_groups
<1>3. \A i, j \in 0 .. ysize_groups - 1 : Reaches(i, Padding[2], p[2]) =>
        /\ ~ (ReachesBack(i, Padding[2], p[2]) /\ ReachesOn(i, ysize_groups, Padding[2], p[2]))
        /\ Reaches(j, Padding[2], p[2]) <=>
             \/ j = i
             \/ j = i - 1 /\ ReachesBack(i, Padding[2], p[2])
             \/ j = i + 1 /\ ReachesOn(i, ysize_groups, Padding[2], p[2])
  BY ONLY SMTT(30), <1>y, AxisReaches DEF ysize_groups
<1>4. \A h \in Groups : GroupX(h) \in 0 .. xsize_groups - 1 /\ GroupY(h) \in 0 .. ysize_groups - 1
  BY PlaceOfGroup
<1>5. /\ ReachesRight(g, p) <=> ReachesOn(GroupX(g), xsize_groups, Padding[1], p[1])
      /\ ReachesDown(g, p) <=> ReachesOn(GroupY(g), ysize_groups, Padding[2], p[2])
  BY DEF ReachesRight, ReachesDown, ReachesOn
<1> QED BY <1>1, <1>2, <1>3, <1>4, <1>5 DEF ReachesLeft, ReachesUp, NearGroups

\* What one of them says of the pixel the others say as well.
LEMMA NearAgree ==
  ASSUME frame \in Frames, NEW p \in Pixels, NEW g \in NearGroups(p), NEW h \in NearGroups(p)
  PROVE  /\ \/ GroupX(h) = GroupX(g) /\ (ReachesLeft(h, p) <=> ReachesLeft(g, p))
                                     /\ (ReachesRight(h, p) <=> ReachesRight(g, p))
            \/ /\ GroupX(h) = GroupX(g) - 1
               /\ ReachesLeft(g, p) /\ ~ ReachesRight(g, p) /\ ReachesRight(h, p) /\ ~ ReachesLeft(h, p)
            \/ /\ GroupX(h) = GroupX(g) + 1
               /\ ReachesRight(g, p) /\ ~ ReachesLeft(g, p) /\ ReachesLeft(h, p) /\ ~ ReachesRight(h, p)
         /\ \/ GroupY(h) = GroupY(g) /\ (ReachesUp(h, p) <=> ReachesUp(g, p))
                                     /\ (ReachesDown(h, p) <=> ReachesDown(g, p))
            \/ /\ GroupY(h) = GroupY(g) - 1
               /\ ReachesUp(g, p) /\ ~ ReachesDown(g, p) /\ ReachesDown(h, p) /\ ~ ReachesUp(h, p)
            \/ /\ GroupY(h) = GroupY(g) + 1
               /\ ReachesDown(g, p) /\ ~ ReachesUp(g, p) /\ ReachesUp(h, p) /\ ~ ReachesDown(h, p)
<1>1. /\ GroupX(g) \in 0 .. xsize_groups - 1 /\ GroupY(g) \in 0 .. ysize_groups - 1
      /\ GroupX(h) \in 0 .. xsize_groups - 1 /\ GroupY(h) \in 0 .. ysize_groups - 1
  BY PlaceOfGroup DEF NearGroups
<1>2. /\ Reaches(GroupX(g), Padding[1], p[1]) /\ Reaches(GroupY(g), Padding[2], p[2])
      /\ Reaches(GroupX(h), Padding[1], p[1]) /\ Reaches(GroupY(h), Padding[2], p[2])
  BY DEF NearGroups
<1>3. xsize_groups \in Nat \ {0} /\ ysize_groups \in Nat \ {0}
  BY GroupsFacts
<1>4. GroupX(h) = GroupX(g) - 1 => ReachesRight(h, p)
  BY <1>1, <1>2, <1>3 DEF ReachesRight
<1>5. GroupX(h) = GroupX(g) + 1 => ReachesLeft(h, p)
  BY <1>1, <1>2, <1>3 DEF ReachesLeft, ReachesBack
<1>6. GroupY(h) = GroupY(g) - 1 => ReachesDown(h, p)
  BY <1>1, <1>2, <1>3 DEF ReachesDown
<1>7. GroupY(h) = GroupY(g) + 1 => ReachesUp(h, p)
  BY <1>1, <1>2, <1>3 DEF ReachesUp, ReachesBack
<1>8. GroupX(h) = GroupX(g) => (ReachesLeft(h, p) <=> ReachesLeft(g, p)) /\ (ReachesRight(h, p) <=> ReachesRight(g, p))
  BY DEF ReachesLeft, ReachesRight
<1>9. GroupY(h) = GroupY(g) => (ReachesUp(h, p) <=> ReachesUp(g, p)) /\ (ReachesDown(h, p) <=> ReachesDown(g, p))
  BY DEF ReachesUp, ReachesDown
<1> QED BY <1>4, <1>5, <1>6, <1>7, <1>8, <1>9, NearAre

\* They settle at one corner who draws it, each on a side of its own.
LEMMA VisitsMeet ==
  ASSUME frame \in Frames, NEW p \in Pixels, NEW g \in NearGroups(p), NEW h \in NearGroups(p)
  PROVE  /\ Visit(g, p) \in 1 .. 4 /\ Visit(h, p) \in 1 .. 4
         /\ CornerOf(g)[Visit(g, p)] = CornerOf(h)[Visit(h, p)]
         /\ g # h => Visit(g, p) # Visit(h, p)
<1>1. /\ GroupX(g) \in Int /\ GroupY(g) \in Int
      /\ GroupX(h) \in Int /\ GroupY(h) \in Int
      /\ (GroupX(g) = GroupX(h) /\ GroupY(g) = GroupY(h) => g = h)
  BY PlaceOfGroup, SamePlace, GroupsFacts DEF NearGroups
<1> DEFINE CX(x, r) == x + (IF r THEN 1 ELSE 0)
<1>2. Visit(g, p) = IF ReachesRight(g, p) THEN (IF ReachesDown(g, p) THEN 3 ELSE 2)
                    ELSE (IF ReachesDown(g, p) THEN 4 ELSE 1)
  BY DEF Visit
<1>3. Visit(h, p) = IF ReachesRight(h, p) THEN (IF ReachesDown(h, p) THEN 3 ELSE 2)
                    ELSE (IF ReachesDown(h, p) THEN 4 ELSE 1)
  BY DEF Visit
<1>4. CornerOf(g)[Visit(g, p)] = <<CX(GroupX(g), ReachesRight(g, p)), CX(GroupY(g), ReachesDown(g, p))>>
  BY <1>1, <1>2 DEF CornerOf
<1>5. CornerOf(h)[Visit(h, p)] = <<CX(GroupX(h), ReachesRight(h, p)), CX(GroupY(h), ReachesDown(h, p))>>
  BY <1>1, <1>3 DEF CornerOf
<1>6. /\ CX(GroupX(g), ReachesRight(g, p)) = CX(GroupX(h), ReachesRight(h, p))
      /\ CX(GroupY(g), ReachesDown(g, p)) = CX(GroupY(h), ReachesDown(h, p))
  BY <1>1, NearAgree
<1>7. g # h => ~ (ReachesRight(g, p) <=> ReachesRight(h, p)) \/ ~ (ReachesDown(g, p) <=> ReachesDown(h, p))
  BY <1>1, NearAgree
<1>8. CornerOf(g)[Visit(g, p)] = CornerOf(h)[Visit(h, p)]
  BY <1>4, <1>5, <1>6
<1>9. g # h => Visit(g, p) # Visit(h, p)
  BY <1>2, <1>3, <1>7
<1> QED BY <1>2, <1>3, <1>8, <1>9

\* The sides they are on.
LEMMA NearSidesAre ==
  ASSUME frame \in Frames, NEW p \in Pixels, NEW g \in NearGroups(p)
  PROVE  NearSides(p) = {"BottomRight"}
           \cup (IF ReachesLeft(g, p) \/ ReachesRight(g, p) THEN {"BottomLeft"} ELSE {})
           \cup (IF ReachesUp(g, p) \/ ReachesDown(g, p) THEN {"TopRight"} ELSE {})
           \cup (IF /\ ReachesLeft(g, p) \/ ReachesRight(g, p)
                    /\ ReachesUp(g, p) \/ ReachesDown(g, p) THEN {"TopLeft"} ELSE {})
<1> DEFINE across == ReachesLeft(g, p) \/ ReachesRight(g, p)
           down == ReachesUp(g, p) \/ ReachesDown(g, p)
<1>1. \A h \in NearGroups(p) : /\ ReachesRight(h, p) => across
                               /\ ReachesDown(h, p) => down
  BY NearAgree
<1>2. /\ GroupX(g) \in 0 .. xsize_groups - 1 /\ GroupY(g) \in 0 .. ysize_groups - 1
      /\ xsize_groups \in Nat /\ ysize_groups \in Nat
  BY PlaceOfGroup, GroupsFacts, NearAre
<1> DEFINE NearX(x) == \/ x = GroupX(g)
                       \/ x = GroupX(g) - 1 /\ ReachesLeft(g, p)
                       \/ x = GroupX(g) + 1 /\ ReachesRight(g, p)
           NearY(y) == \/ y = GroupY(g)
                       \/ y = GroupY(g) - 1 /\ ReachesUp(g, p)
                       \/ y = GroupY(g) + 1 /\ ReachesDown(g, p)
           First(x) == (x = GroupX(g) /\ ReachesRight(g, p)) \/ x = GroupX(g) - 1
           Upper(y) == (y = GroupY(g) /\ ReachesDown(g, p)) \/ y = GroupY(g) - 1
<1>3. /\ \E x \in 0 .. xsize_groups - 1 : NearX(x) /\ ~ First(x)
      /\ across => \E x \in 0 .. xsize_groups - 1 : NearX(x) /\ First(x)
  <2>1. ReachesLeft(g, p) => GroupX(g) - 1 \in 0 .. xsize_groups - 1
    BY <1>2 DEF ReachesLeft, ReachesBack
  <2>2. ReachesRight(g, p) => GroupX(g) + 1 \in 0 .. xsize_groups - 1
    BY <1>2 DEF ReachesRight
  <2>3. ReachesRight(g, p) => NearX(GroupX(g) + 1) /\ ~ First(GroupX(g) + 1)
    BY <1>2
  <2>4. ~ ReachesRight(g, p) => NearX(GroupX(g)) /\ ~ First(GroupX(g))
    BY <1>2
  <2>5. ReachesRight(g, p) => NearX(GroupX(g)) /\ First(GroupX(g))
    BY <1>2
  <2>6. ReachesLeft(g, p) => NearX(GroupX(g) - 1) /\ First(GroupX(g) - 1)
    BY <1>2
  <2> HIDE DEF NearX, First
  <2> QED BY <1>2, <2>1, <2>2, <2>3, <2>4, <2>5, <2>6
<1>4. /\ \E y \in 0 .. ysize_groups - 1 : NearY(y) /\ ~ Upper(y)
      /\ down => \E y \in 0 .. ysize_groups - 1 : NearY(y) /\ Upper(y)
  <2>1. ReachesUp(g, p) => GroupY(g) - 1 \in 0 .. ysize_groups - 1
    BY <1>2 DEF ReachesUp, ReachesBack
  <2>2. ReachesDown(g, p) => GroupY(g) + 1 \in 0 .. ysize_groups - 1
    BY <1>2 DEF ReachesDown
  <2>3. ReachesDown(g, p) => NearY(GroupY(g) + 1) /\ ~ Upper(GroupY(g) + 1)
    BY <1>2
  <2>4. ~ ReachesDown(g, p) => NearY(GroupY(g)) /\ ~ Upper(GroupY(g))
    BY <1>2
  <2>5. ReachesDown(g, p) => NearY(GroupY(g)) /\ Upper(GroupY(g))
    BY <1>2
  <2>6. ReachesUp(g, p) => NearY(GroupY(g) - 1) /\ Upper(GroupY(g) - 1)
    BY <1>2
  <2> HIDE DEF NearY, Upper
  <2> QED BY <1>2, <2>1, <2>2, <2>3, <2>4, <2>5, <2>6
<1>5. ASSUME NEW x \in 0 .. xsize_groups - 1, NEW y \in 0 .. ysize_groups - 1, NearX(x), NearY(y)
      PROVE  \E h \in NearGroups(p) : (ReachesRight(h, p) <=> First(x)) /\ (ReachesDown(h, p) <=> Upper(y))
  <2>1. PICK h \in Groups : GroupX(h) = x /\ GroupY(h) = y
    BY GroupAtPlace
  <2>2. h \in NearGroups(p)
    BY <1>5, <2>1, NearAre
  <2>3. ReachesRight(h, p) <=> First(x)
    BY <1>2, <1>5, <2>1, <2>2, NearAgree
  <2>4. ReachesDown(h, p) <=> Upper(y)
    BY <1>2, <1>5, <2>1, <2>2, NearAgree
  <2> QED BY <2>2, <2>3, <2>4
<1> DEFINE T == {"BottomRight"} \cup (IF across THEN {"BottomLeft"} ELSE {})
                \cup (IF down THEN {"TopRight"} ELSE {}) \cup (IF across /\ down THEN {"TopLeft"} ELSE {})
<1>6. \A h \in NearGroups(p) : SideOf[Visit(h, p)] \in T
  <2> SUFFICES ASSUME NEW h \in NearGroups(p) PROVE SideOf[Visit(h, p)] \in T
    OBVIOUS
  <2>1. CASE ReachesRight(h, p) /\ ReachesDown(h, p)
    BY <1>1, <2>1 DEF Visit, SideOf
  <2>2. CASE ReachesRight(h, p) /\ ~ ReachesDown(h, p)
    BY <1>1, <2>2 DEF Visit, SideOf
  <2>3. CASE ~ ReachesRight(h, p) /\ ReachesDown(h, p)
    BY <1>1, <2>3 DEF Visit, SideOf
  <2>4. CASE ~ ReachesRight(h, p) /\ ~ ReachesDown(h, p)
    BY <2>4 DEF Visit, SideOf
  <2> QED BY <2>1, <2>2, <2>3, <2>4
<1>7. /\ "BottomRight" \in NearSides(p)
      /\ across => "BottomLeft" \in NearSides(p)
      /\ down => "TopRight" \in NearSides(p)
      /\ across /\ down => "TopLeft" \in NearSides(p)
  <2> HIDE DEF NearX, NearY, First, Upper
  <2>1. \E h \in NearGroups(p) : ~ ReachesRight(h, p) /\ ~ ReachesDown(h, p)
    BY <1>3, <1>4, <1>5
  <2>2. across => \E h \in NearGroups(p) : ReachesRight(h, p) /\ ~ ReachesDown(h, p)
    BY <1>3, <1>4, <1>5
  <2>3. down => \E h \in NearGroups(p) : ~ ReachesRight(h, p) /\ ReachesDown(h, p)
    BY <1>3, <1>4, <1>5
  <2>4. across /\ down => \E h \in NearGroups(p) : ReachesRight(h, p) /\ ReachesDown(h, p)
    BY <1>3, <1>4, <1>5
  <2> QED BY <2>1, <2>2, <2>3, <2>4 DEF NearSides, Visit, SideOf
<1>8. NearSides(p) \subseteq T
  BY <1>6 DEF NearSides
<1>9. T \subseteq NearSides(p)
  BY <1>7
<1> QED BY <1>8, <1>9

\* A pixel of one of the nine parts of a group's area is settled by the part.
PartOf(g, p) ==
  << IF ReachesLeft(g, p) THEN 0 ELSE IF ReachesRight(g, p) THEN 2 ELSE 1,
     IF ReachesUp(g, p) THEN 0 ELSE IF ReachesDown(g, p) THEN 2 ELSE 1 >>

Statuses(status) ==
  /\ status \in [1 .. 4 -> SUBSET Sides]
  /\ \A k \in 1 .. 4 : SideOf[k] \in status[k]

\* It is among the parts of a group if that came last at the corner.
LEMMA PartIsDrawn ==
  ASSUME frame \in Frames, NEW p \in Pixels, NEW g \in NearGroups(p),
         NEW status, Statuses(status)
  PROVE  PartOf(g, p) \in Parts(status) <=> NearSides(p) \subseteq status[Visit(g, p)]
<1>1. /\ ~ (ReachesLeft(g, p) /\ ReachesRight(g, p))
      /\ ~ (ReachesUp(g, p) /\ ReachesDown(g, p))
  BY NearAre
<1>2. /\ status[1] \subseteq Sides /\ "BottomRight" \in status[1]
      /\ status[2] \subseteq Sides /\ "BottomLeft" \in status[2]
      /\ status[3] \subseteq Sides /\ "TopLeft" \in status[3]
      /\ status[4] \subseteq Sides /\ "TopRight" \in status[4]
  BY DEF Statuses, SideOf
<1> DEFINE T == {"BottomRight"}
           \cup (IF ReachesLeft(g, p) \/ ReachesRight(g, p) THEN {"BottomLeft"} ELSE {})
           \cup (IF ReachesUp(g, p) \/ ReachesDown(g, p) THEN {"TopRight"} ELSE {})
           \cup (IF /\ ReachesLeft(g, p) \/ ReachesRight(g, p)
                    /\ ReachesUp(g, p) \/ ReachesDown(g, p) THEN {"TopLeft"} ELSE {})
<1>3. NearSides(p) = T
  BY NearSidesAre
<1>4. CASE ReachesLeft(g, p) /\ ReachesUp(g, p)
  BY <1>1, <1>2, <1>3, <1>4 DEF PartOf, Visit, Parts, Full, Sides
<1>5. CASE ReachesLeft(g, p) /\ ReachesDown(g, p)
  BY <1>1, <1>2, <1>3, <1>5 DEF PartOf, Visit, Parts, Full, Sides
<1>6. CASE ReachesLeft(g, p) /\ ~ ReachesUp(g, p) /\ ~ ReachesDown(g, p)
  BY <1>1, <1>2, <1>3, <1>6 DEF PartOf, Visit, Parts, Full, Sides
<1>7. CASE ReachesRight(g, p) /\ ReachesUp(g, p)
  BY <1>1, <1>2, <1>3, <1>7 DEF PartOf, Visit, Parts, Full, Sides
<1>8. CASE ReachesRight(g, p) /\ ReachesDown(g, p)
  BY <1>1, <1>2, <1>3, <1>8 DEF PartOf, Visit, Parts, Full, Sides
<1>9. CASE ReachesRight(g, p) /\ ~ ReachesUp(g, p) /\ ~ ReachesDown(g, p)
  BY <1>1, <1>2, <1>3, <1>9 DEF PartOf, Visit, Parts, Full, Sides
<1>10. CASE ~ ReachesLeft(g, p) /\ ~ ReachesRight(g, p) /\ ReachesUp(g, p)
  BY <1>1, <1>2, <1>3, <1>10 DEF PartOf, Visit, Parts, Full, Sides
<1>11. CASE ~ ReachesLeft(g, p) /\ ~ ReachesRight(g, p) /\ ReachesDown(g, p)
  BY <1>1, <1>2, <1>3, <1>11 DEF PartOf, Visit, Parts, Full, Sides
<1>12. CASE ~ ReachesLeft(g, p) /\ ~ ReachesRight(g, p) /\ ~ ReachesUp(g, p) /\ ~ ReachesDown(g, p)
  BY <1>1, <1>2, <1>3, <1>12 DEF PartOf, Visit, Parts, Full, Sides
<1> QED BY <1>1, <1>4, <1>5, <1>6, <1>7, <1>8, <1>9, <1>10, <1>11, <1>12

-----------------------------------------------------------------------------
(* The rectangles of GroupDone.                                            *)

XCuts(g) == Cuts(GroupX(g), xsize_groups, frame.xsize, Padding[1])
YCuts(g) == Cuts(GroupY(g), ysize_groups, frame.ysize, Padding[2])
InColumn(g, a, p) == XCuts(g)[a + 1] <= p[1] /\ p[1] < XCuts(g)[a + 2]
InRow(g, b, p) == YCuts(g)[b + 1] <= p[2] /\ p[2] < YCuts(g)[b + 2]

LEMMA CutsType ==
  ASSUME frame \in Frames, NEW g \in Groups
  PROVE  /\ \A a \in 1 .. 4 : XCuts(g)[a] \in Int /\ YCuts(g)[a] \in Int
         /\ 0 <= XCuts(g)[1] /\ XCuts(g)[1] <= XCuts(g)[2] /\ XCuts(g)[2] <= XCuts(g)[3]
         /\ XCuts(g)[3] <= XCuts(g)[4] /\ XCuts(g)[4] <= frame.xsize
         /\ 0 <= YCuts(g)[1] /\ YCuts(g)[1] <= YCuts(g)[2] /\ YCuts(g)[2] <= YCuts(g)[3]
         /\ YCuts(g)[3] <= YCuts(g)[4] /\ YCuts(g)[4] <= frame.ysize
<1>1. /\ frame.xsize \in Nat \ {0} /\ Padding[1] \in Nat /\ 2 * Padding[1] <= GroupDim
      /\ GroupX(g) \in 0 .. xsize_groups - 1
  BY PlaceOfGroup, FrameType, GeometryAssumption
<1>2. /\ frame.ysize \in Nat \ {0} /\ Padding[2] \in Nat /\ 2 * Padding[2] <= GroupDim
      /\ GroupY(g) \in 0 .. ysize_groups - 1
  BY PlaceOfGroup, FrameType, GeometryAssumption
<1>3. LET c == XCuts(g)
      IN  /\ c[1] \in Int /\ c[2] \in Int /\ c[3] \in Int /\ c[4] \in Int
          /\ 0 <= c[1] /\ c[1] <= c[2] /\ c[2] <= c[3] /\ c[3] <= c[4] /\ c[4] <= frame.xsize
  BY ONLY <1>1, AxisCuts DEF XCuts, xsize_groups
<1>4. LET c == YCuts(g)
      IN  /\ c[1] \in Int /\ c[2] \in Int /\ c[3] \in Int /\ c[4] \in Int
          /\ 0 <= c[1] /\ c[1] <= c[2] /\ c[2] <= c[3] /\ c[3] <= c[4] /\ c[4] <= frame.ysize
  BY ONLY <1>2, AxisCuts DEF YCuts, ysize_groups
<1>5. \A a \in 1 .. 4 : a = 1 \/ a = 2 \/ a = 3 \/ a = 4
  OBVIOUS
<1> QED BY <1>3, <1>4, <1>5

\* The nine parts are told apart by which neighbours the pixel depends on.
LEMMA PartOfPixel ==
  ASSUME frame \in Frames, NEW p \in Pixels, NEW g \in Groups,
         NEW a \in 0 .. 2, NEW b \in 0 .. 2
  PROVE  InColumn(g, a, p) /\ InRow(g, b, p) <=> g \in NearGroups(p) /\ PartOf(g, p) = <<a, b>>
<1>1. /\ frame.xsize \in Nat \ {0} /\ Padding[1] \in Nat /\ 2 * Padding[1] <= GroupDim
      /\ GroupX(g) \in 0 .. xsize_groups - 1
      /\ p[1] \in 0 .. frame.xsize - 1
  BY PlaceOfGroup, FrameType, GeometryAssumption, PixelType
<1>2. /\ frame.ysize \in Nat \ {0} /\ Padding[2] \in Nat /\ 2 * Padding[2] <= GroupDim
      /\ GroupY(g) \in 0 .. ysize_groups - 1
      /\ p[2] \in 0 .. frame.ysize - 1
  BY PlaceOfGroup, FrameType, GeometryAssumption, PixelType
<1> DEFINE x == GroupX(g)  y == GroupY(g)
<1>3. \A at \in 0 .. frame.xsize - 1 :
        LET c == XCuts(g)
        IN  /\ c[1] <= at /\ at < c[2] <=> Reaches(x, Padding[1], at) /\ ReachesBack(x, Padding[1], at)
            /\ c[3] <= at /\ at < c[4] <=> Reaches(x, Padding[1], at) /\ ReachesOn(x, xsize_groups, Padding[1], at)
            /\ c[2] <= at /\ at < c[3] <=>
                 /\ Reaches(x, Padding[1], at)
                 /\ ~ ReachesBack(x, Padding[1], at) /\ ~ ReachesOn(x, xsize_groups, Padding[1], at)
  BY ONLY <1>1, AxisCuts DEF XCuts, xsize_groups
<1>4. \A at \in 0 .. frame.ysize - 1 :
        LET c == YCuts(g)
        IN  /\ c[1] <= at /\ at < c[2] <=> Reaches(y, Padding[2], at) /\ ReachesBack(y, Padding[2], at)
            /\ c[3] <= at /\ at < c[4] <=> Reaches(y, Padding[2], at) /\ ReachesOn(y, ysize_groups, Padding[2], at)
            /\ c[2] <= at /\ at < c[3] <=>
                 /\ Reaches(y, Padding[2], at)
                 /\ ~ ReachesBack(y, Padding[2], at) /\ ~ ReachesOn(y, ysize_groups, Padding[2], at)
  BY ONLY <1>2, AxisCuts DEF YCuts, ysize_groups
<1>5. /\ ReachesRight(g, p) <=> ReachesOn(x, xsize_groups, Padding[1], p[1])
      /\ ReachesDown(g, p) <=> ReachesOn(y, ysize_groups, Padding[2], p[2])
  BY DEF ReachesRight, ReachesDown, ReachesOn
<1>6. g \in NearGroups(p) => ~ (ReachesLeft(g, p) /\ ReachesRight(g, p)) /\ ~ (ReachesUp(g, p) /\ ReachesDown(g, p))
  BY NearAre
<1>7. g \in NearGroups(p) <=> Reaches(x, Padding[1], p[1]) /\ Reaches(y, Padding[2], p[2])
  BY DEF NearGroups
<1>8. InColumn(g, a, p) <=>
        /\ Reaches(x, Padding[1], p[1])
        /\ a = 0 => ReachesLeft(g, p)
        /\ a = 1 => ~ ReachesLeft(g, p) /\ ~ ReachesRight(g, p)
        /\ a = 2 => ReachesRight(g, p)
  BY <1>1, <1>3, <1>5 DEF InColumn, ReachesLeft
<1>9. InRow(g, b, p) <=>
        /\ Reaches(y, Padding[2], p[2])
        /\ b = 0 => ReachesUp(g, p)
        /\ b = 1 => ~ ReachesUp(g, p) /\ ~ ReachesDown(g, p)
        /\ b = 2 => ReachesDown(g, p)
  BY <1>2, <1>4, <1>5 DEF InRow, ReachesUp
<1>10. PartOf(g, p) = <<a, b>> <=>
         /\ a = IF ReachesLeft(g, p) THEN 0 ELSE IF ReachesRight(g, p) THEN 2 ELSE 1
         /\ b = IF ReachesUp(g, p) THEN 0 ELSE IF ReachesDown(g, p) THEN 2 ELSE 1
  BY DEF PartOf
<1> QED BY <1>6, <1>7, <1>8, <1>9, <1>10

LEMMA PartsFacts ==
  ASSUME NEW status, Statuses(status)
  PROVE  /\ Parts(status) \subseteq (0 .. 2) \X (0 .. 2)
         /\ <<1, 1>> \in Parts(status)
         /\ \A b \in 0 .. 2 : <<0, b>> \in Parts(status) /\ <<2, b>> \in Parts(status) =>
              <<1, b>> \in Parts(status)
<1>1. Parts(status) \subseteq (0 .. 2) \X (0 .. 2)
  BY DEF Parts
<1>2. <<1, 1>> \in Parts(status)
  BY DEF Parts
<1>3. <<0, 0>> \in Parts(status) => <<1, 0>> \in Parts(status)
  BY DEF Parts, Full, Sides
<1>4. <<0, 2>> \in Parts(status) => <<1, 2>> \in Parts(status)
  BY DEF Parts, Full, Sides
<1> QED BY <1>1, <1>2, <1>3, <1>4

\* The parts of a row are a segment.
LEMMA SegmentIs ==
  ASSUME NEW parts \in SUBSET ((0 .. 2) \X (0 .. 2)), NEW b \in 0 .. 2,
         <<0, b>> \in parts /\ <<2, b>> \in parts => <<1, b>> \in parts
  PROVE  \/ /\ Segment(parts, b) = <<3, 3>>
            /\ \A a \in 0 .. 2 : <<a, b>> \notin parts
         \/ \E lo, hi \in 0 .. 2 :
              /\ lo <= hi
              /\ Segment(parts, b) = <<lo, hi + 1>>
              /\ \A a \in 0 .. 2 : <<a, b>> \in parts <=> lo <= a /\ a <= hi
<1> DEFINE px == {q[1] : q \in {p \in parts : p[2] = b}}
           lo == CHOOSE a \in px : \A c \in px : a <= c
           hi == CHOOSE a \in px : \A c \in px : a >= c
<1>1. \A a \in 0 .. 2 : a \in px <=> <<a, b>> \in parts
  OBVIOUS
<1>2. px \subseteq 0 .. 2
  OBVIOUS
<1>3. Segment(parts, b) = IF px = {} THEN <<3, 3>> ELSE <<lo, 1 + hi>>
  BY DEF Segment
<1> HIDE DEF px
<1>4. CASE px = {}
  BY <1>1, <1>3, <1>4
<1>5. CASE px # {}
  <2>1. 0 \in px \/ 1 \in px \/ 2 \in px
    <3>1. PICK a \in px : TRUE
      BY <1>5
    <3>2. a = 0 \/ a = 1 \/ a = 2
      BY <1>2
    <3> QED BY <3>1, <3>2
  <2>2. \E a \in px : \A c \in px : a <= c
    BY <1>2, <2>1
  <2>3. \E a \in px : \A c \in px : a >= c
    BY <1>2, <2>1
  <2>4. lo \in px /\ \A c \in px : lo <= c
    BY <2>2
  <2>5. hi \in px /\ \A c \in px : hi >= c
    BY <2>3
  <2> HIDE DEF lo, hi
  <2>6. lo \in 0 .. 2 /\ hi \in 0 .. 2 /\ lo <= hi /\ 1 + hi = hi + 1
    BY <1>2, <2>4, <2>5
  <2>7. \A a \in 0 .. 2 : a \in px <=> lo <= a /\ a <= hi
    <3>1. ASSUME NEW a \in 0 .. 2, lo <= a, a <= hi PROVE a \in px
      <4>1. 0 \in px /\ 2 \in px => 1 \in px
        BY <1>1
      <4> QED BY <2>4, <2>5, <2>6, <3>1, <4>1
    <3> QED BY <2>4, <2>5, <3>1
  <2> QED BY <1>1, <1>3, <1>5, <2>6, <2>7
<1> QED BY <1>4, <1>5

\* A rectangle over a segment and some rows covers the parts in them.
LEMMA RectIs ==
  ASSUME frame \in Frames, NEW g \in Groups,
         NEW parts \in SUBSET ((0 .. 2) \X (0 .. 2)), NEW b \in 0 .. 2,
         <<0, b>> \in parts /\ <<2, b>> \in parts => <<1, b>> \in parts,
         NEW from \in 0 .. 2, NEW to \in 1 .. 3, from < to
  PROVE  LET r == Rect(g, Segment(parts, b), from, to)
         IN  /\ r \in Rects
             /\ Area(r) \subseteq Pixels
             /\ \A p \in Pixels : p \in Area(r) <=>
                  /\ \E a \in 0 .. 2 : <<a, b>> \in parts /\ InColumn(g, a, p)
                  /\ \E c \in 0 .. 2 : from <= c /\ c < to /\ InRow(g, c, p)
<1> DEFINE seg == Segment(parts, b)
           r == Rect(g, seg, from, to)
           X == XCuts(g)
           Y == YCuts(g)
<1>1. /\ frame.xsize \in Nat /\ frame.ysize \in Nat
      /\ X[1] \in Int /\ X[2] \in Int /\ X[3] \in Int /\ X[4] \in Int
      /\ 0 <= X[1] /\ X[1] <= X[2] /\ X[2] <= X[3] /\ X[3] <= X[4] /\ X[4] <= frame.xsize
      /\ Y[1] \in Int /\ Y[2] \in Int /\ Y[3] \in Int /\ Y[4] \in Int
      /\ 0 <= Y[1] /\ Y[1] <= Y[2] /\ Y[2] <= Y[3] /\ Y[3] <= Y[4] /\ Y[4] <= frame.ysize
  BY CutsType, FrameType
<1>2. r = IF seg = <<3, 3>> THEN [x0 |-> 0, x1 |-> 0, y0 |-> 0, y1 |-> 0]
          ELSE [x0 |-> X[seg[1] + 1], x1 |-> X[seg[2] + 1], y0 |-> Y[from + 1], y1 |-> Y[to + 1]]
  BY DEF Rect, XCuts, YCuts
<1>3. \A p \in Pixels : p[1] \in Int /\ p[2] \in Int /\ p = <<p[1], p[2]>>
  BY PixelType, <1>1
<1> HIDE DEF seg, r, X, Y
<1>4. CASE seg = <<3, 3>> /\ \A a \in 0 .. 2 : <<a, b>> \notin parts
  <2>1. r = [x0 |-> 0, x1 |-> 0, y0 |-> 0, y1 |-> 0]
    BY <1>2, <1>4
  <2>2. r \in Rects /\ Area(r) = {}
    BY <2>1 DEF Rects, Area
  <2> QED BY <1>4, <2>2 DEF r, seg
<1>5. ASSUME NEW lo \in 0 .. 2, NEW hi \in 0 .. 2, lo <= hi, seg = <<lo, hi + 1>>,
             \A a \in 0 .. 2 : <<a, b>> \in parts <=> lo <= a /\ a <= hi
      PROVE  /\ r \in Rects
             /\ Area(r) \subseteq Pixels
             /\ \A p \in Pixels : p \in Area(r) <=>
                  /\ \E a \in 0 .. 2 : <<a, b>> \in parts /\ InColumn(g, a, p)
                  /\ \E c \in 0 .. 2 : from <= c /\ c < to /\ InRow(g, c, p)
  <2>1. r = [x0 |-> X[lo + 1], x1 |-> X[hi + 2], y0 |-> Y[from + 1], y1 |-> Y[to + 1]]
    BY <1>2, <1>5
  <2>2. /\ X[lo + 1] \in Int /\ X[hi + 2] \in Int /\ 0 <= X[lo + 1] /\ X[hi + 2] <= frame.xsize
        /\ Y[from + 1] \in Int /\ Y[to + 1] \in Int /\ 0 <= Y[from + 1] /\ Y[to + 1] <= frame.ysize
    <3>1. (lo = 0 \/ lo = 1 \/ lo = 2) /\ (hi = 0 \/ hi = 1 \/ hi = 2)
      OBVIOUS
    <3>2. (from = 0 \/ from = 1 \/ from = 2) /\ (to = 1 \/ to = 2 \/ to = 3)
      OBVIOUS
    <3> QED BY <1>1, <3>1, <3>2
  <2>3. r \in Rects
    BY <2>1, <2>2 DEF Rects
  <2>4. Area(r) = (X[lo + 1] .. X[hi + 2] - 1) \X (Y[from + 1] .. Y[to + 1] - 1)
    BY <2>1 DEF Area
  <2>5. Area(r) \subseteq Pixels
    BY <1>1, <2>2, <2>4 DEF Pixels
  <2>6. ASSUME NEW p \in Pixels
        PROVE  p \in Area(r) <=>
                 /\ \E a \in 0 .. 2 : <<a, b>> \in parts /\ InColumn(g, a, p)
                 /\ \E c \in 0 .. 2 : from <= c /\ c < to /\ InRow(g, c, p)
    <3>1. p \in Area(r) <=> /\ X[lo + 1] <= p[1] /\ p[1] < X[hi + 2]
                            /\ Y[from + 1] <= p[2] /\ p[2] < Y[to + 1]
      BY <1>3, <2>2, <2>4
    <3>2. (\E a \in 0 .. 2 : <<a, b>> \in parts /\ InColumn(g, a, p)) <=>
            \E a \in 0 .. 2 : lo <= a /\ a <= hi /\ X[a + 1] <= p[1] /\ p[1] < X[a + 2]
      BY <1>5 DEF InColumn, X
    <3>3. (\E a \in 0 .. 2 : lo <= a /\ a <= hi /\ X[a + 1] <= p[1] /\ p[1] < X[a + 2])
            <=> X[lo + 1] <= p[1] /\ p[1] < X[hi + 2]
      <4>1. (\E a \in 0 .. 2 : lo <= a /\ a <= hi /\ X[a + 1] <= p[1] /\ p[1] < X[a + 2]) <=>
              \/ lo <= 0 /\ 0 <= hi /\ X[1] <= p[1] /\ p[1] < X[2]
              \/ lo <= 1 /\ 1 <= hi /\ X[2] <= p[1] /\ p[1] < X[3]
              \/ lo <= 2 /\ 2 <= hi /\ X[3] <= p[1] /\ p[1] < X[4]
        <5>1. 0 .. 2 = {0, 1, 2}
          OBVIOUS
        <5> QED BY <5>1
      <4>2. (lo = 0 \/ lo = 1 \/ lo = 2) /\ (hi = 0 \/ hi = 1 \/ hi = 2)
        OBVIOUS
      <4> QED BY <1>1, <1>3, <1>5, <4>1, <4>2
    <3>4. (\E c \in 0 .. 2 : from <= c /\ c < to /\ InRow(g, c, p)) <=>
            \/ from <= 0 /\ 0 < to /\ Y[1] <= p[2] /\ p[2] < Y[2]
            \/ from <= 1 /\ 1 < to /\ Y[2] <= p[2] /\ p[2] < Y[3]
            \/ from <= 2 /\ 2 < to /\ Y[3] <= p[2] /\ p[2] < Y[4]
      <4>1. 0 .. 2 = {0, 1, 2}
        OBVIOUS
      <4> QED BY <4>1 DEF InRow, Y
    <3>5. (\E c \in 0 .. 2 : from <= c /\ c < to /\ InRow(g, c, p))
            <=> Y[from + 1] <= p[2] /\ p[2] < Y[to + 1]
      <4>1. (from = 0 \/ from = 1 \/ from = 2) /\ (to = 1 \/ to = 2 \/ to = 3)
        OBVIOUS
      <4> QED BY <1>1, <1>3, <3>4, <4>1
    <3> QED BY <3>1, <3>2, <3>3, <3>5
  <2> QED BY <2>3, <2>5, <2>6
<1>6. \/ seg = <<3, 3>> /\ \A a \in 0 .. 2 : <<a, b>> \notin parts
      \/ \E lo, hi \in 0 .. 2 :
           /\ lo <= hi /\ seg = <<lo, hi + 1>>
           /\ \A a \in 0 .. 2 : <<a, b>> \in parts <=> lo <= a /\ a <= hi
  BY SegmentIs DEF seg
<1> QED BY <1>4, <1>5, <1>6 DEF r, seg

\* Rows of the same segment have the same parts.
LEMMA SameSegment ==
  ASSUME NEW parts \in SUBSET ((0 .. 2) \X (0 .. 2)), NEW b \in 0 .. 2, NEW c \in 0 .. 2,
         <<0, b>> \in parts /\ <<2, b>> \in parts => <<1, b>> \in parts,
         <<0, c>> \in parts /\ <<2, c>> \in parts => <<1, c>> \in parts,
         Segment(parts, b) = Segment(parts, c)
  PROVE  \A a \in 0 .. 2 : <<a, b>> \in parts <=> <<a, c>> \in parts
<1>1. \/ /\ Segment(parts, b) = <<3, 3>>
         /\ \A a \in 0 .. 2 : <<a, b>> \notin parts
      \/ \E lo, hi \in 0 .. 2 : /\ lo <= hi
                                /\ Segment(parts, b) = <<lo, hi + 1>>
                                /\ \A a \in 0 .. 2 : <<a, b>> \in parts <=> lo <= a /\ a <= hi
  BY SegmentIs
<1>2. \/ /\ Segment(parts, c) = <<3, 3>>
         /\ \A a \in 0 .. 2 : <<a, c>> \notin parts
      \/ \E lo, hi \in 0 .. 2 : /\ lo <= hi
                                /\ Segment(parts, c) = <<lo, hi + 1>>
                                /\ \A a \in 0 .. 2 : <<a, c>> \in parts <=> lo <= a /\ a <= hi
  BY SegmentIs
<1>3. \A lo, hi, i, j \in 0 .. 2 : <<lo, hi + 1>> # <<3, 3>> /\
        (<<lo, hi + 1>> = <<i, j + 1>> => lo = i /\ hi = j)
  OBVIOUS
<1> QED BY <1>1, <1>2, <1>3

\* append_rect.
LEMMA AppendRectIs ==
  ASSUME NEW rects \in Seq(Rects), NEW r \in Rects
  PROVE  LET new == AppendRect(rects, r)
         IN  /\ new \in Seq(Rects)
             /\ Len(new) <= Len(rects) + 1
             /\ Covered(new) = Covered(rects) \cup Area(r)
             /\ Separate(rects) /\ Covered(rects) \cap Area(r) = {} => Separate(new)
<1> DEFINE new == AppendRect(rects, r)
<1>1. CASE Area(r) = {}
  BY <1>1 DEF AppendRect
<1>2. CASE Area(r) # {}
  <2>1. new = Append(rects, r)
    BY <1>2 DEF AppendRect
  <2> HIDE DEF new
  <2>2. /\ new \in Seq(Rects) /\ Len(rects) \in Nat /\ Len(new) = Len(rects) + 1
        /\ \A k \in 1 .. Len(rects) : new[k] = rects[k]
        /\ new[Len(rects) + 1] = r
    BY <2>1
  <2>3. \A k \in 1 .. Len(new) : k \in 1 .. Len(rects) \/ k = Len(rects) + 1
    BY <2>2
  <2>4. Covered(new) = Covered(rects) \cup Area(r)
    <3>1. \A p : p \in Covered(new) <=> \E k \in 1 .. Len(new) : p \in Area(new[k])
      BY DEF Covered
    <3>2. \A p : p \in Covered(rects) <=> \E k \in 1 .. Len(rects) : p \in Area(rects[k])
      BY DEF Covered
    <3>3. \A k \in 1 .. Len(rects) : k \in 1 .. Len(new)
      BY <2>2
    <3>4. Len(rects) + 1 \in 1 .. Len(new)
      BY <2>2
    <3> QED BY <2>2, <2>3, <3>1, <3>2, <3>3, <3>4
  <2>5. ASSUME Separate(rects), Covered(rects) \cap Area(r) = {}
        PROVE  Separate(new)
    <3>1. \A k \in 1 .. Len(rects) : Area(rects[k]) \cap Area(r) = {}
      BY <2>5 DEF Covered
    <3> QED BY ZenonT(30), <2>2, <2>3, <2>5, <3>1 DEF Separate
  <2> QED BY <2>2, <2>4, <2>5 DEF new
<1> QED BY <1>1, <1>2

\* What GroupDone has a group draw is what it came last for, each pixel once.
LEMMA RectsToFinalizeAre ==
  ASSUME frame \in Frames, NEW g \in Groups, NEW status, Statuses(status)
  PROVE  LET rects == RectsToFinalize(g, status)
         IN  /\ rects \in Seq(Rects)
             /\ Len(rects) <= 3
             /\ Covered(rects) = {p \in Pixels : Draws(g, status, p)}
             /\ Separate(rects)
<1> DEFINE P == Parts(status)
           D == {p \in Pixels : Draws(g, status, p)}
           Row(c) == {p \in Pixels : InRow(g, c, p) /\ \E a \in 0 .. 2 : <<a, c>> \in P /\ InColumn(g, a, p)}
           s == [py \in 0 .. 2 |-> Segment(P, py)]
           R(py, to) == Rect(g, s[py], py, to)
<1>1. /\ P \in SUBSET ((0 .. 2) \X (0 .. 2))
      /\ \A b \in 0 .. 2 : <<0, b>> \in P /\ <<2, b>> \in P => <<1, b>> \in P
  BY PartsFacts
<1>2. D = Row(0) \cup Row(1) \cup Row(2)
  <2>1. ASSUME NEW p \in Pixels
        PROVE  p \in D <=> \E a, c \in 0 .. 2 : <<a, c>> \in P /\ InColumn(g, a, p) /\ InRow(g, c, p)
    <3>1. ASSUME NEW a \in 0 .. 2, NEW c \in 0 .. 2, <<a, c>> \in P, InColumn(g, a, p), InRow(g, c, p)
          PROVE  p \in D
      <4>1. g \in NearGroups(p) /\ PartOf(g, p) = <<a, c>>
        BY <3>1, PartOfPixel
      <4> QED BY <3>1, <4>1, PartIsDrawn DEF Draws
    <3>2. ASSUME p \in D
          PROVE  \E a, c \in 0 .. 2 : <<a, c>> \in P /\ InColumn(g, a, p) /\ InRow(g, c, p)
      <4>1. g \in NearGroups(p) /\ PartOf(g, p) \in P
        BY <3>2, PartIsDrawn DEF Draws
      <4>2. PICK a \in 0 .. 2, c \in 0 .. 2 : PartOf(g, p) = <<a, c>>
        BY DEF PartOf
      <4> QED BY <4>1, <4>2, PartOfPixel
    <3> QED BY <3>1, <3>2
  <2>2. \A c \in 0 .. 2 : c = 0 \/ c = 1 \/ c = 2
    OBVIOUS
  <2>3. D \subseteq Pixels /\ \A c : Row(c) \subseteq Pixels
    OBVIOUS
  <2>4. ASSUME NEW p \in Pixels
        PROVE  p \in D <=> p \in Row(0) \/ p \in Row(1) \/ p \in Row(2)
    <3> HIDE DEF D
    <3> QED BY <2>1, <2>2
  <2> QED BY <2>3, <2>4
<1>3. Row(0) \cap Row(1) = {} /\ Row(0) \cap Row(2) = {} /\ Row(1) \cap Row(2) = {}
  <2>1. \A p \in Pixels : p[2] \in Int
    BY PixelType, FrameType
  <2>2. \A p \in Pixels : /\ ~ (InRow(g, 0, p) /\ InRow(g, 1, p))
                          /\ ~ (InRow(g, 0, p) /\ InRow(g, 2, p))
                          /\ ~ (InRow(g, 1, p) /\ InRow(g, 2, p))
    BY <2>1, CutsType DEF InRow
  <2> QED BY <2>2
<1>4. ASSUME NEW b \in 0 .. 2, NEW to \in 1 .. 3, b < to
      PROVE  /\ R(b, to) \in Rects
             /\ Area(R(b, to)) = {p \in Pixels : /\ \E a \in 0 .. 2 : <<a, b>> \in P /\ InColumn(g, a, p)
                                                 /\ \E c \in 0 .. 2 : b <= c /\ c < to /\ InRow(g, c, p)}
  <2>1. R(b, to) = Rect(g, Segment(P, b), b, to)
    OBVIOUS
  <2> HIDE DEF P, R
  <2>2. /\ R(b, to) \in Rects
        /\ Area(R(b, to)) \subseteq Pixels
        /\ \A p \in Pixels : p \in Area(R(b, to)) <=>
             /\ \E a \in 0 .. 2 : <<a, b>> \in P /\ InColumn(g, a, p)
             /\ \E c \in 0 .. 2 : b <= c /\ c < to /\ InRow(g, c, p)
    BY <1>1, <1>4, <2>1, RectIs
  <2> QED BY <2>2
<1>5. ASSUME NEW b \in 0 .. 2, NEW c \in 0 .. 2, s[b] = s[c]
      PROVE  \A a \in 0 .. 2 : <<a, b>> \in P <=> <<a, c>> \in P
  <2>1. Segment(P, b) = Segment(P, c)
    BY <1>5
  <2> HIDE DEF P
  <2> QED BY <1>1, <2>1, SameSegment
<1> HIDE DEF P, D, s
<1>6. /\ Area(R(0, 1)) = Row(0) /\ Area(R(1, 2)) = Row(1) /\ Area(R(2, 3)) = Row(2)
      /\ R(0, 1) \in Rects /\ R(1, 2) \in Rects /\ R(2, 3) \in Rects
      /\ R(0, 2) \in Rects /\ R(1, 3) \in Rects /\ R(0, 3) \in Rects
  <2>1. \A c \in 0 .. 2 : (0 <= c /\ c < 1 <=> c = 0) /\ (1 <= c /\ c < 2 <=> c = 1) /\ (2 <= c /\ c < 3 <=> c = 2)
    OBVIOUS
  <2> HIDE DEF R
  <2> QED BY <1>4, <2>1
<1>s. /\ s[0] = s[1] => \A a \in 0 .. 2 : <<a, 0>> \in P <=> <<a, 1>> \in P
      /\ s[1] = s[2] => \A a \in 0 .. 2 : <<a, 1>> \in P <=> <<a, 2>> \in P
  BY <1>5
<1>7. s[0] = s[1] => Area(R(0, 2)) = Row(0) \cup Row(1)
  <2> SUFFICES ASSUME s[0] = s[1] PROVE Area(R(0, 2)) = Row(0) \cup Row(1)
    OBVIOUS
  <2>1. \A c \in 0 .. 2 : (0 <= c /\ c < 2 <=> c = 0 \/ c = 1)
    OBVIOUS
  <2>2. \A a \in 0 .. 2 : <<a, 0>> \in P <=> <<a, 1>> \in P
    BY <1>s
  <2> HIDE DEF R
  <2> QED BY <1>4, <2>1, <2>2
<1>8. s[1] = s[2] => Area(R(1, 3)) = Row(1) \cup Row(2)
  <2> SUFFICES ASSUME s[1] = s[2] PROVE Area(R(1, 3)) = Row(1) \cup Row(2)
    OBVIOUS
  <2>1. \A c \in 0 .. 2 : (1 <= c /\ c < 3 <=> c = 1 \/ c = 2)
    OBVIOUS
  <2>2. \A a \in 0 .. 2 : <<a, 1>> \in P <=> <<a, 2>> \in P
    BY <1>s
  <2> HIDE DEF R
  <2> QED BY <1>4, <2>1, <2>2
<1>9. s[0] = s[1] /\ s[0] = s[2] => Area(R(0, 3)) = Row(0) \cup Row(1) \cup Row(2)
  <2> SUFFICES ASSUME s[0] = s[1], s[0] = s[2] PROVE Area(R(0, 3)) = Row(0) \cup Row(1) \cup Row(2)
    OBVIOUS
  <2>1. \A c \in 0 .. 2 : (0 <= c /\ c < 3) /\ (c = 0 \/ c = 1 \/ c = 2)
    OBVIOUS
  <2>2. /\ \A a \in 0 .. 2 : <<a, 0>> \in P <=> <<a, 1>> \in P
        /\ \A a \in 0 .. 2 : <<a, 1>> \in P <=> <<a, 2>> \in P
    BY <1>s
  <2> HIDE DEF R
  <2> QED BY <1>4, <2>1, <2>2
<1> DEFINE none == << >>
<1>10. /\ none \in Seq(Rects) /\ Len(none) = 0 /\ Covered(none) = {} /\ Separate(none)
  BY DEF Covered, Separate
<1>11. RectsToFinalize(g, status) =
         IF s[0] = s[1] /\ s[0] = s[2] THEN AppendRect(none, R(0, 3))
         ELSE IF s[0] = s[1] THEN AppendRect(AppendRect(none, R(0, 2)), R(2, 3))
         ELSE IF s[1] = s[2] THEN AppendRect(AppendRect(none, R(0, 1)), R(1, 3))
         ELSE AppendRect(AppendRect(AppendRect(none, R(0, 1)), R(1, 2)), R(2, 3))
  BY DEF RectsToFinalize, s, P
<1> HIDE DEF none, Row, R
<1>12. ASSUME NEW r \in Rects
       PROVE  LET one == AppendRect(none, r)
              IN  one \in Seq(Rects) /\ Len(one) <= 1 /\ Covered(one) = Area(r) /\ Separate(one)
  <2>1. LET one == AppendRect(none, r)
        IN  /\ one \in Seq(Rects)
            /\ Len(one) <= Len(none) + 1
            /\ Covered(one) = Covered(none) \cup Area(r)
            /\ Separate(none) /\ Covered(none) \cap Area(r) = {} => Separate(one)
    BY <1>10, AppendRectIs
  <2>2. Covered(none) \cap Area(r) = {} /\ Covered(none) \cup Area(r) = Area(r)
    BY <1>10
  <2> QED BY <1>10, <2>1, <2>2
<1>13. ASSUME NEW r \in Rects, NEW q \in Rects, Area(r) \cap Area(q) = {}
       PROVE  LET two == AppendRect(AppendRect(none, r), q)
              IN  two \in Seq(Rects) /\ Len(two) <= 2 /\ Covered(two) = Area(r) \cup Area(q) /\ Separate(two)
  <2> DEFINE one == AppendRect(none, r)
  <2>1. one \in Seq(Rects) /\ Len(one) \in Nat /\ Len(one) <= 1 /\ Covered(one) = Area(r) /\ Separate(one)
    BY <1>12
  <2> HIDE DEF one
  <2>2. LET two == AppendRect(one, q)
        IN  /\ two \in Seq(Rects)
            /\ Len(two) <= Len(one) + 1
            /\ Covered(two) = Covered(one) \cup Area(q)
            /\ Separate(one) /\ Covered(one) \cap Area(q) = {} => Separate(two)
    BY <2>1, AppendRectIs
  <2>3. Len(AppendRect(one, q)) \in Nat
    BY <2>2
  <2> QED BY <1>13, <2>1, <2>2, <2>3 DEF one
<1>14. LET three == AppendRect(AppendRect(AppendRect(none, R(0, 1)), R(1, 2)), R(2, 3))
       IN  three \in Seq(Rects) /\ Len(three) <= 3 /\ Covered(three) = D /\ Separate(three)
  <2> DEFINE two == AppendRect(AppendRect(none, R(0, 1)), R(1, 2))
  <2>1. two \in Seq(Rects) /\ Len(two) \in Nat /\ Len(two) <= 2 /\ Covered(two) = Row(0) \cup Row(1) /\ Separate(two)
    BY <1>3, <1>6, <1>13
  <2> HIDE DEF two
  <2>2. Covered(two) \cap Area(R(2, 3)) = {}
    BY <1>3, <1>6, <2>1
  <2> DEFINE three == AppendRect(two, R(2, 3))
  <2>3. /\ three \in Seq(Rects)
        /\ Len(three) <= Len(two) + 1
        /\ Covered(three) = Covered(two) \cup Area(R(2, 3))
        /\ Separate(two) /\ Covered(two) \cap Area(R(2, 3)) = {} => Separate(three)
    BY <1>6, <2>1, AppendRectIs
  <2>4. Covered(two) \cup Area(R(2, 3)) = D
    BY <1>2, <1>6, <2>1
  <2> HIDE DEF three
  <2>5. Len(three) \in Nat
    BY <2>3
  <2>6. three \in Seq(Rects) /\ Len(three) <= 3 /\ Covered(three) = D /\ Separate(three)
    BY <2>1, <2>2, <2>3, <2>4, <2>5
  <2> QED BY <2>6 DEF two, three
<1>15. CASE s[0] = s[1] /\ s[0] = s[2]
  <2>1. RectsToFinalize(g, status) = AppendRect(none, R(0, 3))
    BY <1>11, <1>15
  <2> QED BY <1>2, <1>6, <1>9, <1>12, <1>15, <2>1 DEF D
<1>16. CASE s[0] = s[1] /\ s[0] # s[2]
  <2>1. RectsToFinalize(g, status) = AppendRect(AppendRect(none, R(0, 2)), R(2, 3))
    BY <1>11, <1>16
  <2>2. Area(R(0, 2)) \cap Area(R(2, 3)) = {} /\ Area(R(0, 2)) \cup Area(R(2, 3)) = D
    BY <1>2, <1>3, <1>6, <1>7, <1>16
  <2> QED BY <1>6, <1>13, <2>1, <2>2 DEF D
<1>17. CASE s[0] # s[1] /\ s[1] = s[2]
  <2>1. RectsToFinalize(g, status) = AppendRect(AppendRect(none, R(0, 1)), R(1, 3))
    BY <1>11, <1>17
  <2>2. Area(R(0, 1)) \cap Area(R(1, 3)) = {} /\ Area(R(0, 1)) \cup Area(R(1, 3)) = D
    BY <1>2, <1>3, <1>6, <1>8, <1>17
  <2> QED BY <1>6, <1>13, <2>1, <2>2 DEF D
<1>18. CASE s[0] # s[1] /\ s[1] # s[2]
  <2>1. RectsToFinalize(g, status) = AppendRect(AppendRect(AppendRect(none, R(0, 1)), R(1, 2)), R(2, 3))
    BY <1>11, <1>18
  <2> QED BY <1>14, <2>1 DEF D
<1> QED BY <1>15, <1>16, <1>17, <1>18

-----------------------------------------------------------------------------
(* The decoder.                                                            *)

LEMMA NextKeepsFrame ==
  ASSUME [Next]_vars
  PROVE  frame' = frame
  BY DEF Next, CallStep, DecoderStep, ThreadStep, ProcessInput, Flush, StartDrawing, DecodeDC,
         FinalizeDC, StartGroups, EndGroups, Mark, ReportDC, ReportPasses, NeedMoreInput, FullImage,
         FinalizeDecoding, EndDrawing, Returns, DecodeGroup, DrawGroup, Draw, vars

-----------------------------------------------------------------------------
(* What the helpers of FrameDecoder return.                                *)

\* NumCompletePasses: the passes every group has.
LEMMA CompleteIs ==
  ASSUME frame \in Frames, NEW passes \in [Groups -> 0 .. frame.passes]
  PROVE  /\ Complete(passes) \in 0 .. frame.passes
         /\ \A g \in Groups : Complete(passes) <= passes[g]
         /\ \E g \in Groups : Complete(passes) = passes[g]
<1> DEFINE S == {passes[g] : g \in Groups}
<1>1. S \in SUBSET Nat /\ S # {} /\ S \subseteq 0 .. frame.passes
  <2>1. 0 \in Groups
    BY GroupsFacts
  <2>2. S \subseteq 0 .. frame.passes
    OBVIOUS
  <2> QED BY <2>1, <2>2, FrameType
<1>2. PICK n \in S : \A m \in S : n <= m
  BY <1>1, LeastNumber
<1>3. /\ n \in 0 .. frame.passes
      /\ (\A g \in Groups : n <= passes[g]) /\ (\E g \in Groups : n = passes[g])
  BY <1>1, <1>2
<1> QED BY <1>3 DEF Complete

LEMMA StopsType ==
  ASSUME frame \in Frames
  PROVE  Stops \subseteq 1 .. frame.passes + 1 /\ PassesToPause \subseteq 1 .. frame.passes
  BY FrameType DEF Stops, PassesToPause

\* NextNumPassesToPause: the next stop.
LEMMA NextPauseIs ==
  ASSUME frame \in Frames, decoded_passes \in [Groups -> 0 .. frame.passes]
  PROVE  /\ NextNumPassesToPause \in Stops
         /\ NextNumPassesToPause > NumCompletePasses
         /\ \A n \in Stops : n > NumCompletePasses => NextNumPassesToPause <= n
<1> DEFINE later == {n \in PassesToPause : n > NumCompletePasses}
<1>1. NumCompletePasses \in 0 .. frame.passes /\ frame.passes \in Nat
  BY CompleteIs, FrameType DEF NumCompletePasses
<1>2. PassesToPause \subseteq 1 .. frame.passes
  BY StopsType
<1>3. CASE later = {}
  BY <1>1, <1>2, <1>3 DEF NextNumPassesToPause, Stops
<1>4. CASE later # {}
  <2>1. later \in SUBSET Nat
    <3>1. \A m \in PassesToPause : m \in Nat
      BY <1>1, <1>2
    <3> QED BY <3>1
  <2>2. \E n \in later : \A m \in later : n <= m
    BY <1>4, <2>1, LeastNumber
  <2> DEFINE next == CHOOSE n \in later : \A m \in later : n <= m
  <2>3. next \in later /\ \A m \in later : next <= m
    BY <2>2
  <2>4. NextNumPassesToPause = next
    BY <1>4 DEF NextNumPassesToPause
  <2> HIDE DEF next
  <2> QED BY <1>1, <1>2, <2>1, <2>3, <2>4 DEF Stops
<1> QED BY <1>3, <1>4

\* Counting a group's new passes stops at the first that is not there.
LEMMA NewPassesIs ==
  ASSUME frame \in Frames, decoded_passes \in [Groups -> 0 .. frame.passes],
         NEW parts, NEW g \in Groups
  PROVE  LET left == frame.passes - decoded_passes[g]
             n == NewPasses(parts, g)
         IN  /\ n \in 0 .. left
             /\ \A k \in 0 .. n - 1 : PassOf(g, decoded_passes[g] + k) \in parts
             /\ n < left => PassOf(g, decoded_passes[g] + n) \notin parts
<1> DEFINE left == frame.passes - decoded_passes[g]
           Ends(n) == n < left => PassOf(g, decoded_passes[g] + n) \notin parts
           S == {n \in 0 .. left : Ends(n)}
<1>1. left \in Nat
  BY FrameType
<1>2. S \in SUBSET Nat /\ left \in S
  BY <1>1
<1>3. PICK n \in S : \A m \in S : n <= m
  BY <1>2, LeastNumber
<1>4. \A k \in 0 .. n - 1 : k \notin S
  BY <1>1, <1>3
<1>5. n \in 0 .. left /\ (\A k \in 0 .. n - 1 : PassOf(g, decoded_passes[g] + k) \in parts) /\ Ends(n)
  BY <1>1, <1>3, <1>4
<1> QED BY <1>5 DEF NewPasses

LEMMA FirstNotInIs ==
  ASSUME frame \in Frames, NEW S \in SUBSET Sections
  PROVE  FirstNotIn(S) \in 1 .. Len(frame.toc) + 1
<1> DEFINE n == Len(frame.toc)
           T == {k \in 1 .. n + 1 : k \notin S}
<1>1. n \in Nat
  BY FrameType
<1>2. T \in SUBSET Nat /\ n + 1 \in T
  BY <1>1 DEF Sections
<1>3. PICK k \in T : \A m \in T : k <= m
  BY <1>2, LeastNumber
<1>4. \A i \in 1 .. k - 1 : i \notin T
  BY <1>1, <1>3
<1>5. k \in 1 .. n + 1 /\ k \notin S /\ \A i \in 1 .. k - 1 : i \in S
  BY <1>1, <1>3, <1>4
<1> QED BY <1>5 DEF FirstNotIn

-----------------------------------------------------------------------------
(* Corners and sections of a frame.                                        *)

\* A corner and a side of it belong to one group at most, and a group's own
\* sides are not outside the frame.
LEMMA CornersAre ==
  ASSUME frame \in Frames, NEW g \in Groups, NEW k \in 1 .. 4
  PROVE  /\ CornerOf(g)[k] \in Corners
         /\ SideOf[k] \in Sides
         /\ SideOf[k] \notin Outside(CornerOf(g)[k])
         /\ \A h \in Groups : CornerOf(h)[k] = CornerOf(g)[k] => h = g
         /\ \A j \in 1 .. 4 : SideOf[j] = SideOf[k] => j = k
<1>1. /\ GroupX(g) \in 0 .. xsize_groups - 1 /\ GroupY(g) \in 0 .. ysize_groups - 1
      /\ xsize_groups \in Nat /\ ysize_groups \in Nat
  BY PlaceOfGroup, GroupsFacts
<1>2. SideOf[k] \in Sides /\ \A j \in 1 .. 4 : SideOf[j] = SideOf[k] => j = k
  BY DEF SideOf, Sides
<1>3. CornerOf(g)[k] \in Corners
  BY <1>1 DEF CornerOf, Corners
<1>4. SideOf[k] \notin Outside(CornerOf(g)[k])
  BY <1>1 DEF CornerOf, Outside, SideOf
<1>5. ASSUME NEW h \in Groups, CornerOf(h)[k] = CornerOf(g)[k]
      PROVE  h = g
  <2>1. GroupX(h) \in 0 .. xsize_groups - 1 /\ GroupY(h) \in 0 .. ysize_groups - 1
    BY PlaceOfGroup
  <2>2. GroupX(h) = GroupX(g) /\ GroupY(h) = GroupY(g)
    BY <1>1, <1>5, <2>1 DEF CornerOf
  <2> QED BY <2>2, SamePlace
<1> QED BY <1>2, <1>3, <1>4, <1>5

LEMMA OutsideType ==
  ASSUME frame \in Frames
  PROVE  [c \in Corners |-> Outside(c)] \in [Corners -> SUBSET Sides]
  BY DEF Outside, Sides

\* The sections hold the frame's parts, each in one section; a frame in one
\* section has one group and one pass.
LEMMA SectionsAre ==
  ASSUME frame \in Frames
  PROVE  /\ Sections \subseteq Nat /\ IsFiniteSet(Sections) /\ Cardinality(Sections) = Len(frame.toc)
         /\ \A i \in Sections : frame.toc[i] \subseteq PartsOf(frame)
         /\ \A part \in PartsOf(frame) : \E i \in Sections : part \in frame.toc[i]
         /\ Single => frame.passes = 1 /\ Groups = {0} /\ frame.toc[1] = PartsOf(frame)
         /\ ~ Single => \A i \in Sections : \E part \in PartsOf(frame) : frame.toc[i] = {part}
         /\ Len(frame.toc) > 0
<1> DEFINE toc == frame.toc
           parts == PartsOf(frame)
<1>1. toc \in Seq(SUBSET parts) /\ Len(toc) \in Nat /\ SectionsHold(toc, parts, frame)
  BY FrameType
<1>2. <<"dc global">> \in parts /\ <<"ac global">> \in parts
  BY DEF PartsOf
<1>3. /\ Sections \subseteq Nat /\ IsFiniteSet(Sections) /\ Cardinality(Sections) = Len(toc)
      /\ \A i \in Sections : toc[i] \subseteq parts
  <2>1. \A n \in Nat : IsFiniteSet(1 .. n) /\ Cardinality(1 .. n) = n
    <3> TAKE n \in Nat
    <3>1. IsFiniteSet(1 .. n) /\ Cardinality(1 .. n) = IF 1 > n THEN 0 ELSE n - 1 + 1
      BY FS_Interval
    <3> QED BY <3>1
  <2>2. IsFiniteSet(Sections) /\ Cardinality(Sections) = Len(toc)
    BY <1>1, <2>1 DEF Sections
  <2> QED BY <1>1, <2>2 DEF Sections
<1>4. CASE GroupsOf(frame) = {0} /\ frame.passes = 1
  <2>1. toc = <<parts>>
    BY <1>1, <1>4 DEF SectionsHold
  <2>2. Len(toc) = 1 /\ toc[1] = parts
    BY <2>1
  <2> QED BY <1>3, <1>4, <2>2, GroupsFacts DEF Single, Sections
<1>5. CASE ~ (GroupsOf(frame) = {0} /\ frame.passes = 1)
  <2>1. /\ \A i \in Sections : \E part \in parts : toc[i] = {part}
        /\ \A part \in parts : \E i \in Sections : toc[i] = {part}
    BY <1>1, <1>5 DEF SectionsHold, Sections
  <2>2. ~ Single
    <3> SUFFICES ASSUME Single PROVE FALSE
      OBVIOUS
    <3>1. \A i \in Sections : i = 1
      BY DEF Single, Sections
    <3>2. toc[1] = {<<"dc global">>} /\ toc[1] = {<<"ac global">>}
      BY <1>2, <2>1, <3>1
    <3>3. <<"dc global">> = <<"ac global">>
      BY <3>2
    <3>4. "dc global" = "ac global"
      BY <3>3
    <3> QED BY <3>4
  <2>3. PICK i \in Sections : toc[i] = {<<"dc global">>}
    BY <1>2, <2>1
  <2>4. Len(toc) > 0
    <3>1. \A n \in Nat : i \in 1 .. n => n > 0
      OBVIOUS
    <3> QED BY ONLY <1>1, <3>1, i \in Sections DEF Sections
  <2>5. \A part \in parts : \E j \in Sections : part \in toc[j]
    BY <2>1
  <2>6. Single => frame.passes = 1 /\ Groups = {0} /\ toc[1] = parts
    BY <2>2
  <2>7. ~ Single => \A j \in Sections : \E part \in parts : toc[j] = {part}
    BY <2>1
  <2> HIDE DEF toc, parts
  <2> QED BY ONLY <1>3, <2>4, <2>5, <2>6, <2>7 DEF toc, parts
<1> QED BY <1>4, <1>5

-----------------------------------------------------------------------------
(* The initial states.                                                     *)

LEMMA TypeInit ==
  ASSUME Init
  PROVE  TypeOK
<1>1. /\ frame \in Frames /\ Len(frame.toc) \in Nat
      /\ frame.passes \in Nat \ {0} /\ frame.dc_groups \in Nat \ {0}
  BY FrameType DEF Init
<1>2. Free \in Lanes
  BY DEF Free, Lanes
<1>3. BorderTypeOK
  BY <1>1, <1>2, OutsideType DEF Init, BorderTypeOK
<1>4. SessionTypeOK
  <2>1. PICK detail \in Details : prog_detail = EffectiveDetail(frame, detail)
    BY DEF Init
  <2>2. detail \in 0 .. 3
    BY DetailsAssumption
  <2>3. PICK n \in Nat : n = Len(frame.toc)
    BY <1>1
  <2>4. prog_detail = 0 \/ (prog_detail = detail /\ n > 1)
    <3>1. CASE frame.pausable /\ n > 1
      BY <2>1, <2>3, <3>1 DEF EffectiveDetail
    <3>2. CASE ~ (frame.pausable /\ n > 1)
      BY <2>1, <2>3, <3>2 DEF EffectiveDetail
    <3> QED BY <3>1, <3>2
  <2>5. prog_detail \in 0 .. 3
    BY <2>2, <2>4
  <2>6. prog_detail >= 1 => n # 1
    BY <2>4, <2>5
  <2>8. prog_detail >= 1 => ~ Single
    BY <2>3, <2>6 DEF Single
  <2>7. avail \in 0 .. Len(frame.toc) /\ next_section \in 1 .. Len(frame.toc) + 1
    BY <2>3 DEF Init
  <2> QED BY <2>5, <2>7, <2>8 DEF Init, SessionTypeOK
<1>5. FrameTypeOK
  BY <1>1 DEF Init, FrameTypeOK
<1>6. CallTypeOK
  BY <1>1 DEF Init, CallTypeOK, Phases
<1>7. FlagsOK
  BY DEF Init, FlagsOK
<1> QED BY <1>1, <1>3, <1>4, <1>5, <1>6, <1>7 DEF TypeOK

LEMMA InvInit ==
  ASSUME Init
  PROVE  IInv
<1>1. /\ TypeOK /\ frame \in Frames /\ frame.passes \in Nat \ {0} /\ Len(frame.toc) \in Nat
      /\ \A g \in Groups : decoded_passes[g] = 0
      /\ \A t \in Threads : lane[t] = Free /\ lane[t].at = "free" /\ lane[t].rects = <<>>
  BY TypeInit, FrameType DEF Init, Free
<1>2. LanesInv /\ SavedInv
  BY <1>1 DEF Init, LanesInv, SavedInv, Drawing
<1>3. RecordsInv
  BY FS_EmptySet DEF Init, RecordsInv, InCall
<1>4. OrderInv
  <2>1. ASSUME NEW part PROVE ~ Decoded(part)
    <3>1. ASSUME NEW g \in Groups, NEW n \in 0 .. decoded_passes[g] - 1 PROVE FALSE
      BY <1>1, <3>1
    <3> QED BY <3>1 DEF Init, Decoded
  <2> QED BY <1>1, <2>1 DEF Init, OrderInv
<1>5. DesiredInv /\ DoneInv
  BY <1>1, SectionsAre DEF Init, DesiredInv, DoneInv
<1>6. SingleInv
  BY <1>1, SectionsAre DEF Init, SingleInv, InCall
<1>7. DrawnInv
  BY <1>1 DEF Init, DrawnInv
<1>8. PausesInv
  <2>1. NumCompletePasses \in Nat
    BY <1>1, CompleteIs DEF TypeOK, FrameTypeOK, NumCompletePasses
  <2>2. \A n \in Stops : n \in Nat
    BY <1>1, StopsType
  <2> QED BY <1>1, <2>1, <2>2 DEF Init, PausesInv
<1>9. MarksInv
  <2>1. \A g \in Groups : \A k \in 1 .. 4 : SideOf[k] \notin counters[CornerOf(g)[k]]
    BY <1>1, CornersAre DEF Init
  <2> QED BY <1>1, <2>1 DEF Init, MarksInv, Marked, Seen
<1>10. RectsInv
  BY <1>1 DEF RectsInv
<1>11. CoverInv
  BY <1>1, NearNotEmpty DEF Init, CoverInv
<1> QED BY <1>1, <1>2, <1>3, <1>4, <1>5, <1>6, <1>7, <1>8, <1>9, <1>10, <1>11 DEF IInv

-----------------------------------------------------------------------------
(* The steps of a thread, field by field.                                  *)

OthersStay(t) == \A u \in Threads \ {t} : lane'[u] = lane[u]

LEMMA LaneType ==
  ASSUME lane \in [Threads -> Lanes], NEW t \in Threads
  PROVE  /\ lane[t].at \in {"free", "save", "mark", "draw"}
         /\ lane[t].group \in Nat /\ lane[t].storage \in Nat
         /\ lane[t].status \in Seq(SUBSET Sides) /\ lane[t].rects \in Seq(Rects)
  BY DEF Lanes

LEMMA LaneSaves ==
  ASSUME lane \in [Threads -> Lanes], NEW t \in Threads, SaveBorders(t)
  PROVE  /\ lane' \in [Threads -> Lanes]
         /\ OthersStay(t)
         /\ lane'[t].at = "mark" /\ lane'[t].group = lane[t].group
         /\ lane'[t].storage = lane[t].storage
         /\ lane'[t].status = lane[t].status /\ lane'[t].rects = lane[t].rects
<1>1. lane' = [lane EXCEPT ![t].at = "mark"]
  BY DEF SaveBorders
<1>2. lane' \in [Threads -> Lanes]
  BY ONLY <1>1, lane \in [Threads -> Lanes], t \in Threads DEF Lanes
<1>3. OthersStay(t)
  BY <1>1 DEF OthersStay
<1> QED BY <1>1, <1>2, <1>3 DEF Lanes

\* A corner is marked: the thread has seen who was there before, and after the
\* last one it knows what to draw.
LEMMA LaneMarks ==
  ASSUME lane \in [Threads -> Lanes], NEW t \in Threads, MarkCorner(t)
  PROVE  LET g == lane[t].group
             k == Len(lane[t].status) + 1
             status == Append(lane[t].status, counters[CornerOf(g)[k]] \cup {SideOf[k]})
         IN  /\ OthersStay(t)
             /\ lane'[t].at = IF k = 4 THEN "draw" ELSE "mark"
             /\ lane'[t].group = g /\ lane'[t].storage = lane[t].storage
             /\ lane'[t].status = status
             /\ lane'[t].rects = IF k = 4 THEN RectsToFinalize(g, status) ELSE <<>>
             /\ /\ status \in Seq(SUBSET Sides)
                /\ k = 4 => RectsToFinalize(g, status) \in Seq(Rects)
                => lane' \in [Threads -> Lanes]
<1> DEFINE g == lane[t].group
           k == Len(lane[t].status) + 1
           status == Append(lane[t].status, counters[CornerOf(g)[k]] \cup {SideOf[k]})
           at == IF k = 4 THEN "draw" ELSE "mark"
           rects == IF k = 4 THEN RectsToFinalize(g, status) ELSE <<>>
<1>1. lane' = [lane EXCEPT ![t].status = status, ![t].at = at, ![t].rects = rects]
  BY DEF MarkCorner
<1>2. ASSUME status \in Seq(SUBSET Sides), k = 4 => RectsToFinalize(g, status) \in Seq(Rects)
      PROVE  lane' \in [Threads -> Lanes]
  <2>1. at \in {"free", "save", "mark", "draw"}
    OBVIOUS
  <2>2. rects \in Seq(Rects)
    BY <1>2
  <2> HIDE DEF status, at, rects
  <2> QED BY ONLY ZenonT(30), <1>1, <1>2, <2>1, <2>2, lane \in [Threads -> Lanes], t \in Threads DEF Lanes
<1>3. OthersStay(t)
  BY <1>1 DEF OthersStay
<1>4. /\ lane'[t].status = status /\ lane'[t].at = at /\ lane'[t].rects = rects
      /\ lane'[t].group = g /\ lane'[t].storage = lane[t].storage
  <2> HIDE DEF status, at, rects, g
  <2>1. /\ lane'[t].status = status /\ lane'[t].at = at /\ lane'[t].rects = rects
        /\ lane'[t].group = lane[t].group /\ lane'[t].storage = lane[t].storage
    BY <1>1 DEF Lanes
  <2> QED BY <2>1 DEF g
<1> QED BY <1>2, <1>3, <1>4

LEMMA LaneDraws ==
  ASSUME lane \in [Threads -> Lanes], NEW t \in Threads, RenderRect(t)
  PROVE  /\ lane' \in [Threads -> Lanes]
         /\ OthersStay(t)
         /\ lane'[t].at = "draw" /\ lane'[t].group = lane[t].group
         /\ lane'[t].storage = lane[t].storage
         /\ lane'[t].status = lane[t].status /\ lane'[t].rects = Tail(lane[t].rects)
<1> DEFINE tail == Tail(lane[t].rects)
<1>1. lane' = [lane EXCEPT ![t].rects = tail] /\ lane[t].at = "draw"
  BY DEF RenderRect
<1>2. tail \in Seq(Rects)
  BY LaneType DEF RenderRect
<1> HIDE DEF tail
<1>3. lane' \in [Threads -> Lanes]
  BY ONLY <1>1, <1>2, lane \in [Threads -> Lanes], t \in Threads DEF Lanes
<1>4. OthersStay(t)
  BY <1>1 DEF OthersStay
<1>5. /\ lane'[t].at = lane[t].at /\ lane'[t].group = lane[t].group
      /\ lane'[t].storage = lane[t].storage
      /\ lane'[t].status = lane[t].status /\ lane'[t].rects = tail
  BY <1>1 DEF Lanes
<1> QED BY <1>1, <1>3, <1>4, <1>5 DEF tail

LEMMA LaneLeaves ==
  ASSUME lane \in [Threads -> Lanes], NEW t \in Threads, Leave(t)
  PROVE  /\ lane' \in [Threads -> Lanes]
         /\ OthersStay(t)
         /\ lane'[t] = Free /\ lane'[t].at = "free" /\ lane'[t].rects = <<>>
<1>1. lane'[t] = Free /\ Free \in Lanes
  BY DEF Leave, Free, Lanes
<1>2. OthersStay(t)
  BY DEF OthersStay, Leave
<1>3. lane' \in [Threads -> Lanes]
  BY <1>1, <1>2 DEF OthersStay, Leave
<1> QED BY <1>1, <1>2, <1>3 DEF Free

-----------------------------------------------------------------------------
(* The corner a thread marks next.                                         *)

MarkGroup(t) == lane[t].group
MarkVisit(t) == Len(lane[t].status) + 1
MarkedCorner(t) == CornerOf(MarkGroup(t))[MarkVisit(t)]
MarkStatus(t) ==
  Append(lane[t].status, counters[MarkedCorner(t)] \cup {SideOf[MarkVisit(t)]})

LEMMA SequenceOfFour ==
  ASSUME NEW S, NEW q \in Seq(S), Len(q) = 4
  PROVE  q \in [1 .. 4 -> S]
  OBVIOUS

LEMMA MarkIs ==
  ASSUME TypeOK, LanesInv, MarksInv, NEW t \in Threads, MarkCorner(t)
  PROVE  /\ lane[t].at = "mark"
         /\ MarkGroup(t) \in Groups /\ MarkVisit(t) \in 1 .. 4
         /\ MarkedCorner(t) \in Corners
         /\ counters' = [counters EXCEPT ![MarkedCorner(t)] = @ \cup {SideOf[MarkVisit(t)]}]
         /\ saved' = saved /\ stale' = stale
         /\ MarkStatus(t) \in Seq(SUBSET Sides) /\ Len(MarkStatus(t)) = MarkVisit(t)
         /\ \A j \in 1 .. MarkVisit(t) - 1 : MarkStatus(t)[j] = lane[t].status[j]
         /\ MarkStatus(t)[MarkVisit(t)] = counters[MarkedCorner(t)] \cup {SideOf[MarkVisit(t)]}
         /\ MarkVisit(t) = 4 => Statuses(MarkStatus(t))
         /\ OthersStay(t)
         /\ lane'[t].at = IF MarkVisit(t) = 4 THEN "draw" ELSE "mark"
         /\ lane'[t].group = MarkGroup(t) /\ lane'[t].storage = lane[t].storage
         /\ lane'[t].status = MarkStatus(t)
         /\ lane'[t].rects =
              IF MarkVisit(t) = 4 THEN RectsToFinalize(MarkGroup(t), MarkStatus(t)) ELSE <<>>
         /\ lane' \in [Threads -> Lanes]
<1> DEFINE old == lane[t].status
           g == MarkGroup(t)
           k == MarkVisit(t)
           c == MarkedCorner(t)
           own == counters[c] \cup {SideOf[k]}
           status == MarkStatus(t)
<1>1. /\ frame \in Frames /\ lane \in [Threads -> Lanes] /\ counters \in [Corners -> SUBSET Sides]
      /\ lane[t].at = "mark" /\ lane[t] # Free
  BY DEF TypeOK, BorderTypeOK, MarkCorner, Free
<1>2. old \in Seq(SUBSET Sides) /\ Len(old) \in Nat /\ Len(old) < 4
  BY <1>1, LaneType DEF MarksInv
<1>3. g \in Groups
  BY <1>1 DEF LanesInv, MarkGroup
<1>4. k \in 1 .. 4
  BY <1>2 DEF MarkVisit
<1>5. c \in Corners /\ SideOf[k] \in Sides
  BY <1>1, <1>3, <1>4, CornersAre DEF MarkedCorner
<1>6. own \in SUBSET Sides
  BY <1>1, <1>5
<1>7. status = Append(old, own) /\ k = Len(old) + 1
  BY DEF MarkStatus, MarkVisit
<1>8. /\ status \in Seq(SUBSET Sides) /\ Len(status) = k
      /\ \A j \in 1 .. k - 1 : status[j] = old[j]
      /\ status[k] = own
  <2> HIDE DEF own, status, k, old
  <2> QED BY <1>2, <1>6, <1>7
<1>9. ASSUME k = 4 PROVE Statuses(status)
  <2>1. \A j \in 1 .. 3 : Seen(t, j)
    BY <1>1, <1>9 DEF Seen, MarkVisit
  <2>2. \A j \in 1 .. 3 : SideOf[j] \in status[j]
    BY <1>8, <1>9, <2>1 DEF MarksInv
  <2>3. SideOf[4] \in status[4]
    BY <1>8, <1>9
  <2>4. status \in [1 .. 4 -> SUBSET Sides]
    <3>1. status \in Seq(SUBSET Sides) /\ Len(status) = 4
      BY <1>8, <1>9
    <3> QED BY <3>1, SequenceOfFour
  <2>5. \A j \in 1 .. 4 : SideOf[j] \in status[j]
    <3>1. \A j \in 1 .. 4 : j \in 1 .. 3 \/ j = 4
      OBVIOUS
    <3> QED BY <2>2, <2>3, <3>1
  <2> QED BY <2>4, <2>5 DEF Statuses
<1>10. k = 4 => RectsToFinalize(g, status) \in Seq(Rects)
  BY <1>1, <1>3, <1>9, RectsToFinalizeAre
<1>11. /\ OthersStay(t)
       /\ lane'[t].at = IF k = 4 THEN "draw" ELSE "mark"
       /\ lane'[t].group = g /\ lane'[t].storage = lane[t].storage
       /\ lane'[t].status = status
       /\ lane'[t].rects = IF k = 4 THEN RectsToFinalize(g, status) ELSE <<>>
       /\ lane' \in [Threads -> Lanes]
  BY <1>1, <1>8, <1>10, LaneMarks DEF MarkGroup, MarkVisit, MarkedCorner, MarkStatus
<1>12. /\ counters' = [counters EXCEPT ![c] = @ \cup {SideOf[k]}]
       /\ saved' = saved /\ stale' = stale
  BY DEF MarkCorner, MarkGroup, MarkVisit, MarkedCorner
<1> QED BY <1>1, <1>3, <1>4, <1>5, <1>8, <1>9, <1>11, <1>12

-----------------------------------------------------------------------------
(* Type correctness.                                                       *)

\* The steps that leave the borders and the threads alone.
Aside ==
  \/ ProcessInput \/ DecodeDC \/ EndGroups \/ Mark
  \/ ReportDC \/ ReportPasses \/ NeedMoreInput \/ FullImage \/ EndDrawing

LEMMA AsideKeeps ==
  ASSUME Aside
  PROVE  frame' = frame /\ counters' = counters /\ saved' = saved /\ stale' = stale /\ lane' = lane
  BY DEF Aside, borderVars, ProcessInput, DecodeDC, EndGroups, Mark, ReportDC, ReportPasses,
         NeedMoreInput, FullImage, EndDrawing, Returns

\* The two ways a run of the pool begins.
Starts(gs) ==
  /\ ClearDone(gs) /\ saved' = saved \ gs /\ todo' = gs
  /\ num_threads' \in 1 .. Cardinality(Threads)
  /\ frame' = frame /\ stale' = stale /\ lane' = lane
  /\ phase' \in {"groups", "final", "flush"}

LEMMA DrawingStarts ==
  ASSUME TypeOK, FinalizeDecoding \/ Flush
  PROVE  \E gs \in SUBSET Groups : Starts(gs)
<1>1. CASE FinalizeDecoding
  BY <1>1 DEF FinalizeDecoding, StartDrawing, Starts
<1>2. CASE Flush
  <2>1. CASE frame.full
    BY <1>2, <2>1 DEF Flush, StartDrawing, Starts
  <2>2. CASE ~ frame.full
    <3> DEFINE missing == {g \in Groups : decoded_passes[g] < frame.passes}
    <3>1. StartDrawing(missing, "flush")
      BY <1>2, <2>2 DEF Flush
    <3>2. missing \in SUBSET Groups
      OBVIOUS
    <3> HIDE DEF missing
    <3> QED BY <3>1, <3>2 DEF StartDrawing, Starts
  <2> QED BY <2>1, <2>2
<1> QED BY <1>1, <1>2

\* What StartGroups does, in its three outcomes.
AcGlobal == <<"ac global">> \in Given /\ finalized_dc /\ ~ decoded_ac_global
Touched == {g \in Groups : desired'[g] # 0}

LEMMA StartGroupsIs ==
  ASSUME StartGroups
  PROVE  /\ phase = "ac" /\ frame' = frame
         /\ \/ /\ AcGlobal /\ <<"ac global">> \in frame.broken
               /\ Fails /\ decoded_ac_global' = decoded_ac_global
               /\ counters' = counters /\ saved' = saved /\ stale' = stale /\ lane' = lane
            \/ /\ ~ (AcGlobal /\ <<"ac global">> \in frame.broken)
               /\ decoded_ac_global' = (decoded_ac_global \/ AcGlobal)
               /\ done' = IF AcGlobal THEN done \cup Holding({<<"ac global">>}) ELSE done
               /\ desired' = DesiredUpTo(NextNumPassesToPause)
               /\ decoded_ac_global' /\ Starts(Touched) /\ phase' = "groups"
            \/ /\ ~ (AcGlobal /\ <<"ac global">> \in frame.broken)
               /\ decoded_ac_global' = (decoded_ac_global \/ AcGlobal)
               /\ done' = IF AcGlobal THEN done \cup Holding({<<"ac global">>}) ELSE done
               /\ desired' = DesiredUpTo(NextNumPassesToPause)
               /\ ~ decoded_ac_global' /\ phase' = "mark"
               /\ counters' = counters /\ saved' = saved /\ stale' = stale /\ lane' = lane
               /\ todo' = todo /\ num_threads' = num_threads
<1>1. CASE AcGlobal /\ <<"ac global">> \in frame.broken
  BY <1>1 DEF StartGroups, AcGlobal, borderVars
<1>2. CASE ~ (AcGlobal /\ <<"ac global">> \in frame.broken)
  <2>1. CASE decoded_ac_global'
    BY <1>2, <2>1 DEF StartGroups, AcGlobal, Starts, Touched
  <2>2. CASE ~ decoded_ac_global'
    BY <1>2, <2>2 DEF StartGroups, AcGlobal, borderVars
  <2> QED BY <2>1, <2>2
<1> QED BY <1>1, <1>2

LEMMA StartsType ==
  ASSUME TypeOK, NEW gs \in SUBSET Groups, Starts(gs)
  PROVE  /\ counters' \in [Corners -> SUBSET Sides]
         /\ saved' \subseteq Groups /\ todo' \subseteq Groups /\ num_threads' \in Nat
<1>1. Cardinality(Threads) \in Nat
  BY ThreadsAssumption, FS_CardinalityType
<1>2. counters' \in [Corners -> SUBSET Sides]
  BY DEF Starts, ClearDone, TypeOK, BorderTypeOK
<1> QED BY <1>1, <1>2 DEF Starts, TypeOK, BorderTypeOK

\* Thread t begins to draw group g.
Begins(t, g) ==
  /\ lane[t] = Free
  /\ lane' \in [Threads -> Lanes]
  /\ OthersStay(t)
  /\ lane'[t].at = "save" /\ lane'[t].group = g
  /\ lane'[t].storage = IF frame.full THEN t ELSE StorageLocation(t, g, NumGroups)
  /\ lane'[t].status = <<>> /\ lane'[t].rects = <<>>

\* A thread that is free begins with a group.
LEMMA TakesBegins ==
  ASSUME TypeOK, NEW t \in Threads, lane[t] = Free, NEW g \in Nat, NEW s \in Nat,
         lane' = [lane EXCEPT ![t].at = "save", ![t].group = g, ![t].storage = s],
         s = IF frame.full THEN t ELSE StorageLocation(t, g, NumGroups)
  PROVE  Begins(t, g)
<1>1. lane \in [Threads -> Lanes]
  BY DEF TypeOK, BorderTypeOK
<1>2. lane' \in [Threads -> Lanes]
  BY ONLY ZenonT(30), <1>1, t \in Threads, g \in Nat, s \in Nat,
     lane' = [lane EXCEPT ![t].at = "save", ![t].group = g, ![t].storage = s]
     DEF Lanes
<1>3. OthersStay(t)
  BY <1>1 DEF OthersStay
<1>4. /\ lane'[t].at = "save" /\ lane'[t].group = g /\ lane'[t].storage = s
      /\ lane'[t].status = lane[t].status /\ lane'[t].rects = lane[t].rects
  BY <1>1 DEF Lanes
<1>5. lane[t].status = <<>> /\ lane[t].rects = <<>>
  BY DEF Free
<1> QED BY <1>2, <1>3, <1>4, <1>5 DEF Begins

LEMMA StorageType ==
  ASSUME frame \in Frames, NEW t \in Threads, NEW g \in Groups
  PROVE  g \in Nat /\ t \in Nat /\ StorageLocation(t, g, NumGroups) \in Nat
<1>1. g \in Nat /\ t \in Nat
  BY GroupsFacts, ThreadsAssumption
<1> QED BY <1>1 DEF StorageLocation

\* The passes that a group is decoded for.
WantedParts(g) == {PassOf(g, decoded_passes[g] + k) : k \in 0 .. desired[g] - 1}

DecodesGroup(g) ==
  /\ ~ has_error /\ WantedParts(g) \cap frame.broken = {}
  /\ decoded_passes' = [decoded_passes EXCEPT ![g] = @ + desired[g]]
  /\ done' = done \cup Holding(WantedParts(g))
  /\ has_error' = has_error

LEMMA DecodeGroupIs ==
  ASSUME TypeOK, NEW t \in Threads, DecodeGroup(t)
  PROVE  \E g \in todo :
           /\ phase = "groups" /\ t < num_threads /\ lane[t] = Free /\ todo' = todo \ {g}
           /\ g \in Groups
           /\ frame' = frame /\ counters' = counters /\ saved' = saved /\ stale' = stale
           /\ UNCHANGED <<sessionVars, processed_section, num_sections_done, decoded_dc_global,
                          decoded_dc_groups, finalized_dc, decoded_ac_global, phase, given,
                          duplicate, desired, num_threads>>
           /\ \/ /\ has_error' = TRUE /\ decoded_passes' = decoded_passes
                 /\ done' = done /\ lane' = lane
              \/ /\ DecodesGroup(g) /\ lane' = lane
                 /\ frame.full \/ decoded_passes[g] + desired[g] # frame.passes
              \/ /\ DecodesGroup(g) /\ Begins(t, g)
                 /\ ~ frame.full /\ decoded_passes[g] + desired[g] = frame.passes
<1>1. PICK g \in todo :
        /\ phase = "groups" /\ t < num_threads /\ lane[t] = Free /\ todo' = todo \ {g}
        /\ frame' = frame /\ counters' = counters /\ saved' = saved /\ stale' = stale
        /\ UNCHANGED <<sessionVars, processed_section, num_sections_done, decoded_dc_global,
                       decoded_dc_groups, finalized_dc, decoded_ac_global, phase, given,
                       duplicate, desired, num_threads>>
        /\ IF has_error \/ WantedParts(g) \cap frame.broken # {}
             THEN has_error' = TRUE /\ UNCHANGED <<decoded_passes, done, lane>>
             ELSE /\ decoded_passes' = [decoded_passes EXCEPT ![g] = @ + desired[g]]
                  /\ done' = done \cup Holding(WantedParts(g))
                  /\ lane' = IF ~ frame.full /\ decoded_passes[g] + desired[g] = frame.passes
                       THEN [lane EXCEPT ![t].at = "save", ![t].group = g,
                               ![t].storage = StorageLocation(t, g, NumGroups)]
                       ELSE lane
                  /\ UNCHANGED has_error
  BY DEF DecodeGroup, WantedParts
<1>2. g \in Groups
  BY DEF TypeOK, CallTypeOK
<1>3. CASE has_error \/ WantedParts(g) \cap frame.broken # {}
  BY <1>1, <1>2, <1>3
<1>4. CASE ~ (has_error \/ WantedParts(g) \cap frame.broken # {})
  <2>1. CASE ~ frame.full /\ decoded_passes[g] + desired[g] = frame.passes
    <3>1. lane' = [lane EXCEPT ![t].at = "save", ![t].group = g,
                     ![t].storage = StorageLocation(t, g, NumGroups)]
      BY <1>1, <1>4, <2>1
    <3>2. Begins(t, g)
      <4>1. g \in Nat /\ StorageLocation(t, g, NumGroups) \in Nat
        BY <1>2, StorageType DEF TypeOK
      <4>2. StorageLocation(t, g, NumGroups) =
              IF frame.full THEN t ELSE StorageLocation(t, g, NumGroups)
        BY <2>1
      <4> QED BY <1>1, <3>1, <4>1, <4>2, TakesBegins
    <3>3. DecodesGroup(g)
      BY <1>1, <1>4 DEF DecodesGroup
    <3> QED BY <1>1, <1>2, <2>1, <3>2, <3>3
  <2>2. CASE ~ (~ frame.full /\ decoded_passes[g] + desired[g] = frame.passes)
    <3>1. lane' = lane /\ DecodesGroup(g)
      BY <1>1, <1>4, <2>2 DEF DecodesGroup
    <3> QED BY <1>1, <1>2, <2>2, <3>1
  <2> QED BY <2>1, <2>2
<1> QED BY <1>3, <1>4

LEMMA DrawGroupIs ==
  ASSUME TypeOK, NEW t \in Threads, DrawGroup(t)
  PROVE  \E g \in todo :
           /\ phase \in {"final", "flush"} /\ t < num_threads /\ todo' = todo \ {g}
           /\ g \in Groups /\ Begins(t, g)
           /\ frame' = frame /\ counters' = counters /\ saved' = saved /\ stale' = stale
           /\ UNCHANGED <<sessionVars, frameVars, phase, given,
                          duplicate, done, desired, num_threads, has_error>>
<1>1. PICK g \in todo :
        /\ phase \in {"final", "flush"} /\ t < num_threads /\ lane[t] = Free
        /\ todo' = todo \ {g}
        /\ lane' = [lane EXCEPT ![t].at = "save", ![t].group = g,
             ![t].storage = IF frame.full THEN t ELSE StorageLocation(t, g, NumGroups)]
        /\ UNCHANGED <<frame, counters, saved, stale, sessionVars, frameVars, phase, given,
                       duplicate, done, desired, num_threads, has_error>>
  BY DEF DrawGroup
<1>2. g \in Groups
  BY DEF TypeOK, CallTypeOK
<1> DEFINE s == IF frame.full THEN t ELSE StorageLocation(t, g, NumGroups)
<1>3. s \in Nat /\ g \in Nat
  BY <1>2, StorageType DEF TypeOK
<1>4. lane' = [lane EXCEPT ![t].at = "save", ![t].group = g, ![t].storage = s]
  BY <1>1
<1> HIDE DEF s
<1>5. Begins(t, g)
  BY <1>1, <1>3, <1>4, TakesBegins DEF s
<1> QED BY <1>1, <1>2, <1>5

LEMMA FinalizeDCIs ==
  ASSUME FinalizeDC
  PROVE  /\ phase = "finalize dc" /\ frame' = frame /\ lane' = lane
         /\ UNCHANGED <<sessionVars, processed_section, num_sections_done, decoded_dc_global,
                        decoded_dc_groups, decoded_ac_global, decoded_passes, given, duplicate,
                        done, desired, num_threads, todo, has_error>>
         /\ \/ /\ decoded_dc_groups = 1 .. frame.dc_groups /\ ~ finalized_dc /\ finalized_dc'
               /\ counters' = [c \in Corners |-> Outside(c)]
               /\ saved' = {} /\ stale' = Pixels
               /\ phase' = IF prog_detail >= 1 THEN "mark" ELSE "ac"
            \/ /\ ~ (decoded_dc_groups = 1 .. frame.dc_groups /\ ~ finalized_dc)
               /\ finalized_dc' = finalized_dc
               /\ counters' = counters /\ saved' = saved /\ stale' = stale
               /\ phase' = "ac"
<1>1. CASE decoded_dc_groups = 1 .. frame.dc_groups /\ ~ finalized_dc
  BY <1>1 DEF FinalizeDC, InitBorders
<1>2. CASE ~ (decoded_dc_groups = 1 .. frame.dc_groups /\ ~ finalized_dc)
  BY <1>2 DEF FinalizeDC, borderVars
<1> QED BY <1>1, <1>2

\* What can be drawn is drawn in pixels of the image.
LEMMA BorderTypeStep ==
  ASSUME IInv, Next
  PROVE  BorderTypeOK'
<1>1. /\ TypeOK /\ frame \in Frames /\ frame' = frame
      /\ counters \in [Corners -> SUBSET Sides] /\ saved \subseteq Groups
      /\ stale \subseteq Pixels /\ lane \in [Threads -> Lanes]
  BY NextKeepsFrame DEF IInv, TypeOK, BorderTypeOK
<1>2. Corners' = Corners /\ Groups' = Groups /\ Pixels' = Pixels
  BY <1>1, FrameStays
<1> DEFINE Goal == /\ counters' \in [Corners -> SUBSET Sides] /\ saved' \subseteq Groups
                   /\ stale' \subseteq Pixels /\ lane' \in [Threads -> Lanes]
<1> SUFFICES Goal
  BY <1>2 DEF BorderTypeOK
<1>3. CASE Aside
  <2>1. counters' = counters /\ saved' = saved /\ stale' = stale /\ lane' = lane
    BY <1>3, AsideKeeps
  <2> QED BY <1>1, <2>1
<1>4. CASE FinalizeDC
  <2>1. /\ lane' = lane
        /\ \/ /\ counters' = [c \in Corners |-> Outside(c)]
              /\ saved' = {} /\ stale' = Pixels
           \/ counters' = counters /\ saved' = saved /\ stale' = stale
    BY <1>4, FinalizeDCIs
  <2> QED BY <1>1, <2>1, OutsideType
<1>5. ASSUME NEW gs \in SUBSET Groups, Starts(gs) PROVE Goal
  BY <1>1, <1>5, StartsType DEF Starts
<1>6. CASE StartGroups
  <2>1. Touched \in SUBSET Groups
    BY DEF Touched
  <2>2. \/ Starts(Touched)
        \/ counters' = counters /\ saved' = saved /\ stale' = stale /\ lane' = lane
    BY <1>6, StartGroupsIs
  <2> QED BY <1>1, <1>5, <2>1, <2>2
<1>7. CASE FinalizeDecoding \/ Flush
  <2>1. PICK gs \in SUBSET Groups : Starts(gs)
    BY <1>1, <1>7, DrawingStarts
  <2> QED BY <1>5, <2>1
<1>8. ASSUME NEW t \in Threads, DecodeGroup(t) PROVE Goal
  BY <1>1, <1>8, DecodeGroupIs DEF Begins
<1>9. ASSUME NEW t \in Threads, DrawGroup(t) PROVE Goal
  BY <1>1, <1>9, DrawGroupIs DEF Begins
<1>10. ASSUME NEW t \in Threads, Draw(t) PROVE Goal
  <2>1. CASE SaveBorders(t)
    <3>1. lane[t].group \in Groups
      BY <2>1 DEF SaveBorders, IInv, LanesInv, Free
    <3> QED BY <1>1, <2>1, <3>1, LaneSaves DEF SaveBorders, NearPixels
  <2>2. CASE MarkCorner(t)
    <3> DEFINE c == MarkedCorner(t)
               side == SideOf[MarkVisit(t)]
    <3>1. /\ c \in Corners /\ MarkVisit(t) \in 1 .. 4 /\ MarkGroup(t) \in Groups
          /\ counters' = [counters EXCEPT ![c] = @ \cup {side}]
          /\ saved' = saved /\ stale' = stale /\ lane' \in [Threads -> Lanes]
      BY <2>2, MarkIs DEF IInv
    <3>2. side \in Sides
      BY <1>1, <3>1, CornersAre
    <3> HIDE DEF c, side
    <3> QED BY <1>1, <3>1, <3>2
  <2>3. CASE RenderRect(t)
    BY <1>1, <2>3, LaneDraws DEF RenderRect
  <2>4. CASE Leave(t)
    BY <1>1, <2>4, LaneLeaves DEF Leave
  <2> QED BY <1>10, <2>1, <2>2, <2>3, <2>4 DEF Draw, DrawStep
<1> HIDE DEF Goal
<1> QED
  BY <1>3, <1>4, <1>6, <1>7, <1>8, <1>9, <1>10
     DEF Next, CallStep, DecoderStep, ThreadStep, Aside

\* A call that returns: outcome and phase change, and the note that the DC was
\* shown.
LEMMA ReturnsIs ==
  ASSUME ReportDC \/ ReportPasses \/ NeedMoreInput \/ FullImage \/ EndDrawing
  PROVE  /\ phase' = "idle"
         /\ UNCHANGED <<frame, borderVars, prog_detail, avail, section_processed, next_section,
                        next_num_passes_to_pause, frameVars, given, duplicate, done, desired,
                        num_threads, todo, has_error>>
         /\ \/ ReportDC /\ dc_frame_progression_done' = TRUE /\ outcome' = "progression"
            \/ ReportPasses /\ outcome' = "progression"
               /\ dc_frame_progression_done' = dc_frame_progression_done
            \/ NeedMoreInput /\ outcome' = "more input"
               /\ dc_frame_progression_done' = dc_frame_progression_done
            \/ FullImage /\ outcome' = "image"
               /\ dc_frame_progression_done' = dc_frame_progression_done
            \/ EndDrawing /\ phase = "final" /\ outcome' = "image"
               /\ dc_frame_progression_done' = dc_frame_progression_done
            \/ EndDrawing /\ phase = "flush" /\ outcome' = outcome
               /\ dc_frame_progression_done' = dc_frame_progression_done
<1>1. CASE ReportDC
  BY <1>1 DEF ReportDC, Returns
<1>2. CASE ReportPasses
  BY <1>2 DEF ReportPasses, Returns
<1>3. CASE NeedMoreInput
  BY <1>3 DEF NeedMoreInput, Returns
<1>4. CASE FullImage
  BY <1>4 DEF FullImage, Returns
<1>5. CASE EndDrawing
  <2>1. CASE phase = "final"
    BY <1>5, <2>1 DEF EndDrawing, Returns
  <2>2. CASE phase = "flush"
    BY <1>5, <2>2 DEF EndDrawing, Returns
  <2> QED BY <1>5, <2>1, <2>2 DEF EndDrawing
<1> QED BY <1>1, <1>2, <1>3, <1>4, <1>5

\* The sections of a call.
NewSections(arrived) == {i \in next_section .. arrived : i \notin section_processed}
NewParts(arrived) == UNION {frame.toc[i] : i \in NewSections(arrived) \ processed_section}

LEMMA ProcessInputIs ==
  ASSUME TypeOK, ProcessInput
  PROVE  \E arrived \in avail .. Len(frame.toc) :
           /\ phase = "idle" /\ outcome \notin {"image", "error"}
           /\ avail' = arrived
           /\ arrived = avail => outcome = "progression" \/ avail = Len(frame.toc)
           /\ next_num_passes_to_pause' = NextNumPassesToPause
           /\ given' = NewSections(arrived)
           /\ duplicate' = NewSections(arrived) \cap processed_section
           /\ done' = {}
           /\ processed_section' = processed_section \cup NewSections(arrived)
           /\ desired' = [g \in Groups |-> NewPasses(NewParts(arrived), g)]
           /\ phase' = IF NewSections(arrived) = {} THEN "report" ELSE "dc"
           /\ NewSections(arrived) \subseteq Sections
           /\ UNCHANGED <<frame, borderVars, prog_detail, section_processed,
                          next_section, dc_frame_progression_done, outcome,
                          num_sections_done, decoded_dc_global, decoded_dc_groups,
                          finalized_dc, decoded_ac_global, decoded_passes,
                          num_threads, todo, has_error>>
<1>1. PICK arrived \in Arrivals :
           /\ phase = "idle" /\ outcome \notin {"image", "error"}
           /\ avail' = arrived
           /\ next_num_passes_to_pause' = NextNumPassesToPause
           /\ given' = NewSections(arrived)
           /\ duplicate' = NewSections(arrived) \cap processed_section
           /\ done' = {}
           /\ processed_section' = processed_section \cup NewSections(arrived)
           /\ desired' = [g \in Groups |-> NewPasses(NewParts(arrived), g)]
           /\ phase' = IF NewSections(arrived) = {} THEN "report" ELSE "dc"
           /\ UNCHANGED <<frame, borderVars, prog_detail, section_processed,
                          next_section, dc_frame_progression_done, outcome,
                          num_sections_done, decoded_dc_global, decoded_dc_groups,
                          finalized_dc, decoded_ac_global, decoded_passes,
                          num_threads, todo, has_error>>
  BY DEF ProcessInput, Usable, NewSections, NewParts
<1>2. PICK n \in Nat : n = Len(frame.toc)
  BY FrameType DEF TypeOK
<1>3. avail \in 0 .. n /\ next_section \in 1 .. n + 1
  BY <1>2 DEF TypeOK, SessionTypeOK
<1>4. arrived \in avail .. n /\ (arrived = avail => outcome = "progression" \/ avail = n)
  BY <1>2, <1>3 DEF Arrivals
<1>5. NewSections(arrived) \subseteq Sections
  BY <1>2, <1>3, <1>4 DEF NewSections, Sections
<1> QED BY <1>1, <1>2, <1>4, <1>5

LEMMA SessionTypeStep ==
  ASSUME IInv, Next
  PROVE  SessionTypeOK'
<1>1. TypeOK /\ frame \in Frames /\ frame' = frame
  BY NextKeepsFrame DEF IInv, TypeOK
<1>2. Sections' = Sections /\ Single' = Single
  BY <1>1, FrameStays
<1>3. PICK n \in Nat : n = Len(frame.toc)
  BY <1>1, FrameType
<1> DEFINE Types(pd, av, sp, ns, nn, oc) ==
             /\ pd \in 0 .. 3 /\ (pd >= 1 => ~ Single) /\ av \in 0 .. n /\ sp \subseteq Sections
             /\ ns \in 1 .. n + 1 /\ nn \in Nat
             /\ oc \in {"none", "progression", "more input", "image", "error"}
           Old == Types(prog_detail, avail, section_processed, next_section,
                        next_num_passes_to_pause, outcome)
           Goal == Types(prog_detail', avail', section_processed', next_section',
                         next_num_passes_to_pause', outcome')
<1>4. Old
  BY <1>1, <1>3 DEF TypeOK, SessionTypeOK
<1> SUFFICES Goal
  BY <1>1, <1>2, <1>3 DEF SessionTypeOK
<1>5. ASSUME UNCHANGED <<prog_detail, avail, section_processed, next_section,
                         next_num_passes_to_pause>>,
             outcome' \in {"none", "progression", "more input", "image", "error"}
      PROVE  Goal
  BY <1>4, <1>5
<1>6. ASSUME Fails PROVE Goal
  BY <1>5, <1>6 DEF Fails
<1>7. ASSUME UNCHANGED sessionVars PROVE Goal
  BY <1>4, <1>5, <1>7 DEF sessionVars
<1>8. CASE ProcessInput
  <2>1. NextNumPassesToPause \in Nat
    <3>1. NextNumPassesToPause \in Stops
      BY <1>1, NextPauseIs DEF TypeOK, FrameTypeOK
    <3> QED BY <1>1, <3>1, StopsType
  <2>2. PICK arrived \in avail .. n :
          /\ avail' = arrived
          /\ next_num_passes_to_pause' = NextNumPassesToPause
          /\ UNCHANGED <<prog_detail, section_processed, next_section, outcome>>
    BY <1>1, <1>3, <1>8, ProcessInputIs
  <2>3. avail \in 0 .. n
    BY <1>4
  <2>4. avail' \in 0 .. n
    BY <2>2, <2>3
  <2> QED BY <1>4, <2>1, <2>2, <2>4
<1>9. CASE DecodeDC \/ EndGroups
  BY <1>6, <1>7, <1>9 DEF DecodeDC, EndGroups, sessionVars
<1>10. CASE Mark
  <2>1. CASE duplicate # {}
    BY <1>6, <1>10, <2>1 DEF Mark
  <2>2. CASE duplicate = {}
    <3>1. section_processed' = section_processed \cup done /\ next_section' = FirstNotIn(section_processed')
          /\ UNCHANGED <<prog_detail, avail, next_num_passes_to_pause, outcome>>
      BY <1>10, <2>2 DEF Mark
    <3>2. section_processed' \subseteq Sections
      BY <1>1, <3>1 DEF TypeOK, SessionTypeOK, CallTypeOK
    <3>3. next_section' \in 1 .. n + 1
      BY <1>1, <1>3, <3>1, <3>2, FirstNotInIs
    <3> QED BY <1>4, <3>1, <3>2, <3>3
  <2> QED BY <2>1, <2>2
<1>11. CASE ReportDC \/ ReportPasses \/ NeedMoreInput \/ FullImage \/ EndDrawing
  BY <1>4, <1>5, <1>11, ReturnsIs
<1>12. CASE FinalizeDC
  BY <1>7, <1>12 DEF FinalizeDC
<1>13. CASE StartGroups
  BY <1>6, <1>7, <1>13 DEF StartGroups
<1>14. CASE FinalizeDecoding \/ Flush
  BY <1>7, <1>14 DEF FinalizeDecoding, Flush, StartDrawing
<1>15. ASSUME NEW t \in Threads, ThreadStep(t) PROVE Goal
  BY <1>7, <1>15 DEF ThreadStep, DecodeGroup, DrawGroup, Draw
<1> HIDE DEF Goal
<1> QED
  BY <1>8, <1>9, <1>10, <1>11, <1>12, <1>13, <1>14, <1>15 DEF Next, CallStep, DecoderStep

\* DecodeDC, when the data is good and when it is damaged.
GlobalDC == decoded_dc_global \/ <<"dc global">> \in Given
GroupsDC == IF GlobalDC THEN DcGroupsGiven ELSE {}
PartsDC == (Given \cap {<<"dc global">>}) \cup {<<"dc", i>> : i \in GroupsDC}

LEMMA DecodeDCIs ==
  ASSUME DecodeDC
  PROVE  /\ phase = "dc"
         /\ UNCHANGED <<frame, borderVars, processed_section, num_sections_done,
                        finalized_dc, decoded_ac_global, decoded_passes>>
         /\ \/ /\ PartsDC \cap frame.broken # {} /\ Fails
               /\ decoded_dc_global' = (decoded_dc_global \/ <<"dc global">> \in PartsDC \ frame.broken)
               /\ \E some \in SUBSET {i \in GroupsDC : <<"dc", i>> \notin frame.broken} :
                     decoded_dc_groups' = IF decoded_dc_global'
                                            THEN decoded_dc_groups \cup some ELSE decoded_dc_groups
            \/ /\ PartsDC \cap frame.broken = {}
               /\ decoded_dc_global' = GlobalDC
               /\ decoded_dc_groups' = decoded_dc_groups \cup GroupsDC
               /\ done' = done \cup Holding(PartsDC)
               /\ phase' = "finalize dc"
               /\ UNCHANGED <<sessionVars, given, duplicate, desired, num_threads, todo, has_error>>
<1>1. CASE PartsDC \cap frame.broken # {}
  BY <1>1 DEF DecodeDC, PartsDC, GroupsDC, GlobalDC
<1>2. CASE PartsDC \cap frame.broken = {}
  BY <1>2 DEF DecodeDC, PartsDC, GroupsDC, GlobalDC
<1> QED BY <1>1, <1>2

LEMMA FlagsStep ==
  ASSUME IInv, Next
  PROVE  FlagsOK'
<1>1. FlagsOK
  BY DEF IInv, TypeOK
<1>2. dc_frame_progression_done' \in BOOLEAN
  BY ZenonT(30), <1>1, ReturnsIs
     DEF FlagsOK, Next, CallStep, DecoderStep, ThreadStep, ProcessInput, Flush, StartDrawing,
         DecodeDC, FinalizeDC, StartGroups, EndGroups, Mark, FinalizeDecoding, DecodeGroup,
         DrawGroup, Draw, Fails, sessionVars
<1>3. decoded_dc_global' \in BOOLEAN
  BY <1>1, ReturnsIs
     DEF FlagsOK, Next, CallStep, DecoderStep, ThreadStep, ProcessInput, Flush, StartDrawing,
         DecodeDC, FinalizeDC, StartGroups, EndGroups, Mark, FinalizeDecoding, DecodeGroup,
         DrawGroup, Draw, frameVars
<1>4. finalized_dc' \in BOOLEAN
  BY <1>1, ReturnsIs
     DEF FlagsOK, Next, CallStep, DecoderStep, ThreadStep, ProcessInput, Flush, StartDrawing,
         DecodeDC, FinalizeDC, StartGroups, EndGroups, Mark, FinalizeDecoding, DecodeGroup,
         DrawGroup, Draw, frameVars
<1>5. decoded_ac_global' \in BOOLEAN
  BY <1>1, ReturnsIs
     DEF FlagsOK, Next, CallStep, DecoderStep, ThreadStep, ProcessInput, Flush, StartDrawing,
         DecodeDC, FinalizeDC, StartGroups, EndGroups, Mark, FinalizeDecoding, DecodeGroup,
         DrawGroup, Draw, frameVars
<1>6. has_error' \in BOOLEAN
  BY ZenonT(30), <1>1, ReturnsIs
     DEF FlagsOK, Next, CallStep, DecoderStep, ThreadStep, ProcessInput, Flush, StartDrawing,
         DecodeDC, FinalizeDC, StartGroups, EndGroups, Mark, FinalizeDecoding, DecodeGroup,
         DrawGroup, Draw, Fails, callVars
<1> QED BY <1>2, <1>3, <1>4, <1>5, <1>6 DEF FlagsOK

LEMMA FrameTypeStep ==
  ASSUME IInv, Next
  PROVE  FrameTypeOK'
<1>1. TypeOK /\ frame \in Frames /\ frame' = frame /\ FrameTypeOK
  BY NextKeepsFrame DEF IInv, TypeOK
<1>2. Sections' = Sections /\ Groups' = Groups
  BY <1>1, FrameStays
<1>3. frame.passes \in Nat /\ frame.dc_groups \in Nat
  BY <1>1, FrameType
<1> DEFINE Goal ==
             /\ processed_section' \subseteq Sections
             /\ num_sections_done' \in Nat
             /\ decoded_dc_groups' \subseteq 1 .. frame.dc_groups
             /\ decoded_passes' \in [Groups -> 0 .. frame.passes]
<1> SUFFICES Goal
  BY <1>1, <1>2 DEF FrameTypeOK
<1>4. ASSUME UNCHANGED <<processed_section, num_sections_done, decoded_dc_groups, decoded_passes>>
      PROVE  Goal
  BY <1>1, <1>4 DEF FrameTypeOK
<1>5. CASE ProcessInput
  <2>1. /\ UNCHANGED <<num_sections_done, decoded_dc_groups, decoded_passes>>
        /\ processed_section' \subseteq processed_section \cup Sections
    BY <1>1, <1>5, ProcessInputIs
  <2> QED BY <1>1, <2>1 DEF FrameTypeOK
<1>6. CASE DecodeDC
  <2>1. UNCHANGED <<processed_section, num_sections_done, decoded_passes>>
    BY <1>6, DecodeDCIs
  <2>2. GroupsDC \subseteq 1 .. frame.dc_groups
    BY DEF GroupsDC, DcGroupsGiven
  <2>3. decoded_dc_groups' \subseteq decoded_dc_groups \cup GroupsDC
    BY <1>6, DecodeDCIs
  <2> QED BY <1>1, <2>1, <2>2, <2>3 DEF FrameTypeOK
<1>7. CASE Mark
  <2>1. /\ UNCHANGED <<decoded_dc_groups, decoded_passes>>
        /\ num_sections_done' = num_sections_done + Cardinality(done)
        /\ processed_section' \subseteq processed_section
    BY <1>7 DEF Mark, MarkSections
  <2>2. Cardinality(done) \in Nat
    <3>1. done \in SUBSET Sections
      BY <1>1 DEF TypeOK, CallTypeOK
    <3>2. IsFiniteSet(done)
      BY <1>1, <3>1, SectionsAre, FS_Subset
    <3> QED BY <3>2, FS_CardinalityType
  <2> QED BY <1>1, <2>1, <2>2 DEF FrameTypeOK
<1>8. CASE FinalizeDC \/ StartGroups \/ EndGroups \/ FinalizeDecoding \/ Flush
  BY <1>4, <1>8 DEF FinalizeDC, StartGroups, EndGroups, FinalizeDecoding, Flush, StartDrawing, frameVars
<1>9. CASE ReportDC \/ ReportPasses \/ NeedMoreInput \/ FullImage \/ EndDrawing
  BY <1>4, <1>9, ReturnsIs DEF frameVars
<1>10. ASSUME NEW t \in Threads, DecodeGroup(t) PROVE Goal
  <2>1. PICK g \in todo :
          /\ phase = "groups" /\ g \in Groups
          /\ UNCHANGED <<processed_section, num_sections_done, decoded_dc_groups>>
          /\ \/ decoded_passes' = decoded_passes
             \/ decoded_passes' = [decoded_passes EXCEPT ![g] = @ + desired[g]]
    BY <1>1, <1>10, DecodeGroupIs DEF DecodesGroup
  <2>2. decoded_passes[g] + desired[g] <= frame.passes
    BY <2>1 DEF IInv, DesiredInv, Wanted
  <2>3. decoded_passes[g] + desired[g] \in 0 .. frame.passes
    BY <1>1, <1>3, <2>1, <2>2 DEF TypeOK, CallTypeOK, FrameTypeOK
  <2> QED BY <1>1, <2>1, <2>3 DEF FrameTypeOK
<1>11. ASSUME NEW t \in Threads, DrawGroup(t) \/ Draw(t) PROVE Goal
  BY <1>4, <1>11 DEF DrawGroup, Draw, frameVars
<1> HIDE DEF Goal
<1> QED
  BY <1>5, <1>6, <1>7, <1>8, <1>9, <1>10, <1>11 DEF Next, CallStep, DecoderStep, ThreadStep

\* No group is decoded past the next pause, and none is decoded less than it is.
LEMMA DesiredIs ==
  ASSUME IInv, phase = "ac"
  PROVE  LET new == DesiredUpTo(NextNumPassesToPause)
         IN  /\ new \in [Groups -> 0 .. frame.passes]
             /\ \A g \in Groups :
                  /\ new[g] <= desired[g]
                  /\ prog_detail >= 2 => decoded_passes[g] + new[g] <= NextNumPassesToPause
                  /\ prog_detail < 2 => new[g] = desired[g]
<1>1. /\ frame \in Frames /\ decoded_passes \in [Groups -> 0 .. frame.passes]
      /\ desired \in [Groups -> 0 .. frame.passes] /\ prog_detail \in 0 .. 3
      /\ frame.passes \in Nat
  BY FrameType DEF IInv, TypeOK, FrameTypeOK, CallTypeOK, SessionTypeOK
<1> DEFINE next == NextNumPassesToPause
<1>2. next \in Nat /\ (prog_detail >= 2 => \A g \in Groups : decoded_passes[g] <= next)
  BY DEF IInv, PausesInv, TypeOK, SessionTypeOK
<1> HIDE DEF next
<1>3. ASSUME NEW g \in Groups
      PROVE  LET n == DesiredUpTo(next)[g]
             IN  /\ n \in 0 .. frame.passes /\ n <= desired[g]
                 /\ prog_detail >= 2 => decoded_passes[g] + n <= next
                 /\ prog_detail < 2 => n = desired[g]
  <2>1. decoded_passes[g] \in Nat /\ desired[g] \in 0 .. frame.passes
    BY <1>1
  <2>2. DesiredUpTo(next)[g] =
          IF prog_detail >= 2 THEN Least(desired[g], next - decoded_passes[g]) ELSE desired[g]
    BY DEF DesiredUpTo
  <2>3. CASE prog_detail >= 2
    BY <1>1, <1>2, <2>1, <2>2, <2>3 DEF Least
  <2>4. CASE ~ (prog_detail >= 2)
    BY <1>1, <1>2, <2>1, <2>2, <2>4
  <2> QED BY <2>3, <2>4
<1>4. DesiredUpTo(next) \in [Groups -> 0 .. frame.passes]
  <2>1. DesiredUpTo(next) = [g \in Groups |-> DesiredUpTo(next)[g]]
    BY DEF DesiredUpTo
  <2> QED BY <1>3, <2>1
<1> QED BY <1>3, <1>4 DEF next

LEMMA CallTypeStep ==
  ASSUME IInv, Next
  PROVE  CallTypeOK'
<1>1. TypeOK /\ frame \in Frames /\ frame' = frame /\ CallTypeOK
  BY NextKeepsFrame DEF IInv, TypeOK
<1>2. Sections' = Sections /\ Groups' = Groups
  BY <1>1, FrameStays
<1>3. frame.passes \in Nat
  BY <1>1, FrameType
<1> DEFINE Goal ==
             /\ phase' \in Phases
             /\ given' \subseteq Sections /\ duplicate' \subseteq given' /\ done' \subseteq given'
             /\ desired' \in [Groups -> 0 .. frame.passes]
             /\ num_threads' \in Nat /\ todo' \subseteq Groups
<1> SUFFICES Goal
  BY <1>1, <1>2 DEF CallTypeOK
<1>4. \A parts : Holding(parts) \subseteq given
  BY DEF Holding
<1>5. ASSUME phase' \in Phases, UNCHANGED <<given, duplicate, desired, num_threads, todo>>,
             done' \subseteq done \cup given
      PROVE  Goal
  BY <1>1, <1>5 DEF CallTypeOK
<1>6. ASSUME Fails PROVE Goal
  BY <1>5, <1>6 DEF Fails, Phases
<1>7. CASE ProcessInput
  <2>1. PICK arrived :
          /\ given' = NewSections(arrived) /\ NewSections(arrived) \subseteq Sections
          /\ duplicate' = NewSections(arrived) \cap processed_section
          /\ done' = {}
          /\ desired' = [g \in Groups |-> NewPasses(NewParts(arrived), g)]
          /\ phase' = IF NewSections(arrived) = {} THEN "report" ELSE "dc"
          /\ UNCHANGED <<num_threads, todo>>
    BY <1>1, <1>7, ProcessInputIs
  <2>2. phase' \in Phases
    BY <2>1 DEF Phases
  <2>3. \A g \in Groups : NewPasses(NewParts(arrived), g) \in 0 .. frame.passes
    <3> TAKE g \in Groups
    <3>1. decoded_passes[g] \in 0 .. frame.passes
      BY <1>1 DEF TypeOK, FrameTypeOK
    <3>2. NewPasses(NewParts(arrived), g) \in 0 .. frame.passes - decoded_passes[g]
      BY <1>1, NewPassesIs DEF TypeOK, FrameTypeOK
    <3> QED BY <1>3, <3>1, <3>2
  <2>4. desired' \in [Groups -> 0 .. frame.passes]
    BY <2>1, <2>3
  <2> QED BY <1>1, <2>1, <2>2, <2>4 DEF CallTypeOK
<1>8. CASE DecodeDC
  <2>1. CASE Fails
    BY <1>6, <2>1
  <2>2. CASE ~ Fails
    <3>1. /\ phase' = "finalize dc" /\ done' = done \cup Holding(PartsDC)
          /\ UNCHANGED <<given, duplicate, desired, num_threads, todo>>
      BY <1>8, <2>2, DecodeDCIs
    <3> QED BY <1>4, <1>5, <3>1 DEF Phases
  <2> QED BY <2>1, <2>2
<1>9. CASE FinalizeDC
  <2>1. /\ phase' \in Phases /\ done' = done
        /\ UNCHANGED <<given, duplicate, desired, num_threads, todo>>
    BY <1>9, FinalizeDCIs DEF Phases
  <2> QED BY <1>5, <2>1
<1>10. CASE StartGroups
  <2>1. CASE Fails
    BY <1>6, <2>1
  <2>2. CASE ~ Fails
    <3>1. /\ phase = "ac" /\ phase' \in Phases
          /\ done' = IF AcGlobal THEN done \cup Holding({<<"ac global">>}) ELSE done
          /\ desired' = DesiredUpTo(NextNumPassesToPause)
          /\ \/ Starts(Touched)
             \/ todo' = todo /\ num_threads' = num_threads
      BY <1>10, <2>2, StartGroupsIs DEF Phases
    <3>2. given' = given /\ duplicate' = duplicate
      BY <1>10, <2>2 DEF StartGroups
    <3>3. desired' \in [Groups -> 0 .. frame.passes]
      BY <3>1, DesiredIs
    <3>4. todo' \subseteq Groups /\ num_threads' \in Nat
      <4>1. Touched \in SUBSET Groups
        BY DEF Touched
      <4> QED BY <1>1, <3>1, <4>1, StartsType DEF CallTypeOK
    <3>5. done' \subseteq given
      BY <1>1, <1>4, <3>1 DEF CallTypeOK
    <3> QED BY <1>1, <3>1, <3>2, <3>3, <3>4, <3>5 DEF CallTypeOK
  <2> QED BY <2>1, <2>2
<1>11. CASE EndGroups
  BY <1>5, <1>6, <1>11 DEF EndGroups, Phases
<1>12. CASE Mark
  BY <1>5, <1>6, <1>12 DEF Mark, Phases
<1>13. CASE ReportDC \/ ReportPasses \/ NeedMoreInput \/ FullImage \/ EndDrawing
  <2>1. /\ phase' \in Phases /\ done' = done
        /\ UNCHANGED <<given, duplicate, desired, num_threads, todo>>
    BY <1>13, ReturnsIs DEF Phases
  <2> QED BY <1>5, <2>1
<1>14. CASE FinalizeDecoding \/ Flush
  <2>1. /\ UNCHANGED <<given, duplicate, done, desired>> /\ phase' \in Phases
    BY <1>14 DEF FinalizeDecoding, Flush, StartDrawing, Phases
  <2>2. todo' \subseteq Groups /\ num_threads' \in Nat
    BY <1>1, <1>14, DrawingStarts, StartsType
  <2> QED BY <1>1, <2>1, <2>2 DEF CallTypeOK
<1>15. ASSUME NEW t \in Threads, ThreadStep(t) PROVE Goal
  <2>1. CASE DecodeGroup(t)
    <3>1. PICK g \in todo :
            /\ todo' = todo \ {g}
            /\ UNCHANGED <<phase, given, duplicate, desired, num_threads>>
            /\ done' = done \/ done' = done \cup Holding(WantedParts(g))
      BY <1>1, <2>1, DecodeGroupIs DEF DecodesGroup
    <3> QED BY <1>1, <1>4, <3>1 DEF CallTypeOK
  <2>2. CASE DrawGroup(t)
    <3>1. PICK g \in todo :
            todo' = todo \ {g} /\ UNCHANGED <<phase, given, duplicate, done, desired, num_threads>>
      BY <2>2 DEF DrawGroup
    <3> QED BY <1>1, <3>1 DEF CallTypeOK
  <2>3. CASE Draw(t)
    BY <1>1, <2>3 DEF Draw, callVars, CallTypeOK
  <2> QED BY <1>15, <2>1, <2>2, <2>3 DEF ThreadStep
<1> HIDE DEF Goal
<1> QED
  BY <1>7, <1>8, <1>9, <1>10, <1>11, <1>12, <1>13, <1>14, <1>15 DEF Next, CallStep, DecoderStep

LEMMA TypeStep ==
  ASSUME IInv, Next
  PROVE  TypeOK'
<1>1. frame' \in Frames
  BY NextKeepsFrame DEF IInv, TypeOK
<1> QED
  BY <1>1, BorderTypeStep, SessionTypeStep, FrameTypeStep, CallTypeStep, FlagsStep DEF TypeOK

-----------------------------------------------------------------------------
(* Who works on which group.                                               *)

LEMMA NobodyWorks ==
  ASSUME LanesInv, ~ Drawing \/ Quiet, NEW t \in Threads
  PROVE  lane[t] = Free /\ lane[t].at = "free" /\ lane[t].rects = <<>> /\ lane[t].status = <<>>
  BY DEF LanesInv, Quiet, Free

\* Only the steps of threads happen while a thread works.
CallerStep ==
  \/ ProcessInput \/ DecodeDC \/ FinalizeDC \/ StartGroups \/ EndGroups \/ Mark
  \/ ReportDC \/ ReportPasses \/ NeedMoreInput \/ FullImage \/ FinalizeDecoding \/ Flush
  \/ EndDrawing

LEMMA StepCases ==
  ASSUME Next
  PROVE  \/ CallerStep
         \/ \E t \in Threads : DecodeGroup(t) \/ DrawGroup(t)
         \/ \E t \in Threads : /\ SaveBorders(t) \/ MarkCorner(t) \/ RenderRect(t) \/ Leave(t)
                               /\ UNCHANGED <<frame, sessionVars, frameVars, callVars>>
  BY DEF Next, CallStep, DecoderStep, ThreadStep, Draw, DrawStep, CallerStep

LEMMA CallerIsAlone ==
  ASSUME LanesInv, CallerStep
  PROVE  /\ lane' = lane /\ frame' = frame
         /\ \A t \in Threads : /\ lane[t] = Free /\ lane[t].at = "free"
                               /\ lane[t].rects = <<>> /\ lane[t].status = <<>>
<1>1. ~ Drawing \/ Quiet
  BY DEF CallerStep, Drawing, ProcessInput, Usable, DecodeDC, FinalizeDC, StartGroups, EndGroups,
         Mark, ReportDC, ReportPasses, NeedMoreInput, FullImage, FinalizeDecoding, Flush, EndDrawing
<1>2. lane' = lane /\ frame' = frame
  <2>1. CASE FinalizeDC
    BY <2>1, FinalizeDCIs
  <2>2. CASE StartGroups
    BY <2>2, StartGroupsIs DEF Starts
  <2>3. CASE FinalizeDecoding \/ Flush
    BY <2>3 DEF FinalizeDecoding, Flush, StartDrawing
  <2>4. CASE Aside
    BY <2>4, AsideKeeps
  <2> QED BY <2>1, <2>2, <2>3, <2>4 DEF CallerStep, Aside
<1> QED BY <1>1, <1>2, NobodyWorks

\* A thread takes a group that was handed out.
LEMMA BeginIs ==
  ASSUME TypeOK, NEW t \in Threads, DecodeGroup(t) \/ DrawGroup(t)
  PROVE  \E g \in todo :
           /\ g \in Groups /\ Drawing /\ phase' = phase /\ t < num_threads
           /\ todo' = todo \ {g}
           /\ frame' = frame /\ counters' = counters /\ saved' = saved /\ stale' = stale
           /\ num_threads' = num_threads /\ outcome' = outcome /\ lane[t] = Free
           /\ lane' = lane \/ Begins(t, g)
<1>1. CASE DecodeGroup(t)
  BY <1>1, DecodeGroupIs DEF sessionVars, Drawing
<1>2. CASE DrawGroup(t)
  BY <1>2, DrawGroupIs DEF sessionVars, Drawing, Begins
<1> QED BY <1>1, <1>2

\* The thread at work keeps its group and its buffers.
LEMMA DrawIs ==
  ASSUME TypeOK, LanesInv, MarksInv, NEW t \in Threads,
         SaveBorders(t) \/ MarkCorner(t) \/ RenderRect(t) \/ Leave(t)
  PROVE  /\ OthersStay(t)
         /\ lane[t] # Free
         /\ \/ lane'[t] = Free
            \/ /\ lane'[t].at \in {"mark", "draw"} /\ lane'[t].group = lane[t].group
               /\ lane'[t].storage = lane[t].storage
<1>1. lane \in [Threads -> Lanes]
  BY DEF TypeOK, BorderTypeOK
<1>2. lane[t] # Free
  <2>1. lane[t].at # "free"
    BY Zenon DEF SaveBorders, MarkCorner, RenderRect, Leave
  <2> QED BY <2>1 DEF Free
<1>3. CASE SaveBorders(t)
  BY <1>1, <1>2, <1>3, LaneSaves
<1>4. CASE MarkCorner(t)
  BY <1>1, <1>2, <1>4, MarkIs DEF MarkGroup
<1>5. CASE RenderRect(t)
  BY <1>1, <1>2, <1>5, LaneDraws
<1>6. CASE Leave(t)
  BY <1>1, <1>2, <1>6, LaneLeaves
<1> QED BY <1>3, <1>4, <1>5, <1>6

LEMMA LanesStep ==
  ASSUME IInv, Next
  PROVE  LanesInv'
<1> DEFINE Works(t) ==
             /\ Drawing'
             /\ t < num_threads'
             /\ lane'[t].group \in Groups \ todo'
             /\ lane'[t].storage = IF frame.full THEN t
                                   ELSE IF num_threads' > NumGroups THEN lane'[t].group ELSE t
           Apart(t) == \A u \in Threads \ {t} : lane'[u] # Free => lane'[u].group # lane'[t].group
           Kept(t) ==
             /\ Drawing
             /\ t < num_threads
             /\ lane[t].group \in Groups \ todo
             /\ lane[t].storage = IF frame.full THEN t
                                  ELSE IF num_threads > NumGroups THEN lane[t].group ELSE t
<1>1. /\ TypeOK /\ LanesInv /\ MarksInv /\ frame' = frame
      /\ lane \in [Threads -> Lanes]
  BY NextKeepsFrame DEF IInv, TypeOK, BorderTypeOK
<1>2. Groups' = Groups /\ NumGroups' = NumGroups
  BY <1>1, FrameStays
<1>3. \A t \in Threads : lane[t] # Free => Kept(t)
  BY <1>1 DEF LanesInv, StorageLocation
<1>4. SUFFICES ASSUME NEW t \in Threads
               PROVE  /\ lane'[t].at = "free" => lane'[t] = Free
                      /\ lane'[t] # Free => Works(t) /\ Apart(t)
  BY <1>1, <1>2 DEF LanesInv, StorageLocation
<1>5. CASE CallerStep
  BY <1>1, <1>5, CallerIsAlone
<1>6. ASSUME NEW u \in Threads, DecodeGroup(u) \/ DrawGroup(u)
      PROVE  /\ lane'[t].at = "free" => lane'[t] = Free
             /\ lane'[t] # Free => Works(t) /\ Apart(t)
  <2>1. PICK g \in todo :
           /\ g \in Groups /\ Drawing /\ phase' = phase /\ u < num_threads
           /\ todo' = todo \ {g}
           /\ num_threads' = num_threads /\ lane[u] = Free
           /\ lane' = lane \/ Begins(u, g)
    BY <1>1, <1>6, BeginIs
  <2>2. Drawing'
    BY <2>1 DEF Drawing
  <2>3. CASE lane' = lane
    BY <1>1, <1>3, <2>1, <2>2, <2>3 DEF LanesInv
  <2>4. CASE Begins(u, g)
    <3>1. /\ lane'[u].at = "save" /\ lane'[u].group = g
          /\ lane'[u].storage = IF frame.full THEN u
                                ELSE IF num_threads > NumGroups THEN g ELSE u
          /\ \A v \in Threads \ {u} : lane'[v] = lane[v]
      BY <2>4 DEF Begins, OthersStay, StorageLocation
    <3>2. CASE t = u
      <4>1. Works(t)
        BY <2>1, <2>2, <3>1, <3>2
      <4>2. Apart(t)
        BY <1>3, <2>1, <3>1, <3>2
      <4> QED BY <3>1, <3>2, <4>1, <4>2
    <3>3. CASE t # u
      <4>1. lane'[t] = lane[t]
        BY <3>1, <3>3
      <4>2. lane[t] # Free => Works(t)
        BY <1>3, <2>1, <2>2, <4>1
      <4>3. lane[t] # Free => Apart(t)
        BY <1>1, <1>3, <2>1, <3>1, <4>1 DEF LanesInv
      <4> QED BY <1>1, <4>1, <4>2, <4>3 DEF LanesInv
    <3> QED BY <3>2, <3>3
  <2> QED BY <2>1, <2>3, <2>4
<1>7. ASSUME NEW u \in Threads, SaveBorders(u) \/ MarkCorner(u) \/ RenderRect(u) \/ Leave(u),
             UNCHANGED <<frame, sessionVars, frameVars, callVars>>
      PROVE  /\ lane'[t].at = "free" => lane'[t] = Free
             /\ lane'[t] # Free => Works(t) /\ Apart(t)
  <2>1. /\ \A v \in Threads \ {u} : lane'[v] = lane[v]
        /\ lane[u] # Free
        /\ \/ lane'[u] = Free
           \/ /\ lane'[u].at \in {"mark", "draw"} /\ lane'[u].group = lane[u].group
              /\ lane'[u].storage = lane[u].storage
    BY <1>1, <1>7, DrawIs DEF OthersStay
  <2>2. phase' = phase /\ todo' = todo /\ num_threads' = num_threads
    BY <1>7 DEF callVars
  <2>3. \A v \in Threads : lane'[v] # Free => lane[v] # Free /\ lane'[v].group = lane[v].group
                                              /\ lane'[v].storage = lane[v].storage
    BY <2>1
  <2>4. lane'[t] # Free => Works(t)
    BY <1>3, <2>2, <2>3 DEF Drawing
  <2>5. lane'[t] # Free => Apart(t)
    BY <1>1, <2>3 DEF LanesInv
  <2>6. lane'[t].at = "free" => lane'[t] = Free
    BY <1>1, <2>1 DEF LanesInv
  <2> QED BY <2>4, <2>5, <2>6
<1> QED BY <1>5, <1>6, <1>7, StepCases

\* The steps of the caller that begin no run.
LEMMA CallerCases ==
  ASSUME TypeOK, CallerStep
  PROVE  \/ \E gs \in SUBSET Groups : Starts(gs) /\ outcome' = outcome
         \/ /\ todo' = todo /\ counters' = counters /\ saved' = saved /\ stale' = stale
            /\ phase' \notin {"groups", "final", "flush"}
         \/ /\ FinalizeDC /\ todo' = todo /\ finalized_dc' /\ ~ finalized_dc
            /\ counters' = [c \in Corners |-> Outside(c)] /\ saved' = {} /\ stale' = Pixels
            /\ phase' \in {"mark", "ac"}
<1>1. CASE FinalizeDC
  BY <1>1, FinalizeDCIs
<1>2. CASE StartGroups
  <2>1. CASE Fails
    BY <1>2, <2>1 DEF StartGroups, Fails, borderVars
  <2>2. CASE Starts(Touched) /\ ~ Fails
    <3>1. Touched \in SUBSET Groups
      BY DEF Touched
    <3>2. outcome' = outcome
      BY <1>2, <2>2 DEF StartGroups, sessionVars
    <3> QED BY <2>2, <3>1, <3>2
  <2>3. CASE ~ Starts(Touched) /\ ~ Fails
    <3>1. /\ todo' = todo /\ counters' = counters /\ saved' = saved /\ stale' = stale
          /\ phase' = "mark"
      BY <1>2, <2>3, StartGroupsIs
    <3> QED BY <3>1
  <2> QED BY <2>1, <2>2, <2>3
<1>3. CASE FinalizeDecoding \/ Flush
  <2>1. outcome' = outcome
    BY <1>3 DEF FinalizeDecoding, Flush, StartDrawing, sessionVars
  <2> QED BY <1>3, <2>1, DrawingStarts
<1>4. CASE Aside
  <2>1. counters' = counters /\ saved' = saved /\ stale' = stale
    BY <1>4, AsideKeeps
  <2>2. todo' = todo /\ phase' \notin {"groups", "final", "flush"}
    BY <1>4, ReturnsIs DEF Aside, ProcessInput, DecodeDC, EndGroups, Mark, Fails
  <2> QED BY <2>1, <2>2
<1> QED BY <1>1, <1>2, <1>3, <1>4 DEF CallerStep, Aside

LEMMA SavedStep ==
  ASSUME IInv, Next
  PROVE  SavedInv'
<1>1. /\ TypeOK /\ LanesInv /\ SavedInv /\ RecordsInv /\ MarksInv
      /\ lane \in [Threads -> Lanes]
  BY DEF IInv, TypeOK, BorderTypeOK
<1>2. CASE CallerStep
  <2>1. \A t \in Threads : lane'[t].at = "free"
    BY <1>1, <1>2, CallerIsAlone
  <2>2. phase # "idle" => outcome # "error"
    BY <1>1 DEF RecordsInv
  <2>3. CASE \E gs \in SUBSET Groups : Starts(gs) /\ outcome' = outcome
    BY <2>1, <2>3 DEF SavedInv, Starts, Drawing
  <2>4. CASE ~ \E gs \in SUBSET Groups : Starts(gs) /\ outcome' = outcome
    <3>1. todo' = todo /\ ~ Drawing'
      BY <1>1, <1>2, <2>4, CallerCases DEF Drawing
    <3>2. todo = {} \/ (outcome = "error" /\ phase = "idle")
      <4>1. Drawing => todo = {}
        BY <1>2 DEF CallerStep, Drawing, ProcessInput, Usable, DecodeDC, FinalizeDC, StartGroups, EndGroups,
         Mark, ReportDC, ReportPasses, NeedMoreInput, FullImage, FinalizeDecoding, Flush, EndDrawing
      <4> QED BY <1>1, <2>2, <4>1 DEF SavedInv
    <3>3. ~ (outcome = "error" /\ phase = "idle")
      BY <1>2 DEF CallerStep, ProcessInput, Usable, DecodeDC, FinalizeDC, StartGroups, EndGroups,
         Mark, ReportDC, ReportPasses, NeedMoreInput, FullImage, FinalizeDecoding, Flush, EndDrawing
    <3> QED BY <2>1, <3>1, <3>2, <3>3 DEF SavedInv
  <2> QED BY <2>3, <2>4
<1>3. ASSUME NEW u \in Threads, DecodeGroup(u) \/ DrawGroup(u)
      PROVE  SavedInv'
  <2>1. PICK g \in todo :
           /\ Drawing /\ phase' = phase /\ todo' = todo \ {g} /\ saved' = saved
           /\ lane' = lane \/ Begins(u, g)
    BY <1>1, <1>3, BeginIs
  <2>2. Drawing' /\ todo' \cap saved' = {} /\ g \notin saved
    BY <1>1, <2>1 DEF Drawing, SavedInv
  <2>3. \A t \in Threads :
          \/ lane'[t] = lane[t]
          \/ lane'[t].at = "save" /\ lane'[t].group = g
    BY <2>1 DEF Begins, OthersStay
  <2>4. \A t \in Threads :
          /\ lane'[t].at = "save" => lane'[t].group \notin saved'
          /\ lane'[t].at \in {"mark", "draw"} => lane'[t].group \in saved'
    BY <1>1, <2>1, <2>2, <2>3 DEF SavedInv
  <2> QED BY <2>2, <2>4 DEF SavedInv
<1>4. ASSUME NEW u \in Threads, SaveBorders(u) \/ MarkCorner(u) \/ RenderRect(u) \/ Leave(u),
             UNCHANGED <<frame, sessionVars, frameVars, callVars>>
      PROVE  SavedInv'
  <2>1. phase' = phase /\ todo' = todo /\ outcome' = outcome
    BY <1>4 DEF callVars, sessionVars
  <2>2. /\ \A t \in Threads \ {u} : lane'[t] = lane[t]
        /\ lane[u] # Free
    BY <1>1, <1>4, DrawIs DEF OthersStay
  <2>3. CASE SaveBorders(u)
    <3>1. saved' = saved \cup {lane[u].group}
      BY <2>3 DEF SaveBorders
    <3>2. lane[u].group \notin todo /\ Drawing
      BY <1>1, <2>2 DEF LanesInv
    <3>3. \A t \in Threads \ {u} : lane[t].at = "save" => lane[t].group # lane[u].group
      BY <1>1, <2>2 DEF LanesInv, Free
    <3>4. lane'[u].at = "mark" /\ lane'[u].group = lane[u].group
      BY <1>1, <2>3, LaneSaves
    <3>5. \A t \in Threads :
            /\ lane'[t].at = "save" => lane'[t].group \notin saved'
            /\ lane'[t].at \in {"mark", "draw"} => lane'[t].group \in saved'
      BY <1>1, <2>2, <3>1, <3>3, <3>4 DEF SavedInv
    <3> QED BY <1>1, <2>1, <3>1, <3>2, <3>5 DEF SavedInv, Drawing
  <2>4. CASE ~ SaveBorders(u)
    <3>1. saved' = saved /\ lane[u].at \in {"mark", "draw"}
      BY <1>4, <2>4 DEF MarkCorner, RenderRect, Leave
    <3>2. lane'[u].at = "free" \/ (lane'[u].at \in {"mark", "draw"} /\ lane'[u].group = lane[u].group)
      BY <1>1, <1>4, DrawIs DEF Free
    <3>3. \A t \in Threads :
            /\ lane'[t].at = "save" => lane'[t].group \notin saved'
            /\ lane'[t].at \in {"mark", "draw"} => lane'[t].group \in saved'
      BY <1>1, <2>2, <3>1, <3>2 DEF SavedInv
    <3> QED BY <1>1, <2>1, <3>1, <3>3 DEF SavedInv, Drawing
  <2> QED BY <2>3, <2>4
<1> QED BY <1>2, <1>3, <1>4, StepCases

-----------------------------------------------------------------------------
(* The records of the sections.                                            *)

\* A thread changes none of what the call has been given.
LEMMA ThreadsKeepCall ==
  ASSUME TypeOK, NEW t \in Threads, ThreadStep(t)
  PROVE  UNCHANGED <<sessionVars, processed_section, num_sections_done, decoded_dc_global,
                     decoded_dc_groups, finalized_dc, decoded_ac_global, phase, given,
                     duplicate, desired, num_threads>>
  BY DEF ThreadStep, DecodeGroup, DrawGroup, Draw, sessionVars, frameVars, callVars

LEMMA RecordsStep ==
  ASSUME IInv, Next
  PROVE  RecordsInv'
<1>1. /\ TypeOK /\ RecordsInv /\ frame \in Frames
      /\ given \subseteq Sections /\ done \subseteq given /\ section_processed \subseteq Sections
      /\ processed_section \subseteq Sections
  BY DEF IInv, TypeOK, CallTypeOK, SessionTypeOK, FrameTypeOK
<1>2. ASSUME UNCHANGED <<num_sections_done, section_processed, processed_section, duplicate, given>>,
             \/ InCall /\ InCall' /\ outcome' = outcome
             \/ phase' = "idle" /\ outcome' = "error"
             \/ /\ ~ InCall /\ ~ InCall' /\ (phase = "idle" => outcome \notin {"image", "error"})
                /\ outcome' \notin {"image", "error"} \/ phase' = "idle"
      PROVE  RecordsInv'
  BY <1>1, <1>2 DEF RecordsInv, InCall
<1>3. CASE ProcessInput
  <2>1. PICK arrived :
           /\ phase = "idle" /\ outcome \notin {"image", "error"}
           /\ given' = NewSections(arrived)
           /\ duplicate' = NewSections(arrived) \cap processed_section
           /\ processed_section' = processed_section \cup NewSections(arrived)
           /\ phase' = IF NewSections(arrived) = {} THEN "report" ELSE "dc"
           /\ UNCHANGED <<section_processed, num_sections_done, outcome>>
    BY <1>1, <1>3, ProcessInputIs
  <2>2. processed_section = section_processed
    BY <1>1, <2>1 DEF RecordsInv, InCall
  <2>3. NewSections(arrived) \cap section_processed = {}
    BY DEF NewSections
  <2> QED BY <1>1, <2>1, <2>2, <2>3 DEF RecordsInv, InCall
<1>4. ASSUME Fails, UNCHANGED <<num_sections_done, processed_section>> PROVE RecordsInv'
  BY <1>2, <1>4 DEF Fails
<1>5. CASE DecodeDC
  <2>1. UNCHANGED <<num_sections_done, processed_section>>
    BY <1>5, DecodeDCIs
  <2>2. CASE Fails
    BY <1>4, <2>1, <2>2
  <2>3. CASE ~ Fails
    <3>1. /\ phase = "dc" /\ phase' = "finalize dc"
          /\ UNCHANGED <<section_processed, duplicate, given, outcome>>
      BY <1>5, <2>3, DecodeDCIs DEF sessionVars
    <3> QED BY <1>2, <2>1, <3>1 DEF InCall
  <2> QED BY <2>2, <2>3
<1>6. CASE FinalizeDC
  <2>1. /\ phase = "finalize dc" /\ phase' \in {"mark", "ac"}
        /\ UNCHANGED <<num_sections_done, processed_section, section_processed, duplicate, given, outcome>>
    BY <1>6, FinalizeDCIs DEF sessionVars
  <2> QED BY <1>2, <2>1 DEF InCall
<1>7. CASE StartGroups
  <2>1. UNCHANGED <<num_sections_done, processed_section>>
    BY <1>7 DEF StartGroups
  <2>2. CASE Fails
    BY <1>4, <2>1, <2>2
  <2>3. CASE ~ Fails
    <3>1. /\ phase = "ac" /\ phase' \in {"groups", "mark"}
      BY <1>7, <2>3, StartGroupsIs
    <3>2. UNCHANGED <<section_processed, duplicate, given, outcome>>
      BY <1>7, <2>3 DEF StartGroups, sessionVars
    <3> QED BY <1>2, <2>1, <3>1, <3>2 DEF InCall
  <2> QED BY <2>2, <2>3
<1>8. CASE EndGroups
  <2>1. UNCHANGED <<num_sections_done, processed_section>>
    BY <1>8 DEF EndGroups, frameVars
  <2>2. CASE Fails
    BY <1>4, <2>1, <2>2
  <2>3. CASE ~ Fails
    <3>1. /\ phase = "groups" /\ phase' = "mark"
          /\ UNCHANGED <<section_processed, duplicate, given, outcome>>
      BY <1>8, <2>3 DEF EndGroups, sessionVars
    <3> QED BY <1>2, <2>1, <3>1 DEF InCall
  <2> QED BY <2>2, <2>3
<1>9. CASE Mark
  <2>1. /\ phase = "mark" /\ duplicate = {}
        /\ num_sections_done = Cardinality(section_processed)
        /\ given \cap section_processed = {}
        /\ processed_section = section_processed \cup given
    BY <1>1, <1>9 DEF Mark, RecordsInv, InCall
  <2>2. /\ num_sections_done' = num_sections_done + Cardinality(done)
        /\ processed_section' = processed_section \ (given \ done)
        /\ section_processed' = section_processed \cup done
        /\ phase' = "report" /\ UNCHANGED <<outcome, duplicate>>
    BY <1>9, <2>1 DEF Mark, MarkSections
  <2>3. Cardinality(section_processed \cup done) =
          Cardinality(section_processed) + Cardinality(done)
    <3>1. IsFiniteSet(done) /\ IsFiniteSet(section_processed)
      <4>1. done \in SUBSET Sections /\ section_processed \in SUBSET Sections
        BY <1>1
      <4> QED BY <1>1, <4>1, SectionsAre, FS_Subset
    <3>2. Cardinality(section_processed \cup done) =
            Cardinality(section_processed) + Cardinality(done) - Cardinality(section_processed \cap done)
      BY <3>1, FS_Union
    <3>3. Cardinality(section_processed \cap done) = 0
      <4>1. section_processed \cap done = {}
        BY <1>1, <2>1
      <4> QED BY <4>1, FS_EmptySet, Zenon
    <3>4. Cardinality(done) \in Nat /\ Cardinality(section_processed) \in Nat
      BY <3>1, FS_CardinalityType
    <3> QED BY ONLY <3>2, <3>3, <3>4
  <2>4. processed_section' = section_processed'
    BY <1>1, <2>1, <2>2
  <2>5. outcome \notin {"image", "error"}
    BY <1>1, <2>1 DEF RecordsInv
  <2> QED BY <1>1, <2>1, <2>2, <2>3, <2>4, <2>5 DEF RecordsInv, InCall
<1>10. CASE ReportDC \/ ReportPasses \/ NeedMoreInput \/ FullImage \/ EndDrawing
  <2>1. /\ phase' = "idle" /\ phase \in {"report", "final", "flush"}
        /\ UNCHANGED <<num_sections_done, section_processed, processed_section, duplicate, given>>
    BY <1>10, ReturnsIs DEF frameVars, ReportDC, ReportPasses, NeedMoreInput, FullImage, EndDrawing
  <2> QED BY <1>2, <2>1 DEF InCall
<1>11. CASE FinalizeDecoding \/ Flush
  <2>1. /\ phase' \in {"final", "flush"}
        /\ phase = "report" \/ (phase = "idle" /\ outcome \notin {"image", "error"})
        /\ UNCHANGED <<num_sections_done, section_processed, processed_section, duplicate, given, outcome>>
    BY <1>11 DEF FinalizeDecoding, Flush, StartDrawing, Usable, frameVars, sessionVars
  <2>2. outcome \notin {"image", "error"}
    BY <1>1, <2>1 DEF RecordsInv
  <2> QED BY <1>2, <2>1, <2>2 DEF InCall
<1>12. ASSUME NEW t \in Threads, ThreadStep(t) PROVE RecordsInv'
  <2>1. UNCHANGED <<num_sections_done, section_processed, processed_section, duplicate, given,
                    outcome, phase>>
    BY <1>1, <1>12, ThreadsKeepCall DEF sessionVars
  <2> QED BY <1>1, <2>1 DEF RecordsInv, InCall
<1> QED
  BY <1>3, <1>5, <1>6, <1>7, <1>8, <1>9, <1>10, <1>11, <1>12 DEF Next, CallStep, DecoderStep

-----------------------------------------------------------------------------
(* What has been decoded.                                                  *)

decodedVars ==
  <<decoded_dc_global, decoded_dc_groups, finalized_dc, decoded_ac_global, decoded_passes>>

LEMMA DecodedStays ==
  ASSUME frame' = frame, UNCHANGED decodedVars
  PROVE  \A part : Decoded(part)' <=> Decoded(part)
<1>1. Groups' = Groups
  BY FrameStays
<1> QED BY <1>1 DEF Decoded, decodedVars, PassOf

\* The steps that decode nothing.
LEMMA DecodesNothing ==
  ASSUME TypeOK,
         \/ ProcessInput \/ EndGroups \/ Mark \/ FinalizeDecoding \/ Flush
         \/ ReportDC \/ ReportPasses \/ NeedMoreInput \/ FullImage \/ EndDrawing
         \/ \E t \in Threads : DrawGroup(t) \/ Draw(t)
  PROVE  UNCHANGED decodedVars
  BY ReturnsIs DEF decodedVars, ProcessInput, EndGroups, Mark, FinalizeDecoding, Flush, StartDrawing,
         DrawGroup, Draw, frameVars

\* In a step that decodes a group, the passes it is decoded for are added.
LEMMA DecodedByGroup ==
  ASSUME TypeOK, NEW t \in Threads, DecodeGroup(t)
  PROVE  \E g \in todo :
           /\ g \in Groups /\ phase = "groups"
           /\ UNCHANGED <<frame, decoded_dc_global, decoded_dc_groups, finalized_dc, decoded_ac_global>>
           /\ \/ decoded_passes' = decoded_passes /\ done' = done /\ has_error' = TRUE
              \/ DecodesGroup(g)
  BY DecodeGroupIs

LEMMA DecodedGrows ==
  ASSUME IInv, Next
  PROVE  \A part : Decoded(part) => Decoded(part)'
<1>1. /\ TypeOK /\ frame' = frame /\ decoded_passes \in [Groups -> 0 .. frame.passes]
      /\ desired \in [Groups -> 0 .. frame.passes] /\ frame.passes \in Nat
  BY NextKeepsFrame, FrameType DEF IInv, TypeOK, FrameTypeOK, CallTypeOK
<1>2. Groups' = Groups
  BY <1>1, FrameStays
<1> SUFFICES /\ decoded_dc_global => decoded_dc_global'
             /\ decoded_ac_global => decoded_ac_global'
             /\ decoded_dc_groups \subseteq decoded_dc_groups'
             /\ \A g \in Groups : decoded_passes'[g] \in Int /\ decoded_passes[g] <= decoded_passes'[g]
  <2> SUFFICES ASSUME NEW part, Decoded(part) PROVE Decoded(part)'
    OBVIOUS
  <2>1. CASE \E g \in Groups : \E n \in 0 .. decoded_passes[g] - 1 : part = PassOf(g, n)
    <3>0. PICK g \in Groups : \E n \in 0 .. decoded_passes[g] - 1 : part = PassOf(g, n)
      BY <2>1
    <3>1. PICK n \in 0 .. decoded_passes[g] - 1 : part = PassOf(g, n)
      BY <3>0
    <3>2. n \in 0 .. decoded_passes'[g] - 1
      BY <1>1, <3>1
    <3> QED BY <1>2, <3>1, <3>2 DEF Decoded, PassOf
  <2>2. CASE ~ \E g \in Groups : \E n \in 0 .. decoded_passes[g] - 1 : part = PassOf(g, n)
    BY <2>2 DEF Decoded, PassOf
  <2> QED BY <2>1, <2>2
<1>3. CASE UNCHANGED decodedVars \/ FinalizeDC
  <2>1. UNCHANGED <<decoded_dc_global, decoded_dc_groups, decoded_ac_global, decoded_passes>>
    BY <1>3, FinalizeDCIs DEF decodedVars
  <2> QED BY <1>1, <2>1
<1>4. CASE DecodeDC
  <2>1. decoded_passes' = decoded_passes /\ decoded_ac_global' = decoded_ac_global
    BY <1>4, DecodeDCIs
  <2>2. (decoded_dc_global => decoded_dc_global') /\ decoded_dc_groups \subseteq decoded_dc_groups'
    BY <1>4, DecodeDCIs DEF GlobalDC
  <2> QED BY <1>1, <2>1, <2>2
<1>6. CASE StartGroups
  <2>1. decoded_passes' = decoded_passes /\ decoded_dc_global' = decoded_dc_global
        /\ decoded_dc_groups' = decoded_dc_groups
    BY <1>6 DEF StartGroups
  <2>2. decoded_ac_global => decoded_ac_global'
    BY <1>6, StartGroupsIs
  <2> QED BY <1>1, <2>1, <2>2
<1>7. ASSUME NEW t \in Threads, DecodeGroup(t)
      PROVE  /\ decoded_dc_global => decoded_dc_global'
             /\ decoded_ac_global => decoded_ac_global'
             /\ decoded_dc_groups \subseteq decoded_dc_groups'
             /\ \A g \in Groups : decoded_passes'[g] \in Int /\ decoded_passes[g] <= decoded_passes'[g]
  <2>1. PICK g \in Groups :
           /\ UNCHANGED <<decoded_dc_global, decoded_dc_groups, decoded_ac_global>>
           /\ \/ decoded_passes' = decoded_passes
              \/ decoded_passes' = [decoded_passes EXCEPT ![g] = @ + desired[g]]
    BY <1>1, <1>7, DecodedByGroup DEF DecodesGroup
  <2>2. ASSUME NEW h \in Groups
        PROVE  decoded_passes'[h] \in Int /\ decoded_passes[h] <= decoded_passes'[h]
    <3>1. decoded_passes[h] \in Nat /\ desired[h] \in Nat
      BY <1>1
    <3>2. decoded_passes'[h] = decoded_passes[h] \/ decoded_passes'[h] = decoded_passes[h] + desired[h]
      BY <1>1, <2>1
    <3> QED BY <3>1, <3>2
  <2> QED BY <2>1, <2>2
<1> QED
  BY <1>1, <1>3, <1>4, <1>6, <1>7, DecodesNothing DEF Next, CallStep, DecoderStep, ThreadStep

\* What a step decodes is not damaged.
LEMMA DecodedIsWhole ==
  ASSUME IInv, Next
  PROVE  \A part \in frame.broken : ~ Decoded(part)'
<1>1. /\ TypeOK /\ OrderInv /\ frame' = frame /\ decoded_passes \in [Groups -> 0 .. frame.passes]
      /\ desired \in [Groups -> 0 .. frame.passes] /\ frame.passes \in Nat
  BY NextKeepsFrame, FrameType DEF IInv, TypeOK, FrameTypeOK, CallTypeOK
<1>2. Groups' = Groups
  BY <1>1, FrameStays
<1>3. SUFFICES ASSUME NEW part, ~ Decoded(part), Decoded(part)'
               PROVE  part \notin frame.broken
  BY <1>1 DEF OrderInv
<1>4. CASE UNCHANGED decodedVars \/ FinalizeDC
  <2>1. UNCHANGED <<decoded_dc_global, decoded_dc_groups, decoded_ac_global, decoded_passes>>
    BY <1>4, FinalizeDCIs DEF decodedVars
  <2> QED BY <1>2, <1>3, <2>1 DEF Decoded, PassOf
<1>5. CASE DecodeDC
  <2>1. decoded_passes' = decoded_passes /\ decoded_ac_global' = decoded_ac_global
    BY <1>5, DecodeDCIs
  <2>2. \/ part = <<"dc global">> /\ decoded_dc_global' /\ ~ decoded_dc_global
        \/ \E i \in decoded_dc_groups' \ decoded_dc_groups : part = <<"dc", i>>
    BY <1>2, <1>3, <2>1 DEF Decoded, PassOf
  <2>3. CASE PartsDC \cap frame.broken = {}
    <3>1. decoded_dc_global' = GlobalDC /\ decoded_dc_groups' = decoded_dc_groups \cup GroupsDC
      BY <1>5, <2>3, DecodeDCIs
    <3>2. part \in PartsDC
      BY <2>2, <3>1 DEF PartsDC, GlobalDC
    <3> QED BY <2>3, <3>2
  <2>4. CASE PartsDC \cap frame.broken # {}
    <3>1. decoded_dc_global' = (decoded_dc_global \/ <<"dc global">> \in PartsDC \ frame.broken)
      BY <1>5, <2>4, DecodeDCIs
    <3>2. \A i \in decoded_dc_groups' \ decoded_dc_groups : <<"dc", i>> \notin frame.broken
      BY <1>5, <2>4, DecodeDCIs
    <3> QED BY <2>2, <3>1, <3>2
  <2> QED BY <2>3, <2>4
<1>6. CASE StartGroups
  <2>1. decoded_passes' = decoded_passes /\ decoded_dc_global' = decoded_dc_global
        /\ decoded_dc_groups' = decoded_dc_groups
    BY <1>6 DEF StartGroups
  <2>2. part = <<"ac global">> /\ decoded_ac_global' /\ ~ decoded_ac_global
    BY <1>2, <1>3, <2>1 DEF Decoded, PassOf
  <2>3. <<"ac global">> \notin frame.broken
    BY <1>6, <2>2, StartGroupsIs
  <2> QED BY <2>2, <2>3
<1>7. ASSUME NEW t \in Threads, DecodeGroup(t)
      PROVE  part \notin frame.broken
  <2>1. PICK g \in Groups :
           /\ UNCHANGED <<frame, decoded_dc_global, decoded_dc_groups, decoded_ac_global>>
           /\ decoded_passes' = decoded_passes \/ DecodesGroup(g)
    BY <1>1, <1>7, DecodedByGroup
  <2>2. PICK h \in Groups : \E n \in 0 .. decoded_passes'[h] - 1 :
                              part = PassOf(h, n) /\ n \notin 0 .. decoded_passes[h] - 1
    BY <1>2, <1>3, <2>1 DEF Decoded
  <2>3. PICK n \in 0 .. decoded_passes'[h] - 1 : part = PassOf(h, n) /\ n \notin 0 .. decoded_passes[h] - 1
    BY <2>2
  <2>4. DecodesGroup(g) /\ h = g
    BY <1>1, <2>1, <2>3 DEF DecodesGroup
  <2>5. decoded_passes'[g] = decoded_passes[g] + desired[g]
    BY <1>1, <2>4 DEF DecodesGroup
  <2>6. n - decoded_passes[g] \in 0 .. desired[g] - 1 /\ n = decoded_passes[g] + (n - decoded_passes[g])
    BY <1>1, <2>3, <2>4, <2>5
  <2>7. part \in WantedParts(g)
    BY <2>3, <2>4, <2>6 DEF WantedParts
  <2> QED BY <2>4, <2>7 DEF DecodesGroup
<1> QED
  BY <1>1, <1>4, <1>5, <1>6, <1>7, DecodesNothing DEF Next, CallStep, DecoderStep, ThreadStep

\* Only a thread that decodes a group notes an error, and a call that returns
\* clears it.
LEMMA ErrorsAre ==
  ASSUME IInv, Next
  PROVE  has_error' => phase' = "groups"
<1>1. TypeOK /\ (has_error => phase = "groups")
  BY DEF IInv, OrderInv
<1>2. CASE EndGroups
  BY <1>2 DEF EndGroups, Fails
<1>3. CASE DecodeDC
  BY <1>1, <1>3, DecodeDCIs DEF Fails
<1>4. CASE StartGroups
  <2>1. phase = "ac" /\ (Fails \/ has_error' = has_error)
    BY <1>4 DEF StartGroups
  <2> QED BY <1>1, <2>1 DEF Fails
<1>5. CASE Mark
  <2>1. phase = "mark" /\ (Fails \/ has_error' = has_error)
    BY <1>5 DEF Mark
  <2> QED BY <1>1, <2>1 DEF Fails
<1>6. CASE ProcessInput \/ FinalizeDC \/ FinalizeDecoding \/ Flush
  <2>1. phase \notin {"groups"} /\ has_error' = has_error
    BY <1>6 DEF ProcessInput, Usable, FinalizeDC, FinalizeDecoding, Flush, StartDrawing
  <2> QED BY <1>1, <2>1
<1>7. CASE ReportDC \/ ReportPasses \/ NeedMoreInput \/ FullImage \/ EndDrawing
  <2>1. has_error' = has_error
    BY <1>7, ReturnsIs
  <2>2. phase # "groups"
    BY <1>7 DEF ReportDC, ReportPasses, NeedMoreInput, FullImage, EndDrawing
  <2> QED BY <1>1, <2>1, <2>2
<1>8. ASSUME NEW t \in Threads, ThreadStep(t)
      PROVE  has_error' => phase' = "groups"
  <2>1. CASE DecodeGroup(t)
    BY <2>1 DEF DecodeGroup
  <2>2. CASE DrawGroup(t) \/ Draw(t)
    BY <1>1, <2>2 DEF DrawGroup, Draw, callVars
  <2> QED BY <1>8, <2>1, <2>2 DEF ThreadStep
<1> QED
  BY <1>2, <1>3, <1>4, <1>5, <1>6, <1>7, <1>8 DEF Next, CallStep, DecoderStep

LEMMA OrderStep ==
  ASSUME IInv, Next
  PROVE  OrderInv'
<1>1. /\ TypeOK /\ OrderInv /\ frame' = frame /\ FrameTypeOK' /\ FrameTypeOK
  BY NextKeepsFrame, FrameTypeStep DEF IInv, TypeOK
<1>2. Groups' = Groups
  BY <1>1, FrameStays
<1> DEFINE Dc == decoded_dc_groups # {} => decoded_dc_global
           Final == finalized_dc => decoded_dc_groups = 1 .. frame.dc_groups
           Ac == decoded_ac_global => finalized_dc
           None == ~ decoded_ac_global => \A g \in Groups : decoded_passes[g] = 0
           Runs == phase = "groups" => decoded_ac_global
<1>3. Dc /\ Final /\ Ac /\ None /\ Runs
  BY <1>1 DEF OrderInv
<1>4. ASSUME Dc', Final', Ac', None', Runs' PROVE OrderInv'
  BY <1>1, <1>4, DecodedIsWhole, ErrorsAre DEF OrderInv
<1>5. ASSUME UNCHANGED decodedVars, phase' = "groups" => phase = "groups" PROVE OrderInv'
  BY <1>1, <1>2, <1>3, <1>4, <1>5 DEF decodedVars
<1>6. CASE \/ ProcessInput \/ EndGroups \/ Mark \/ FinalizeDecoding \/ Flush
           \/ ReportDC \/ ReportPasses \/ NeedMoreInput \/ FullImage \/ EndDrawing
  <2>1. phase' # "groups"
    BY <1>6, ReturnsIs DEF ProcessInput, EndGroups, Mark, FinalizeDecoding, Flush, StartDrawing, Fails
  <2> QED BY <1>1, <1>5, <1>6, <2>1, DecodesNothing
<1>7. CASE DecodeDC
  <2>1. UNCHANGED <<finalized_dc, decoded_ac_global, decoded_passes>> /\ phase' # "groups"
    BY <1>7, DecodeDCIs DEF Fails
  <2>2. /\ decoded_dc_groups \subseteq decoded_dc_groups'
        /\ decoded_dc_global => decoded_dc_global'
        /\ decoded_dc_groups' # {} => decoded_dc_groups # {} \/ decoded_dc_global'
    BY <1>7, DecodeDCIs DEF GlobalDC, GroupsDC
  <2>3. Dc'
    BY <1>3, <2>2
  <2>4. Final'
    <3>1. decoded_dc_groups' \subseteq 1 .. frame.dc_groups
      BY <1>1 DEF FrameTypeOK
    <3> QED BY <1>1, <1>3, <2>1, <2>2, <3>1
  <2>5. Ac' /\ None' /\ Runs'
    BY <1>2, <1>3, <2>1
  <2> QED BY <1>4, <2>3, <2>4, <2>5
<1>8. CASE FinalizeDC
  <2>1. /\ UNCHANGED <<decoded_dc_global, decoded_dc_groups, decoded_ac_global, decoded_passes>>
        /\ phase' # "groups"
    BY <1>8, FinalizeDCIs
  <2>5. finalized_dc => finalized_dc'
    BY <1>8, FinalizeDCIs, Zenon
  <2>6. finalized_dc' => finalized_dc \/ decoded_dc_groups = 1 .. frame.dc_groups
    BY <1>8, FinalizeDCIs, Zenon
  <2>2. Dc' /\ None' /\ Runs'
    BY <1>2, <1>3, <2>1
  <2>3. Ac'
    BY <1>3, <2>1, <2>5
  <2>4. Final'
    BY <1>1, <1>3, <2>1, <2>6
  <2> QED BY <1>4, <2>2, <2>3, <2>4
<1>9. CASE StartGroups
  <2>1. UNCHANGED <<decoded_dc_global, decoded_dc_groups, finalized_dc, decoded_passes>>
    BY <1>9 DEF StartGroups
  <2>2. /\ decoded_ac_global => decoded_ac_global'
        /\ decoded_ac_global' => decoded_ac_global \/ finalized_dc
        /\ phase' = "groups" => decoded_ac_global'
    BY <1>9, StartGroupsIs DEF AcGlobal, Fails
  <2>3. Dc' /\ Ac' /\ None' /\ Runs'
    BY <1>2, <1>3, <2>1, <2>2
  <2>4. Final'
    BY <1>1, <1>3, <2>1
  <2> QED BY <1>4, <2>3, <2>4
<1>10. ASSUME NEW t \in Threads, DecodeGroup(t) PROVE OrderInv'
  <2>1. /\ phase = "groups" /\ phase' = "groups"
        /\ UNCHANGED <<decoded_dc_global, decoded_dc_groups, finalized_dc, decoded_ac_global>>
    BY <1>10 DEF DecodeGroup
  <2>2. Dc' /\ Ac' /\ None' /\ Runs'
    BY <1>3, <2>1
  <2>3. Final'
    BY <1>1, <1>3, <2>1
  <2> QED BY <1>4, <2>2, <2>3
<1>11. ASSUME NEW t \in Threads, DrawGroup(t) \/ Draw(t) PROVE OrderInv'
  <2>1. phase' = phase
    BY <1>11 DEF DrawGroup, Draw, callVars
  <2> QED BY <1>1, <1>5, <1>11, <2>1, DecodesNothing
<1> QED
  BY <1>6, <1>7, <1>8, <1>9, <1>10, <1>11 DEF Next, CallStep, DecoderStep, ThreadStep

LEMMA GivenStays ==
  ASSUME frame' = frame, given' = given, duplicate' = duplicate
  PROVE  Given' = Given
  BY DEF Given

LEMMA DesiredStep ==
  ASSUME IInv, Next
  PROVE  DesiredInv'
<1>1. /\ TypeOK /\ DesiredInv /\ frame \in Frames /\ frame' = frame
      /\ decoded_passes \in [Groups -> 0 .. frame.passes]
      /\ desired \in [Groups -> 0 .. frame.passes] /\ frame.passes \in Nat
      /\ todo \subseteq Groups
  BY NextKeepsFrame, FrameType DEF IInv, TypeOK, FrameTypeOK, CallTypeOK
<1>2. Groups' = Groups
  BY <1>1, FrameStays
<1> DEFINE Early(p) == p \in {"dc", "finalize dc", "ac"}
           WantedNext(g) ==
             /\ decoded_passes'[g] + desired'[g] <= frame.passes
             /\ \A k \in 0 .. desired'[g] - 1 : PassOf(g, decoded_passes'[g] + k) \in Given'
<1>3. SUFFICES /\ Early(phase') => \A g \in Groups : WantedNext(g)
               /\ phase' = "groups" => \A g \in todo' : WantedNext(g) /\ desired'[g] > 0
  BY <1>1, <1>2 DEF DesiredInv, Wanted, PassOf
<1>4. ASSUME UNCHANGED <<given, duplicate, desired, decoded_passes>>,
             Early(phase') => Early(phase), phase' # "groups"
      PROVE  Early(phase') => \A g \in Groups : WantedNext(g)
  BY <1>1, <1>4, GivenStays DEF DesiredInv, Wanted
<1>5. CASE ProcessInput
  <2>1. PICK arrived :
           /\ given' = NewSections(arrived)
           /\ duplicate' = NewSections(arrived) \cap processed_section
           /\ desired' = [g \in Groups |-> NewPasses(NewParts(arrived), g)]
           /\ phase' = IF NewSections(arrived) = {} THEN "report" ELSE "dc"
           /\ decoded_passes' = decoded_passes
    BY <1>1, <1>5, ProcessInputIs
  <2>2. Given' = NewParts(arrived)
    <3>1. given' \ duplicate' = NewSections(arrived) \ processed_section
      BY <2>1
    <3> QED BY <1>1, <3>1 DEF Given, NewParts
  <2>3. ASSUME NEW g \in Groups PROVE WantedNext(g)
    <3> DEFINE n == NewPasses(NewParts(arrived), g)
    <3>1. /\ n \in 0 .. frame.passes - decoded_passes[g]
          /\ \A k \in 0 .. n - 1 : PassOf(g, decoded_passes[g] + k) \in NewParts(arrived)
      BY <1>1, NewPassesIs
    <3>2. desired'[g] = n /\ decoded_passes'[g] = decoded_passes[g] /\ decoded_passes[g] \in Nat
      BY <1>1, <2>1
    <3> HIDE DEF n
    <3> QED BY <1>1, <2>2, <3>1, <3>2
  <2> QED BY <2>1, <2>3
<1>6. CASE DecodeDC
  <2>1. CASE Fails
    BY <2>1 DEF Fails
  <2>2. CASE ~ Fails
    <3>1. /\ phase = "dc" /\ phase' = "finalize dc"
          /\ UNCHANGED <<given, duplicate, desired, decoded_passes>>
      BY <1>6, <2>2, DecodeDCIs
    <3> QED BY <1>4, <3>1
  <2> QED BY <2>1, <2>2
<1>7. CASE FinalizeDC
  <2>1. /\ phase = "finalize dc" /\ phase' \in {"mark", "ac"}
        /\ UNCHANGED <<given, duplicate, desired, decoded_passes>>
    BY <1>7, FinalizeDCIs
  <2> QED BY <1>4, <2>1
<1>8. CASE StartGroups
  <2>1. CASE Fails \/ phase' = "mark"
    BY <2>1 DEF Fails
  <2>2. CASE ~ (Fails \/ phase' = "mark")
    <3>1. /\ phase = "ac" /\ phase' = "groups" /\ todo' = Touched
          /\ desired' = DesiredUpTo(NextNumPassesToPause)
      BY <1>8, <2>2, StartGroupsIs DEF Starts
    <3>2. given' = given /\ duplicate' = duplicate /\ decoded_passes' = decoded_passes
      BY <1>8, <2>2 DEF StartGroups
    <3>3. Given' = Given
      BY <1>1, <3>2, GivenStays
    <3>4. ASSUME NEW g \in Groups, desired'[g] # 0
          PROVE  WantedNext(g) /\ desired'[g] > 0
      <4>1. desired'[g] \in 0 .. frame.passes /\ desired'[g] <= desired[g]
        BY <3>1, DesiredIs
      <4>2. decoded_passes[g] \in Nat /\ desired[g] \in Nat
        BY <1>1
      <4>3. /\ decoded_passes[g] + desired[g] <= frame.passes
            /\ \A k \in 0 .. desired[g] - 1 : PassOf(g, decoded_passes[g] + k) \in Given
        BY <1>1, <3>1 DEF DesiredInv, Wanted
      <4> QED BY <1>1, <3>2, <3>3, <3>4, <4>1, <4>2, <4>3
    <3> QED BY <3>1, <3>4 DEF Touched
  <2> QED BY <2>1, <2>2
<1>9. CASE \/ EndGroups \/ Mark \/ FinalizeDecoding \/ Flush
           \/ ReportDC \/ ReportPasses \/ NeedMoreInput \/ FullImage \/ EndDrawing
  BY <1>9, ReturnsIs DEF EndGroups, Mark, FinalizeDecoding, Flush, StartDrawing, Fails
<1>10. ASSUME NEW t \in Threads, DecodeGroup(t)
       PROVE  /\ Early(phase') => \A g \in Groups : WantedNext(g)
              /\ phase' = "groups" => \A g \in todo' : WantedNext(g) /\ desired'[g] > 0
  <2>1. PICK g \in todo :
           /\ phase = "groups" /\ todo' = todo \ {g}
           /\ UNCHANGED <<phase, given, duplicate, desired>>
           /\ \/ decoded_passes' = decoded_passes
              \/ decoded_passes' = [decoded_passes EXCEPT ![g] = @ + desired[g]]
    BY <1>1, <1>10, DecodeGroupIs DEF DecodesGroup
  <2>2. \A h \in todo' : h \in todo /\ decoded_passes'[h] = decoded_passes[h]
    BY <1>1, <2>1
  <2>3. Given' = Given
    BY <1>1, <2>1, GivenStays
  <2> QED BY <1>1, <2>1, <2>2, <2>3 DEF DesiredInv, Wanted
<1>11. ASSUME NEW t \in Threads, DrawGroup(t) \/ Draw(t)
       PROVE  /\ Early(phase') => \A g \in Groups : WantedNext(g)
              /\ phase' = "groups" => \A g \in todo' : WantedNext(g) /\ desired'[g] > 0
  <2>1. /\ UNCHANGED <<phase, given, duplicate, desired, decoded_passes>>
        /\ phase \in {"final", "flush"} \/ todo' = todo
    BY <1>11 DEF DrawGroup, Draw, callVars, frameVars
  <2>2. Given' = Given
    BY <1>1, <2>1, GivenStays
  <2> QED BY <1>1, <2>1, <2>2 DEF DesiredInv, Wanted
<1> HIDE DEF WantedNext
<1> QED
  BY <1>5, <1>6, <1>7, <1>8, <1>9, <1>10, <1>11 DEF Next, CallStep, DecoderStep, ThreadStep

\* A frame in one section.
LEMMA SingleSection ==
  ASSUME TypeOK, RecordsInv, Single
  PROVE  /\ frame.passes = 1 /\ Groups = {0} /\ Sections = {1} /\ frame.toc[1] = PartsOf(frame)
         /\ PassOf(0, 0) \in PartsOf(frame)
         /\ given # {} => Given = PartsOf(frame) /\ \A part \in PartsOf(frame) : Holding({part}) = given
         /\ ~ (prog_detail >= 1) /\ prog_detail < 2
<1>1. /\ frame \in Frames /\ given \subseteq Sections /\ duplicate = {}
      /\ prog_detail \in 0 .. 3 /\ ~ (prog_detail >= 1)
  BY DEF TypeOK, CallTypeOK, SessionTypeOK, RecordsInv
<1>2. frame.passes = 1 /\ Groups = {0} /\ frame.toc[1] = PartsOf(frame)
  BY <1>1, SectionsAre
<1>3. Sections = {1}
  BY DEF Sections, Single
<1>4. PassOf(0, 0) \in PartsOf(frame)
  <2>1. GroupsOf(frame) = {0} /\ 0 \in 0 .. frame.passes - 1
    BY <1>1, <1>2, GroupsFacts
  <2> QED BY <2>1 DEF PassOf, PartsOf
<1>5. ASSUME given # {}
      PROVE  Given = PartsOf(frame) /\ \A part \in PartsOf(frame) : Holding({part}) = given
  <2>1. given = {1} /\ given \ duplicate = {1}
    BY <1>1, <1>3, <1>5
  <2>2. Given = PartsOf(frame)
    BY <1>2, <2>1 DEF Given
  <2>3. \A part \in PartsOf(frame) : Holding({part}) = given
    BY <1>2, <2>1 DEF Holding
  <2> QED BY <2>2, <2>3
<1> QED BY <1>1, <1>2, <1>3, <1>4, <1>5

LEMMA SingleStep ==
  ASSUME IInv, Next
  PROVE  SingleInv'
<1> DEFINE Early(p) == p \in {"dc", "finalize dc", "ac"}
           During(p) == p \in {"dc", "finalize dc", "ac", "groups", "mark"}
<1>1. /\ TypeOK /\ RecordsInv /\ SingleInv /\ OrderInv /\ frame \in Frames /\ frame' = frame
      /\ decoded_passes \in [Groups -> 0 .. frame.passes]
      /\ desired \in [Groups -> 0 .. frame.passes] /\ TypeOK' /\ RecordsInv'
  BY NextKeepsFrame, TypeStep, RecordsStep DEF IInv, TypeOK, FrameTypeOK, CallTypeOK
<1>2. Groups' = Groups /\ Single' = Single /\ Sections' = Sections
  BY <1>1, FrameStays
<1>3. (InCall <=> During(phase)) /\ (InCall' <=> During(phase'))
  BY DEF InCall
<1> DEFINE Goal ==
             /\ During(phase') => given' # {}
             /\ Single => Groups = {0} /\ frame.passes = 1
             /\ Single /\ Early(phase') => decoded_passes'[0] = 0 /\ desired'[0] = 1
             /\ Single /\ phase' = "finalize dc" =>
                  decoded_dc_global' /\ decoded_dc_groups' = 1 .. frame.dc_groups
             /\ Single /\ phase' = "ac" => finalized_dc'
             /\ Single /\ phase' = "groups" => decoded_passes'[0] = 1 \/ 0 \in todo' \/ has_error'
             /\ Single /\ phase' = "mark" => decoded_passes'[0] = 1
             /\ Single /\ During(phase') /\ phase' # "dc" => done' = given'
             /\ /\ Single /\ ~ During(phase') /\ section_processed' = {}
                /\ phase' = "idle" => outcome' # "error"
                => decoded_passes'[0] = 0
<1>4. SUFFICES Goal
  BY <1>1, <1>2, <1>3 DEF SingleInv
<1>5. Single => Groups = {0} /\ frame.passes = 1
  BY <1>1 DEF SingleInv
<1>6. ASSUME Fails PROVE Goal
  BY <1>5, <1>6 DEF Fails
<1>7. CASE ProcessInput
  <2>1. PICK arrived :
           /\ phase = "idle" /\ outcome \notin {"image", "error"}
           /\ given' = NewSections(arrived)
           /\ done' = {}
           /\ desired' = [g \in Groups |-> NewPasses(NewParts(arrived), g)]
           /\ phase' = IF NewSections(arrived) = {} THEN "report" ELSE "dc"
           /\ NewSections(arrived) \subseteq Sections
           /\ processed_section = section_processed
           /\ UNCHANGED <<section_processed, outcome, decoded_passes>>
    BY <1>1, <1>7, ProcessInputIs DEF RecordsInv, InCall
  <2>2. ASSUME Single, given' # {}
        PROVE  decoded_passes'[0] = 0 /\ desired'[0] = 1
    <3>1. Sections = {1} /\ frame.toc[1] = PartsOf(frame) /\ PassOf(0, 0) \in PartsOf(frame)
          /\ Groups = {0} /\ frame.passes = 1
      BY <1>1, <2>2, SingleSection
    <3>2. NewSections(arrived) = {1}
      BY <2>1, <2>2, <3>1
    <3>3. section_processed = {}
      BY <1>1, <3>1, <3>2 DEF NewSections, TypeOK, SessionTypeOK
    <3>4. decoded_passes[0] = 0
      BY <1>1, <2>1, <2>2, <3>3 DEF SingleInv, InCall
    <3>5. NewParts(arrived) = PartsOf(frame)
      BY <2>1, <3>1, <3>2, <3>3 DEF NewParts
    <3> DEFINE n == NewPasses(NewParts(arrived), 0)
    <3>6. /\ n \in 0 .. 1 - 0
          /\ n < 1 - 0 => PassOf(0, 0 + n) \notin NewParts(arrived)
      BY <1>1, <3>1, <3>4, NewPassesIs
    <3>7. n = 1
      <4> HIDE DEF n
      <4> QED BY <3>1, <3>5, <3>6
    <3> QED BY <2>1, <3>1, <3>4, <3>7
  <2>3. Single /\ section_processed = {} => decoded_passes[0] = 0
    BY <1>1, <2>1 DEF SingleInv, InCall
  <2> QED BY <1>5, <2>1, <2>2, <2>3
<1>8. CASE DecodeDC
  <2>1. CASE Fails
    BY <1>6, <2>1
  <2>2. CASE ~ Fails
    <3>1. /\ phase = "dc" /\ phase' = "finalize dc"
          /\ decoded_dc_global' = GlobalDC
          /\ decoded_dc_groups' = decoded_dc_groups \cup GroupsDC
          /\ done' = done \cup Holding(PartsDC)
          /\ UNCHANGED <<given, desired, decoded_passes>>
      BY <1>8, <2>2, DecodeDCIs
    <3>2. given # {}
      BY <1>1, <3>1 DEF SingleInv, InCall
    <3>3. ASSUME Single
          PROVE  /\ decoded_dc_global' /\ decoded_dc_groups' = 1 .. frame.dc_groups
                 /\ done' = given'
      <4>1. Given = PartsOf(frame) /\ \A part \in PartsOf(frame) : Holding({part}) = given
        BY <1>1, <3>2, <3>3, SingleSection
      <4>p. <<"dc global">> \in PartsOf(frame) /\ \A i \in 1 .. frame.dc_groups : <<"dc", i>> \in PartsOf(frame)
        BY DEF PartsOf
      <4>2. <<"dc global">> \in Given /\ Holding({<<"dc global">>}) = given
        <5>1. <<"dc global">> \in Given
          BY <4>1, <4>p
        <5>2. Holding({<<"dc global">>}) = given
          BY <4>1, <4>p
        <5> QED BY <5>1, <5>2
      <4>3. GlobalDC
        BY <4>2, Zenon DEF GlobalDC
      <4>4. GroupsDC = 1 .. frame.dc_groups
        <5>1. \A i \in 1 .. frame.dc_groups : <<"dc", i>> \in Given
          BY <4>1, <4>p
        <5> QED BY <4>3, <5>1 DEF GroupsDC, DcGroupsGiven
      <4>5. given \subseteq Holding(PartsDC) /\ Holding(PartsDC) \subseteq given
        BY <4>1, <4>2 DEF PartsDC, Holding
      <4>6. decoded_dc_groups \subseteq 1 .. frame.dc_groups /\ done \subseteq given
        BY <1>1 DEF TypeOK, FrameTypeOK, CallTypeOK
      <4> QED BY <3>1, <4>3, <4>4, <4>5, <4>6
    <3>4. Single => decoded_passes[0] = 0 /\ desired[0] = 1
      BY <1>1, <3>1 DEF SingleInv
    <3> QED BY <1>5, <3>1, <3>2, <3>3, <3>4
  <2> QED BY <2>1, <2>2
<1>9. CASE FinalizeDC
  <2>1. /\ phase = "finalize dc"
        /\ UNCHANGED <<given, done, desired, decoded_passes, section_processed, outcome>>
        /\ phase' \in {"mark", "ac"}
        /\ phase' = "mark" => prog_detail >= 1
    BY <1>9, FinalizeDCIs DEF sessionVars
  <2>2. decoded_dc_groups = 1 .. frame.dc_groups => finalized_dc'
    <3>1. CASE finalized_dc
      BY <1>9, <3>1, FinalizeDCIs, Zenon
    <3>2. CASE ~ finalized_dc
      BY <1>9, <3>2, FinalizeDCIs, Zenon
    <3> QED BY <3>1, <3>2
  <2>3. given # {}
    BY <1>1, <2>1 DEF SingleInv, InCall
  <2>4. Single => phase' = "ac"
    BY <1>1, <2>1, SingleSection
  <2>5. Single => /\ decoded_passes[0] = 0 /\ desired[0] = 1 /\ done = given
                  /\ decoded_dc_groups = 1 .. frame.dc_groups
    BY <1>1, <2>1 DEF SingleInv, InCall
  <2> QED BY <1>5, <2>1, <2>2, <2>3, <2>4, <2>5
<1>10. CASE StartGroups
  <2>1. CASE Fails
    BY <1>6, <2>1
  <2>2. CASE ~ Fails
    <3>1. /\ phase = "ac" /\ phase' \in {"groups", "mark"}
          /\ decoded_ac_global' = (decoded_ac_global \/ AcGlobal)
          /\ done' = IF AcGlobal THEN done \cup Holding({<<"ac global">>}) ELSE done
          /\ desired' = DesiredUpTo(NextNumPassesToPause)
          /\ decoded_ac_global' => phase' = "groups" /\ todo' = Touched
      BY <1>10, <2>2, StartGroupsIs DEF Starts
    <3>2. UNCHANGED <<given, decoded_passes>>
      BY <1>10, <2>2 DEF StartGroups
    <3>3. given # {} /\ done \subseteq given
      BY <1>1, <3>1 DEF SingleInv, InCall, TypeOK, CallTypeOK
    <3>4. Single => /\ decoded_passes[0] = 0 /\ desired[0] = 1 /\ done = given /\ finalized_dc
                    /\ prog_detail < 2
      BY <1>1, <3>1, SingleSection DEF SingleInv, InCall
    <3>5. done' \subseteq done \cup given
      BY <3>1 DEF Holding
    <3>6. ASSUME Single PROVE decoded_ac_global'
      <4>1. <<"ac global">> \in Given
        <5>1. Given = PartsOf(frame)
          BY <1>1, <3>3, <3>6, SingleSection
        <5>2. <<"ac global">> \in PartsOf(frame)
          BY DEF PartsOf
        <5> QED BY <5>1, <5>2
      <4> QED BY <3>1, <3>4, <3>6, <4>1 DEF AcGlobal
    <3>7. ASSUME Single PROVE 0 \in todo'
      <4>1. desired'[0] = 1
        <5>1. 0 \in Groups
          BY <1>5, <3>7
        <5> DEFINE new == DesiredUpTo(NextNumPassesToPause)
        <5>2. \A g \in Groups : prog_detail < 2 => new[g] = desired[g]
          BY <3>1, DesiredIs
        <5>3. new[0] = 1
          BY <3>4, <3>7, <5>1, <5>2
        <5> QED BY <3>1, <5>3
      <4>2. 0 \in Touched
        BY <1>5, <3>7, <4>1 DEF Touched
      <4> QED BY <3>1, <3>6, <3>7, <4>2
    <3>8. done \subseteq done'
      BY <3>1
    <3> QED BY <1>5, <3>1, <3>2, <3>3, <3>4, <3>5, <3>6, <3>7, <3>8
  <2> QED BY <2>1, <2>2
<1>11. CASE EndGroups
  <2>1. CASE Fails
    BY <1>6, <2>1
  <2>2. CASE ~ Fails
    <3>1. /\ phase = "groups" /\ phase' = "mark" /\ todo = {} /\ ~ has_error
          /\ UNCHANGED <<given, done, decoded_passes>>
      BY <1>11, <2>2 DEF EndGroups, frameVars
    <3>2. given # {} /\ (Single => decoded_passes[0] = 1 /\ done = given)
      BY <1>1, <3>1 DEF SingleInv, InCall
    <3> QED BY <1>5, <3>1, <3>2
  <2> QED BY <2>1, <2>2
<1>12. CASE Mark
  <2>1. phase = "mark" /\ duplicate = {}
    BY <1>1, <1>12 DEF Mark, RecordsInv
  <2>2. section_processed' = section_processed \cup done /\ phase' = "report"
    BY <1>12, <2>1 DEF Mark
  <2>3. given # {} /\ (Single => done = given)
    BY <1>1, <2>1 DEF SingleInv, InCall
  <2> QED BY <1>5, <2>2, <2>3
<1>13. CASE ReportDC \/ ReportPasses \/ NeedMoreInput \/ FullImage \/ EndDrawing
  <2>1. /\ phase' = "idle" /\ phase \in {"report", "final", "flush"}
        /\ UNCHANGED <<section_processed, decoded_passes>>
    BY <1>13, ReturnsIs DEF frameVars, ReportDC, ReportPasses, NeedMoreInput, FullImage, EndDrawing
  <2> QED BY <1>1, <1>5, <2>1 DEF SingleInv, InCall
<1>14. CASE FinalizeDecoding \/ Flush
  <2>1. /\ phase' \in {"final", "flush"}
        /\ phase = "report" \/ (phase = "idle" /\ outcome \notin {"image", "error"})
        /\ UNCHANGED <<section_processed, decoded_passes>>
    BY <1>14 DEF FinalizeDecoding, Flush, StartDrawing, Usable, frameVars, sessionVars
  <2> QED BY <1>1, <1>5, <2>1 DEF SingleInv, InCall
<1>15. ASSUME NEW t \in Threads, DecodeGroup(t) PROVE Goal
  <2>1. PICK g \in todo :
           /\ g \in Groups /\ phase = "groups" /\ todo' = todo \ {g} /\ phase' = phase
           /\ given' = given /\ desired' = desired
           /\ \/ has_error' = TRUE /\ decoded_passes' = decoded_passes /\ done' = done
              \/ DecodesGroup(g)
    BY <1>1, <1>15, DecodeGroupIs
  <2>2. given # {} /\ (Single => done = given)
    BY <1>1, <2>1 DEF SingleInv, InCall
  <2>3. done' \subseteq done \cup given /\ done \subseteq done'
    BY <2>1 DEF DecodesGroup, Holding
  <2>4. ASSUME Single PROVE decoded_passes'[0] = 1 \/ has_error'
    <3>1. g = 0 /\ Wanted(0) /\ desired[0] > 0 /\ Groups = {0} /\ frame.passes = 1
      BY <1>1, <1>5, <2>1, <2>4 DEF IInv, DesiredInv
    <3>2. decoded_passes[0] + desired[0] = 1
      BY <1>1, <3>1 DEF Wanted
    <3> QED BY <1>1, <2>1, <3>1, <3>2 DEF DecodesGroup
  <2> QED BY <1>5, <2>1, <2>2, <2>3, <2>4
<1>16. ASSUME NEW t \in Threads, DrawGroup(t) \/ Draw(t) PROVE Goal
  <2>1. /\ UNCHANGED <<phase, given, done, desired, decoded_passes, section_processed, outcome,
                       has_error, decoded_dc_groups>>
        /\ decoded_dc_global' = decoded_dc_global /\ finalized_dc' = finalized_dc
        /\ phase \in {"final", "flush"} \/ todo' = todo
    BY <1>16 DEF DrawGroup, Draw, callVars, frameVars, sessionVars
  <2> QED BY <1>1, <1>5, <2>1 DEF SingleInv, InCall
<1> HIDE DEF Goal
<1> QED
  BY <1>7, <1>8, <1>9, <1>10, <1>11, <1>12, <1>13, <1>14, <1>15, <1>16
     DEF Next, CallStep, DecoderStep, ThreadStep

-----------------------------------------------------------------------------
(* What is done is decoded.                                                *)

\* The sections that hold a part hold nothing else, in a frame of many.
LEMMA HoldingIs ==
  ASSUME TypeOK, NEW parts
  PROVE  /\ Holding(parts) \subseteq given
         /\ ~ Single => \A i \in Holding(parts) : frame.toc[i] \subseteq parts
<1>1. frame \in Frames /\ given \subseteq Sections
  BY DEF TypeOK, CallTypeOK
<1>2. ASSUME ~ Single, NEW i \in Holding(parts)
      PROVE  frame.toc[i] \subseteq parts
  <2>1. i \in Sections /\ frame.toc[i] \cap parts # {}
    BY <1>1 DEF Holding
  <2>2. PICK part : frame.toc[i] = {part}
    BY <1>1, <1>2, <2>1, SectionsAre
  <2> QED BY <2>1, <2>2
<1> QED BY <1>2 DEF Holding

\* The parts of a frame, one kind at a time.
GlobalParts == {<<"dc global">>, <<"ac global">>}
DcParts == {<<"dc", i>> : i \in 1 .. frame.dc_groups}
AcParts == {<<"ac", g, n>> : g \in GroupsOf(frame), n \in 0 .. frame.passes - 1}

LEMMA KindsOfParts ==
  PartsOf(frame) = GlobalParts \cup DcParts \cup AcParts
  BY DEF PartsOf, GlobalParts, DcParts, AcParts

LEMMA PartsAre ==
  ASSUME NEW part \in PartsOf(frame)
  PROVE  \/ part = <<"dc global">> \/ part = <<"ac global">>
         \/ \E i \in 1 .. frame.dc_groups : part = <<"dc", i>>
         \/ \E g \in GroupsOf(frame) : \E n \in 0 .. frame.passes - 1 : part = <<"ac", g, n>>
<1>1. PartsOf(frame) = GlobalParts \cup DcParts \cup AcParts
  BY KindsOfParts
<1>2. CASE part \in GlobalParts
  BY <1>2 DEF GlobalParts
<1>3. CASE part \in DcParts
  BY <1>3 DEF DcParts
<1>4. CASE part \in AcParts
  <2>1. \E g \in GroupsOf(frame) : \E n \in 0 .. frame.passes - 1 : part = <<"ac", g, n>>
    BY <1>4 DEF AcParts
  <2> QED BY <2>1
<1> QED BY <1>1, <1>2, <1>3, <1>4

\* A frame is decoded when its groups have all of their passes.
LEMMA WholeFrame ==
  ASSUME TypeOK, OrderInv, decoded_ac_global, \A g \in Groups : decoded_passes[g] = frame.passes
  PROVE  \A part \in PartsOf(frame) : Decoded(part)
<1>1. frame \in Frames /\ finalized_dc
  BY DEF TypeOK, OrderInv
<1>2. decoded_dc_groups = 1 .. frame.dc_groups
  BY <1>1 DEF OrderInv
<1>3. frame.dc_groups \in Nat \ {0} /\ Groups = GroupsOf(frame)
  BY <1>1, FrameType, GroupsFacts
<1>4. decoded_dc_groups # {}
  BY <1>2, <1>3
<1>5. decoded_dc_global
  BY <1>4 DEF OrderInv
<1>6. SUFFICES ASSUME NEW part \in PartsOf(frame) PROVE Decoded(part)
  OBVIOUS
<1>7. CASE part = <<"dc global">> \/ part = <<"ac global">>
  BY <1>5, <1>7 DEF Decoded
<1>8. CASE \E i \in 1 .. frame.dc_groups : part = <<"dc", i>>
  BY <1>2, <1>8 DEF Decoded
<1>9. CASE \E g \in GroupsOf(frame) : \E n \in 0 .. frame.passes - 1 : part = <<"ac", g, n>>
  BY <1>3, <1>9 DEF Decoded, PassOf
<1>10. \/ part = <<"dc global">> \/ part = <<"ac global">>
       \/ \E i \in 1 .. frame.dc_groups : part = <<"dc", i>>
       \/ \E g \in GroupsOf(frame) : \E n \in 0 .. frame.passes - 1 : part = <<"ac", g, n>>
  BY <1>6, PartsAre
<1> QED BY <1>7, <1>8, <1>9, <1>10

LEMMA DoneStep ==
  ASSUME IInv, Next
  PROVE  DoneInv'
<1> DEFINE Now(part) == Decoded(part)'
           Whole(S) == \A i \in S : \A part \in frame.toc[i] : Decoded(part)
           WholeNow(S) == \A i \in S : \A part \in frame.toc[i] : Now(part)
<1>1. /\ TypeOK /\ RecordsInv /\ SingleInv /\ OrderInv /\ DoneInv /\ frame \in Frames /\ frame' = frame
      /\ decoded_passes \in [Groups -> 0 .. frame.passes]
      /\ desired \in [Groups -> 0 .. frame.passes] /\ SingleInv' /\ OrderInv'
  BY NextKeepsFrame, SingleStep, OrderStep DEF IInv, TypeOK, FrameTypeOK, CallTypeOK
<1>2. Groups' = Groups /\ (Single' <=> Single)
  BY <1>1, FrameStays DEF Single
<1>3. \A part : Decoded(part) => Now(part)
  BY DecodedGrows
<1>4. ASSUME NEW S, Whole(S) PROVE WholeNow(S)
  BY <1>3, <1>4
<1>5. Whole(section_processed) /\ WholeNow(section_processed)
  BY <1>1, <1>4 DEF DoneInv
<1> HIDE DEF Now
<1> DEFINE Goal ==
             /\ WholeNow(section_processed')
             /\ phase' \in {"finalize dc", "ac", "groups"} /\ ~ Single => WholeNow(done')
             /\ phase' = "mark" => WholeNow(done')
             /\ phase' = "dc" => done' = {}
             /\ phase' = "final" \/ outcome' = "image" => num_sections_done' = Len(frame.toc)
<1>6. SUFFICES Goal
  BY <1>1, <1>2 DEF DoneInv, HasDecodedAll, Now
<1>7. phase # "idle" => outcome # "image"
  BY <1>1 DEF RecordsInv
<1>8. outcome = "image" => num_sections_done = Len(frame.toc)
  BY <1>1 DEF DoneInv, HasDecodedAll
<1>9. ASSUME Fails PROVE Goal
  BY <1>5, <1>9 DEF Fails
<1>10. CASE ProcessInput
  <2>1. /\ outcome \notin {"image", "error"} /\ section_processed' = section_processed
        /\ outcome' = outcome /\ done' = {} /\ phase' \in {"report", "dc"}
    BY <1>1, <1>10, ProcessInputIs
  <2> QED BY <1>5, <2>1
<1>11. CASE DecodeDC
  <2>1. CASE Fails
    BY <1>9, <2>1
  <2>2. CASE ~ Fails
    <3>1. /\ phase = "dc" /\ phase' = "finalize dc" /\ decoded_dc_global' = GlobalDC
          /\ decoded_dc_groups' = decoded_dc_groups \cup GroupsDC
          /\ done' = done \cup Holding(PartsDC)
          /\ section_processed' = section_processed /\ outcome' = outcome
      BY <1>11, <2>2, DecodeDCIs DEF sessionVars
    <3>2. done = {}
      BY <1>1, <3>1 DEF DoneInv
    <3>3. \A part \in PartsDC : Now(part)
      <4>1. <<"dc global">> \in Given => decoded_dc_global'
        BY <3>1 DEF GlobalDC
      <4>2. \A i \in GroupsDC : i \in decoded_dc_groups'
        BY <3>1
      <4> QED BY <4>1, <4>2 DEF PartsDC, Now, Decoded
    <3>4. ~ Single => WholeNow(done')
      BY <1>1, <3>1, <3>2, <3>3, HoldingIs
    <3> QED BY <1>5, <1>7, <3>1, <3>4
  <2> QED BY <2>1, <2>2
<1>12. CASE FinalizeDC
  <2>1. /\ phase = "finalize dc" /\ done' = done /\ section_processed' = section_processed
        /\ outcome' = outcome /\ phase' \in {"mark", "ac"}
        /\ phase' = "mark" => prog_detail >= 1
    BY <1>12, FinalizeDCIs DEF sessionVars
  <2>2. ~ Single => WholeNow(done)
    BY <1>1, <1>4, <2>1 DEF DoneInv
  <2>3. phase' = "mark" => ~ Single
    BY <1>1, <2>1 DEF TypeOK, SessionTypeOK
  <2> QED BY <1>5, <1>7, <2>1, <2>2, <2>3
<1>13. CASE StartGroups
  <2>1. CASE Fails
    BY <1>9, <2>1
  <2>2. CASE ~ Fails
    <3>1. /\ phase = "ac" /\ phase' \in {"groups", "mark"}
          /\ decoded_ac_global' = (decoded_ac_global \/ AcGlobal)
          /\ done' = IF AcGlobal THEN done \cup Holding({<<"ac global">>}) ELSE done
      BY <1>13, <2>2, StartGroupsIs
    <3>2. section_processed' = section_processed /\ outcome' = outcome /\ decoded_passes' = decoded_passes
      BY <1>13, <2>2 DEF StartGroups, sessionVars
    <3>3. ~ Single => WholeNow(done)
      BY <1>1, <1>4, <3>1 DEF DoneInv
    <3>4. AcGlobal => Now(<<"ac global">>)
      BY <3>1 DEF Now, Decoded
    <3>5. ~ Single => WholeNow(done')
      BY <1>1, <3>1, <3>3, <3>4, HoldingIs
    <3>6. ~ (Single /\ phase' = "mark")
      <4>1. Single => decoded_passes[0] = 0
        BY <1>1, <3>1 DEF SingleInv
      <4>2. Single /\ phase' = "mark" => decoded_passes'[0] = 1
        BY <1>1, <1>2 DEF SingleInv
      <4> QED BY <3>2, <4>1, <4>2
    <3> QED BY <1>5, <1>7, <3>1, <3>2, <3>5, <3>6
  <2> QED BY <2>1, <2>2
<1>14. CASE EndGroups
  <2>1. CASE Fails
    BY <1>9, <2>1
  <2>2. CASE ~ Fails
    <3>1. /\ phase = "groups" /\ phase' = "mark" /\ todo = {} /\ ~ has_error
          /\ done' = done /\ section_processed' = section_processed /\ outcome' = outcome
      BY <1>14, <2>2 DEF EndGroups, sessionVars
    <3>2. ~ Single => Whole(done)
      BY <1>1, <3>1 DEF DoneInv
    <3>3. ASSUME Single PROVE Whole(done)
      <4>1. decoded_passes[0] = 1 /\ Groups = {0} /\ frame.passes = 1
        BY <1>1, <3>1, <3>3 DEF SingleInv
      <4>2. decoded_ac_global
        BY <1>1, <3>1 DEF OrderInv
      <4>3. \A part \in PartsOf(frame) : Decoded(part)
        BY <1>1, <4>1, <4>2, WholeFrame
      <4>4. \A i \in done : frame.toc[i] \subseteq PartsOf(frame)
        BY <1>1, SectionsAre DEF TypeOK, CallTypeOK
      <4> QED BY <4>3, <4>4
    <3> QED BY <1>4, <1>5, <1>7, <3>1, <3>2, <3>3
  <2> QED BY <2>1, <2>2
<1>15. CASE Mark
  <2>1. phase = "mark" /\ duplicate = {}
    BY <1>1, <1>15 DEF Mark, RecordsInv
  <2>2. section_processed' = section_processed \cup done /\ phase' = "report" /\ outcome' = outcome
    BY <1>15, <2>1 DEF Mark
  <2>3. WholeNow(done)
    BY <1>1, <1>4, <2>1 DEF DoneInv
  <2> QED BY <1>5, <1>7, <2>1, <2>2, <2>3
<1>16. CASE ReportDC \/ ReportPasses \/ NeedMoreInput \/ FullImage \/ EndDrawing
  <2>1. /\ phase' = "idle" /\ section_processed' = section_processed
        /\ num_sections_done' = num_sections_done
    BY <1>16, ReturnsIs DEF frameVars
  <2>2. outcome' = "image" => FullImage \/ phase = "final" \/ outcome = "image"
    BY <1>16, ReturnsIs
  <2>3. outcome' = "image" => num_sections_done = Len(frame.toc)
    BY <1>1, <2>2 DEF FullImage, HasDecodedAll, DoneInv
  <2> QED BY <1>5, <2>1, <2>3
<1>17. CASE FinalizeDecoding \/ Flush
  <2>1. /\ phase' \in {"final", "flush"} /\ section_processed' = section_processed
        /\ outcome' = outcome /\ num_sections_done' = num_sections_done
        /\ phase' = "final" => num_sections_done = Len(frame.toc)
    BY <1>17 DEF FinalizeDecoding, Flush, StartDrawing, frameVars, sessionVars, HasDecodedAll
  <2> QED BY <1>5, <1>8, <2>1
<1>18. ASSUME NEW t \in Threads, DecodeGroup(t) PROVE Goal
  <2>1. PICK g \in todo :
           /\ g \in Groups /\ phase = "groups" /\ phase' = phase
           /\ outcome' = outcome /\ section_processed' = section_processed
           /\ done' = done \/ DecodesGroup(g)
    BY <1>1, <1>18, DecodeGroupIs DEF sessionVars
  <2>2. ~ Single => WholeNow(done)
    BY <1>1, <1>4, <2>1 DEF DoneInv
  <2>3. ASSUME DecodesGroup(g), NEW part \in WantedParts(g) PROVE Now(part)
    <3>1. PICK k \in 0 .. desired[g] - 1 : part = PassOf(g, decoded_passes[g] + k)
      BY DEF WantedParts
    <3>2. decoded_passes'[g] = decoded_passes[g] + desired[g]
      BY <1>1, <2>1, <2>3 DEF DecodesGroup
    <3>3. decoded_passes[g] + k \in 0 .. decoded_passes'[g] - 1
      BY <1>1, <2>1, <3>1, <3>2
    <3> QED BY <1>2, <2>1, <3>1, <3>3 DEF Now, Decoded, PassOf
  <2>4. ~ Single => WholeNow(done')
    <3>1. CASE done' = done
      BY <2>2, <3>1
    <3>2. CASE DecodesGroup(g)
      <4>1. done' = done \cup Holding(WantedParts(g))
        BY <3>2 DEF DecodesGroup
      <4>2. \A part \in WantedParts(g) : Now(part)
        BY <2>3, <3>2
      <4> QED BY <1>1, <2>2, <4>1, <4>2, HoldingIs
    <3> QED BY <2>1, <3>1, <3>2
  <2> QED BY <1>5, <1>7, <2>1, <2>4
<1>19. ASSUME NEW t \in Threads, DrawGroup(t) \/ Draw(t) PROVE Goal
  <2>1. UNCHANGED <<phase, done, section_processed, outcome, num_sections_done>>
    BY <1>19 DEF DrawGroup, Draw, callVars, frameVars, sessionVars
  <2>2. phase \in {"finalize dc", "ac", "groups"} /\ ~ Single => WholeNow(done)
    BY <1>1, <1>4 DEF DoneInv
  <2>3. phase = "mark" => WholeNow(done)
    BY <1>1, <1>4 DEF DoneInv
  <2> QED BY <1>1, <1>5, <1>8, <2>1, <2>2, <2>3 DEF DoneInv, HasDecodedAll
<1> HIDE DEF Goal
<1> QED
  BY <1>10, <1>11, <1>12, <1>13, <1>14, <1>15, <1>16, <1>17, <1>18, <1>19
     DEF Next, CallStep, DecoderStep, ThreadStep

-----------------------------------------------------------------------------
(* What has been drawn.                                                    *)

\* When every section is done the frame has been decoded, and is not damaged.
LEMMA AllDecoded ==
  ASSUME TypeOK, RecordsInv, OrderInv, DoneInv, HasDecodedAll
  PROVE  /\ section_processed = Sections
         /\ \A part \in PartsOf(frame) : Decoded(part)
         /\ \A g \in Groups : decoded_passes[g] = frame.passes
         /\ frame.broken = {}
<1>1. /\ frame \in Frames /\ section_processed \subseteq Sections
      /\ decoded_passes \in [Groups -> 0 .. frame.passes]
  BY DEF TypeOK, SessionTypeOK, FrameTypeOK
<1>2. section_processed = Sections
  <2>1. Cardinality(section_processed) = Cardinality(Sections) /\ IsFiniteSet(Sections)
    BY <1>1, SectionsAre DEF RecordsInv, HasDecodedAll
  <2> QED BY <1>1, <2>1, FS_Subset
<1>3. \A part \in PartsOf(frame) : Decoded(part)
  <2> SUFFICES ASSUME NEW part \in PartsOf(frame) PROVE Decoded(part)
    OBVIOUS
  <2>1. PICK i \in Sections : part \in frame.toc[i]
    BY <1>1, SectionsAre
  <2> QED BY <1>2, <2>1 DEF DoneInv
<1>4. ASSUME NEW g \in Groups
      PROVE  decoded_passes[g] = frame.passes
  <2>1. frame.passes \in Nat \ {0} /\ Groups = GroupsOf(frame)
    BY <1>1, FrameType, GroupsFacts
  <2> DEFINE last == frame.passes - 1
  <2>2. last \in 0 .. frame.passes - 1
    BY <2>1
  <2>3. PassOf(g, last) \in PartsOf(frame)
    BY <1>4, <2>1, <2>2 DEF PassOf, PartsOf
  <2>4. Decoded(PassOf(g, last))
    BY <1>3, <2>3
  <2>5. \E h \in Groups : \E n \in 0 .. decoded_passes[h] - 1 : PassOf(g, last) = PassOf(h, n)
    BY <2>4 DEF Decoded, PassOf
  <2>6. last \in 0 .. decoded_passes[g] - 1
    <3>1. PICK h \in Groups : \E n \in 0 .. decoded_passes[h] - 1 : PassOf(g, last) = PassOf(h, n)
      BY <2>5
    <3>2. PICK n \in 0 .. decoded_passes[h] - 1 : PassOf(g, last) = PassOf(h, n)
      BY <3>1
    <3>3. g = h /\ last = n
      BY <3>2 DEF PassOf
    <3> QED BY <3>2, <3>3
  <2>7. decoded_passes[g] \in 0 .. frame.passes
    BY <1>1
  <2> QED BY <2>1, <2>6, <2>7
<1>5. frame.broken = {}
  <2>1. frame.broken \subseteq PartsOf(frame)
    BY <1>1, FramesAssumption
  <2> QED BY <1>3, <2>1 DEF OrderInv
<1> QED BY <1>2, <1>3, <1>4, <1>5

\* A thread is about to save the borders of group g.
Saves(g) == \E t \in Threads : lane[t].at = "save" /\ lane[t].group = g

LEMMA DrawnStep ==
  ASSUME IInv, Next
  PROVE  DrawnInv'
<1>1. /\ TypeOK /\ LanesInv /\ RecordsInv /\ OrderInv /\ DoneInv /\ DrawnInv /\ MarksInv
      /\ frame \in Frames /\ frame' = frame /\ lane \in [Threads -> Lanes]
      /\ decoded_passes \in [Groups -> 0 .. frame.passes] /\ DesiredInv'
      /\ todo \subseteq Groups /\ saved \subseteq Groups
      /\ TypeOK'
  BY NextKeepsFrame, TypeStep, DesiredStep DEF IInv, TypeOK, BorderTypeOK, FrameTypeOK, CallTypeOK
<1>2. Groups' = Groups
  BY <1>1, FrameStays
<1>3. frame.passes \in Nat \ {0} /\ frame.full \in BOOLEAN
  BY <1>1, FrameType
<1> DEFINE SavesNow(g) == \E t \in Threads : lane'[t].at = "save" /\ lane'[t].group = g
           Goal ==
             /\ ~ frame.full =>
                  \A g \in Groups : decoded_passes'[g] = frame.passes => g \in saved' \/ SavesNow(g)
             /\ phase' \in {"groups", "flush"} /\ ~ frame.full =>
                  \A g \in todo' : decoded_passes'[g] < frame.passes
             /\ phase' = "final" => \A g \in Groups : g \in saved' \cup todo' \/ SavesNow(g)
             /\ phase' = "final" => frame.full
             /\ outcome' = "image" => saved' = Groups
<1>4. SUFFICES Goal
  BY <1>1, <1>2 DEF DrawnInv
<1>5. /\ phase # "idle" => outcome # "image"
      /\ outcome = "image" => saved = Groups
      /\ ~ frame.full =>
           \A g \in Groups : decoded_passes[g] = frame.passes => g \in saved \/ Saves(g)
      /\ phase = "final" => frame.full /\ \A g \in Groups : g \in saved \cup todo \/ Saves(g)
      /\ phase \in {"groups", "flush"} /\ ~ frame.full => \A g \in todo : decoded_passes[g] < frame.passes
  BY <1>1 DEF RecordsInv, DrawnInv, Saves
<1>6. CASE CallerStep
  <2>1. lane' = lane /\ \A g \in Groups : ~ Saves(g)
    BY <1>1, <1>6, CallerIsAlone DEF Saves
  <2>2. ASSUME NEW gs \in SUBSET Groups, Starts(gs),
               phase' # "final" /\ ~ frame.full => \A g \in gs : decoded_passes'[g] < frame.passes,
               phase' = "final" => frame.full /\ gs = Groups,
               outcome' # "image", decoded_passes' = decoded_passes
        PROVE  Goal
    <3>1. saved' = saved \ gs /\ todo' = gs /\ phase' \in {"groups", "final", "flush"}
      BY <2>2 DEF Starts
    <3>2. ASSUME ~ frame.full, NEW g \in Groups, decoded_passes'[g] = frame.passes
          PROVE  g \in saved'
      <4>1. g \notin gs
        BY <1>3, <2>2, <3>2
      <4>2. g \in saved
        BY <1>5, <2>1, <2>2, <3>2
      <4> QED BY <3>1, <4>1, <4>2
    <3> QED BY <2>2, <3>1, <3>2
  <2>3. CASE StartGroups
    <3>1. phase = "ac" /\ decoded_passes' = decoded_passes
      BY <2>3 DEF StartGroups
    <3>2. CASE Fails
      <4>1. saved' = saved
        BY <2>3, <3>2, StartGroupsIs DEF Fails
      <4> QED BY <1>5, <2>1, <3>1, <3>2, <4>1 DEF Fails
    <3>3. CASE ~ Fails /\ Starts(Touched) /\ phase' = "groups"
      <4>1. outcome' = outcome
        BY <2>3, <3>3 DEF StartGroups, sessionVars
      <4>2. Touched \in SUBSET Groups /\ todo' = Touched
        BY <3>3 DEF Touched, Starts
      <4>3. ASSUME NEW g \in Touched PROVE decoded_passes'[g] < frame.passes
        <5>1. Wanted(g)' /\ desired'[g] > 0
          BY <1>1, <3>3, <4>2 DEF DesiredInv
        <5>2. decoded_passes'[g] + desired'[g] <= frame.passes
          BY <1>1, <5>1 DEF Wanted
        <5>3. decoded_passes'[g] \in Int /\ desired'[g] \in Int
          BY <1>1, <1>2, <4>2 DEF TypeOK, FrameTypeOK, CallTypeOK
        <5> QED BY <1>3, <5>1, <5>2, <5>3
      <4> QED BY <1>5, <2>2, <3>1, <3>3, <4>1, <4>2, <4>3
    <3>4. CASE ~ Fails /\ phase' = "mark"
      <4>1. saved' = saved /\ outcome' = outcome
        BY <2>3, <3>4, StartGroupsIs DEF StartGroups, sessionVars
      <4> QED BY <1>5, <2>1, <3>1, <3>4, <4>1
    <3> QED BY <2>3, <3>2, <3>3, <3>4, StartGroupsIs
  <2>4. CASE FinalizeDecoding
    <3>1. /\ Starts(Groups) /\ phase' = "final" /\ frame.full /\ phase = "report"
          /\ outcome' = outcome /\ decoded_passes' = decoded_passes
      BY <2>4 DEF FinalizeDecoding, StartDrawing, Starts, frameVars, sessionVars
    <3> QED BY <1>5, <2>2, <3>1
  <2>5. CASE Flush
    <3> DEFINE missing == {g \in Groups : decoded_passes[g] < frame.passes}
    <3>1. PICK gs \in SUBSET Groups :
            /\ ~ frame.full => gs = missing
            /\ StartDrawing(gs, "flush")
      <4>1. CASE frame.full
        BY <2>5, <4>1 DEF Flush
      <4>2. CASE ~ frame.full
        BY <2>5, <4>2 DEF Flush
      <4> QED BY <4>1, <4>2
    <3>2. /\ Starts(gs) /\ phase' = "flush" /\ outcome # "image"
          /\ outcome' = outcome /\ decoded_passes' = decoded_passes
      BY <2>5, <3>1 DEF Flush, Usable, StartDrawing, Starts, frameVars, sessionVars
    <3> QED BY <2>2, <3>1, <3>2
  <2>6. CASE FinalizeDC
    <3>1. /\ phase = "finalize dc" /\ decoded_passes' = decoded_passes /\ outcome' = outcome
          /\ phase' \in {"mark", "ac"}
          /\ saved' = saved \/ ~ finalized_dc
      BY <2>6, FinalizeDCIs DEF sessionVars
    <3>2. ~ finalized_dc => \A g \in Groups : decoded_passes[g] = 0
      BY <1>1 DEF OrderInv
    <3>3. ~ frame.full => \A g \in Groups : decoded_passes'[g] = frame.passes => g \in saved'
      <4>1. CASE saved' = saved
        BY <1>5, <2>1, <3>1, <4>1
      <4>2. CASE ~ finalized_dc
        BY <1>3, <3>1, <3>2, <4>2
      <4> QED BY <3>1, <4>1, <4>2
    <3>4. outcome' # "image" /\ phase' \notin {"groups", "flush", "final"}
      BY <1>5, <3>1
    <3> QED BY <3>3, <3>4
  <2>7. CASE Aside
    <3>1. saved' = saved /\ phase' \notin {"groups", "final", "flush"}
      BY <2>7, AsideKeeps, ReturnsIs DEF Aside, ProcessInput, DecodeDC, EndGroups, Mark, Fails
    <3>2. decoded_passes' = decoded_passes
      BY <2>7, ReturnsIs DEF Aside, ProcessInput, DecodeDC, EndGroups, Mark, Fails, frameVars
    <3>3. outcome' = "image" => outcome = "image" \/ FullImage \/ (EndDrawing /\ phase = "final")
      BY <2>7, ReturnsIs DEF Aside, ProcessInput, DecodeDC, EndGroups, Mark, Fails, sessionVars
    <3>4. FullImage => saved = Groups
      <4> SUFFICES ASSUME FullImage PROVE saved = Groups
        OBVIOUS
      <4>1. ~ frame.full /\ \A g \in Groups : decoded_passes[g] = frame.passes
        BY <1>1, AllDecoded DEF FullImage
      <4> QED BY <1>1, <1>5, <2>1, <4>1
    <3>5. EndDrawing /\ phase = "final" => saved = Groups
      BY <1>1, <1>5, <2>1 DEF EndDrawing
    <3> QED BY <1>5, <2>1, <3>1, <3>2, <3>3, <3>4, <3>5
  <2> QED BY <1>6, <2>3, <2>4, <2>5, <2>6, <2>7 DEF CallerStep, Aside
<1>7. ASSUME NEW t \in Threads, DecodeGroup(t) PROVE Goal
  <2>1. PICK g \in todo :
           /\ g \in Groups /\ phase = "groups" /\ phase' = phase /\ todo' = todo \ {g}
           /\ saved' = saved /\ outcome' = outcome /\ lane[t] = Free
           /\ \/ decoded_passes' = decoded_passes /\ lane' = lane
              \/ /\ DecodesGroup(g) /\ lane' = lane
                 /\ frame.full \/ decoded_passes[g] + desired[g] # frame.passes
              \/ DecodesGroup(g) /\ Begins(t, g)
    BY <1>1, <1>7, DecodeGroupIs DEF sessionVars
  <2>2. \A h \in Groups : Saves(h) => SavesNow(h)
    BY <2>1 DEF Saves, Begins, OthersStay, Free
  <2>3. \A h \in Groups \ {g} : decoded_passes'[h] = decoded_passes[h]
    BY <1>1, <2>1 DEF DecodesGroup
  <2>4. DecodesGroup(g) => decoded_passes'[g] = decoded_passes[g] + desired[g]
    BY <1>1, <2>1 DEF DecodesGroup
  <2>5. Begins(t, g) => SavesNow(g)
    BY DEF Begins
  <2> QED BY <1>1, <1>5, <2>1, <2>2, <2>3, <2>4, <2>5
<1>8. ASSUME NEW t \in Threads, DrawGroup(t) PROVE Goal
  <2>1. PICK g \in todo :
           /\ g \in Groups /\ phase \in {"final", "flush"} /\ phase' = phase /\ todo' = todo \ {g}
           /\ saved' = saved /\ outcome' = outcome /\ decoded_passes' = decoded_passes
           /\ Begins(t, g)
    BY <1>1, <1>8, DrawGroupIs DEF sessionVars, frameVars
  <2>2. \A h \in Groups : Saves(h) => SavesNow(h)
    BY <2>1 DEF Saves, Begins, OthersStay, Free
  <2>3. SavesNow(g)
    BY <2>1 DEF Begins
  <2> QED BY <1>5, <2>1, <2>2, <2>3
<1>9. ASSUME NEW t \in Threads, SaveBorders(t) \/ MarkCorner(t) \/ RenderRect(t) \/ Leave(t),
             UNCHANGED <<frame, sessionVars, frameVars, callVars>>
      PROVE  Goal
  <2>1. phase' = phase /\ todo' = todo /\ outcome' = outcome /\ decoded_passes' = decoded_passes
    BY <1>9 DEF callVars, sessionVars, frameVars
  <2>2. \A u \in Threads \ {t} : lane'[u] = lane[u]
    BY <1>1, <1>9, DrawIs DEF OthersStay
  <2>3. CASE SaveBorders(t)
    <3>1. saved' = saved \cup {lane[t].group}
      BY <2>3 DEF SaveBorders
    <3>2. \A g \in Groups : Saves(g) => g \in saved' \/ SavesNow(g)
      BY <2>2, <3>1 DEF Saves
    <3>3. outcome # "image"
      <4>1. lane[t] # Free
        BY <2>3 DEF SaveBorders, Free
      <4>2. phase # "idle"
        BY <1>1, <4>1 DEF LanesInv, Drawing
      <4> QED BY <1>5, <4>2
    <3> QED BY <1>5, <2>1, <3>1, <3>2, <3>3
  <2>4. CASE ~ SaveBorders(t)
    <3>1. saved' = saved /\ lane[t].at # "save"
      BY <1>9, <2>4 DEF MarkCorner, RenderRect, Leave
    <3>2. \A g \in Groups : Saves(g) => SavesNow(g)
      BY <2>2, <3>1 DEF Saves
    <3> QED BY <1>5, <2>1, <3>1, <3>2
  <2> QED BY <2>3, <2>4
<1> HIDE DEF Goal
<1> QED BY <1>6, <1>7, <1>8, <1>9, StepCases

-----------------------------------------------------------------------------
(* Pauses.                                                                 *)

LEMMA DetailStays ==
  ASSUME Next
  PROVE  prog_detail' = prog_detail
<1>1. ASSUME NEW t \in Threads, ThreadStep(t)
      PROVE  prog_detail' = prog_detail
  BY <1>1 DEF ThreadStep, DecodeGroup, DrawGroup, Draw, sessionVars
<1>2. CASE DecodeDC \/ StartGroups \/ EndGroups \/ Mark
  BY <1>2 DEF DecodeDC, StartGroups, EndGroups, Mark, Fails, sessionVars
<1>3. CASE ProcessInput \/ FinalizeDC \/ FinalizeDecoding \/ Flush
  BY <1>3 DEF ProcessInput, FinalizeDC, FinalizeDecoding, Flush, StartDrawing, sessionVars
<1>4. CASE ReportDC \/ ReportPasses \/ NeedMoreInput \/ FullImage \/ EndDrawing
  BY <1>4, ReturnsIs
<1> QED BY <1>1, <1>2, <1>3, <1>4 DEF Next, CallStep, DecoderStep

LEMMA PausesStay ==
  ASSUME frame' = frame, prog_detail' = prog_detail
  PROVE  /\ Stops' = Stops
         /\ decoded_passes' = decoded_passes =>
              /\ NumCompletePasses' = NumCompletePasses
              /\ NextNumPassesToPause' = NextNumPassesToPause
<1>1. Groups' = Groups
  BY FrameStays
<1>2. PassesToPause' = PassesToPause
  BY DEF PassesToPause
<1>3. decoded_passes' = decoded_passes => NumCompletePasses' = NumCompletePasses
  BY <1>1 DEF NumCompletePasses, Complete
<1>4. Stops' = Stops
  BY <1>2 DEF Stops
<1>5. ASSUME decoded_passes' = decoded_passes
      PROVE  NextNumPassesToPause' = NextNumPassesToPause
  <2> DEFINE later == {n \in PassesToPause : n > NumCompletePasses}
  <2>1. later' = later
    BY <1>2, <1>3, <1>5
  <2>2. NextNumPassesToPause = IF later = {} THEN frame.passes + 1
                               ELSE CHOOSE n \in later : \A m \in later : n <= m
    BY DEF NextNumPassesToPause
  <2>3. NextNumPassesToPause' = IF later' = {} THEN frame'.passes + 1
                                ELSE CHOOSE n \in later' : \A m \in later' : n <= m
    BY DEF NextNumPassesToPause
  <2> HIDE DEF later
  <2> QED BY <2>1, <2>2, <2>3
<1> QED BY <1>3, <1>4, <1>5

\* No group gets further than the next stop.
UpToNext ==
  prog_detail >= 2 =>
    /\ \A n \in Stops : n > NumCompletePasses => n >= next_num_passes_to_pause
    /\ \A g \in Groups : decoded_passes[g] <= next_num_passes_to_pause
    /\ phase = "groups" => \A g \in todo : decoded_passes[g] + desired[g] <= next_num_passes_to_pause

LEMMA UpToNextStep ==
  ASSUME IInv, Next
  PROVE  UpToNext'
<1>1. /\ TypeOK /\ PausesInv /\ UpToNext /\ frame \in Frames /\ frame' = frame
      /\ decoded_passes \in [Groups -> 0 .. frame.passes]
      /\ desired \in [Groups -> 0 .. frame.passes] /\ todo \subseteq Groups
      /\ prog_detail' = prog_detail /\ prog_detail \in 0 .. 3
      /\ next_num_passes_to_pause \in Nat
      /\ phase \in {"dc", "finalize dc", "ac"} => next_num_passes_to_pause = NextNumPassesToPause
  BY NextKeepsFrame, DetailStays
     DEF IInv, TypeOK, FrameTypeOK, CallTypeOK, SessionTypeOK, PausesInv, UpToNext
<1>2. Groups' = Groups /\ Stops' = Stops /\ Stops \subseteq 1 .. frame.passes + 1
  BY <1>1, FrameStays, PausesStay, StopsType
<1>3. /\ frame.passes \in Nat /\ NumCompletePasses \in 0 .. frame.passes
      /\ \A g \in Groups : NumCompletePasses <= decoded_passes[g]
  BY <1>1, FrameType, CompleteIs DEF NumCompletePasses
<1>t. \A g \in Groups : decoded_passes[g] \in Nat /\ desired[g] \in Nat
  <2>1. frame.passes \in Nat /\ decoded_passes \in [Groups -> 0 .. frame.passes]
        /\ desired \in [Groups -> 0 .. frame.passes]
    BY <1>1, <1>3
  <2> QED BY <2>1
<1> DEFINE next == next_num_passes_to_pause
           Goal == /\ \A n \in Stops : n > NumCompletePasses' => n >= next'
                   /\ \A g \in Groups : decoded_passes'[g] <= next'
                   /\ phase' = "groups" => \A g \in todo' : decoded_passes'[g] + desired'[g] <= next'
<1>4. SUFFICES prog_detail >= 2 => Goal
  BY <1>1, <1>2 DEF UpToNext
<1>5. SUFFICES ASSUME prog_detail >= 2 PROVE Goal
  OBVIOUS
<1>6. /\ \A n \in Stops : n > NumCompletePasses => n >= next
      /\ \A g \in Groups : decoded_passes[g] <= next
      /\ phase = "groups" => \A g \in todo : decoded_passes[g] + desired[g] <= next
  BY <1>1, <1>5 DEF UpToNext
<1>7. ASSUME decoded_passes' = decoded_passes, next' = next,
             phase' = "groups" => phase = "groups" /\ desired' = desired /\ todo' \subseteq todo
      PROVE  Goal
  BY <1>1, <1>6, <1>7, PausesStay
<1>8. CASE ProcessInput
  <2>1. /\ decoded_passes' = decoded_passes /\ next' = NextNumPassesToPause
        /\ phase' # "groups"
    BY <1>1, <1>8, ProcessInputIs
  <2>2. NumCompletePasses' = NumCompletePasses
    BY <1>1, <2>1, PausesStay
  <2>3. /\ NextNumPassesToPause \in Stops
        /\ NextNumPassesToPause > NumCompletePasses
        /\ \A n \in Stops : n > NumCompletePasses => NextNumPassesToPause <= n
    BY <1>1, NextPauseIs
  <2>4. NextNumPassesToPause >= next /\ NextNumPassesToPause \in Nat
    BY <1>2, <1>3, <1>6, <2>3
  <2>5. \A g \in Groups : decoded_passes[g] <= NextNumPassesToPause
    <3>1. ASSUME NEW g \in Groups PROVE decoded_passes[g] <= NextNumPassesToPause
      <4>1. decoded_passes[g] \in Nat /\ decoded_passes[g] <= next /\ next \in Nat
        BY <1>1, <1>t, <1>6
      <4> QED BY <2>4, <4>1
    <3> QED BY <3>1
  <2>6. \A n \in Stops : n > NumCompletePasses => n >= NextNumPassesToPause
    BY <1>2, <2>3, <2>4
  <2> QED BY <2>1, <2>2, <2>5, <2>6
<1>9. CASE DecodeDC \/ FinalizeDC \/ Mark
  <2>1. decoded_passes' = decoded_passes /\ phase' # "groups"
    BY <1>9, FinalizeDCIs DEF DecodeDC, Mark, Fails
  <2>2. next' = next
    BY <1>9, FinalizeDCIs DEF DecodeDC, Mark, Fails, sessionVars
  <2> QED BY <1>7, <2>1, <2>2
<1>10. CASE StartGroups
  <2>1. decoded_passes' = decoded_passes /\ next' = next /\ phase = "ac"
    BY <1>10 DEF StartGroups, Fails, sessionVars
  <2>2. CASE phase' # "groups"
    BY <1>7, <2>1, <2>2
  <2>3. CASE phase' = "groups"
    <3>1. todo' = Touched /\ desired' = DesiredUpTo(NextNumPassesToPause)
      BY <1>10, <2>3, StartGroupsIs DEF Starts, Fails
    <3> DEFINE new == DesiredUpTo(NextNumPassesToPause)
    <3>2. \A g \in Groups : prog_detail >= 2 => decoded_passes[g] + new[g] <= NextNumPassesToPause
      BY <2>1, DesiredIs
    <3> HIDE DEF new
    <3>3. next = NextNumPassesToPause
      BY <1>1, <2>1
    <3>4. \A g \in todo' : decoded_passes'[g] + desired'[g] <= next'
      BY <1>5, <2>1, <3>1, <3>2, <3>3 DEF Touched, new
    <3>5. NumCompletePasses' = NumCompletePasses
      BY <1>1, <2>1, PausesStay
    <3> QED BY <1>6, <2>1, <3>4, <3>5
  <2> QED BY <2>2, <2>3
<1>11. CASE EndGroups \/ FinalizeDecoding \/ Flush
  <2>1. decoded_passes' = decoded_passes /\ next' = next /\ phase' # "groups"
    BY <1>11 DEF EndGroups, Fails, FinalizeDecoding, Flush, StartDrawing, frameVars, sessionVars
  <2> QED BY <1>7, <2>1
<1>12. CASE ReportDC \/ ReportPasses \/ NeedMoreInput \/ FullImage \/ EndDrawing
  <2>1. decoded_passes' = decoded_passes /\ next' = next /\ phase' = "idle"
    BY <1>12, ReturnsIs DEF frameVars
  <2> QED BY <1>7, <2>1
<1>13. ASSUME NEW t \in Threads, DecodeGroup(t) PROVE Goal
  <2>1. PICK g \in todo :
           /\ g \in Groups /\ phase = "groups" /\ phase' = phase /\ todo' = todo \ {g}
           /\ next' = next /\ desired' = desired
           /\ decoded_passes' = decoded_passes \/ DecodesGroup(g)
    BY <1>1, <1>13, DecodeGroupIs DEF sessionVars
  <2>2. CASE decoded_passes' = decoded_passes
    BY <1>7, <2>1, <2>2
  <2>3. CASE DecodesGroup(g)
    <3>1. /\ \A h \in Groups \ {g} : decoded_passes'[h] = decoded_passes[h]
          /\ decoded_passes'[g] = decoded_passes[g] + desired[g]
      BY <1>1, <2>1, <2>3 DEF DecodesGroup
    <3>2. \A h \in Groups : decoded_passes[h] <= decoded_passes'[h] /\ decoded_passes'[h] \in Nat
      <4>1. ASSUME NEW h \in Groups
            PROVE  decoded_passes[h] <= decoded_passes'[h] /\ decoded_passes'[h] \in Nat
        <5>1. decoded_passes[h] \in Nat /\ desired[h] \in Nat
          BY <1>t
        <5>2. decoded_passes'[h] = decoded_passes[h] \/ decoded_passes'[h] = decoded_passes[h] + desired[h]
          BY <3>1
        <5> QED BY <5>1, <5>2
      <4> QED BY <4>1
    <3>3. TypeOK'
      BY TypeStep
    <3>4. decoded_passes' \in [Groups -> 0 .. frame.passes]
      BY <1>1, <1>2, <3>3 DEF TypeOK, FrameTypeOK
    <3>5. NumCompletePasses' = Complete(decoded_passes')
      BY <1>1, <1>2 DEF NumCompletePasses, Complete
    <3>6. NumCompletePasses <= NumCompletePasses' /\ NumCompletePasses' \in Nat
      <4>1. \E h \in Groups : NumCompletePasses' = decoded_passes'[h]
        <5> DEFINE new == decoded_passes'
        <5>1. new \in [Groups -> 0 .. frame.passes] /\ NumCompletePasses' = Complete(new)
          BY <3>4, <3>5
        <5> HIDE DEF new
        <5>2. \E h \in Groups : Complete(new) = new[h]
          BY <1>1, <5>1, CompleteIs
        <5> QED BY <5>1, <5>2 DEF new
      <4>2. PICK h \in Groups : NumCompletePasses' = decoded_passes'[h]
        BY <4>1
      <4>3. decoded_passes[h] \in Nat /\ NumCompletePasses <= decoded_passes[h]
        BY <1>t, <1>3
      <4>4. decoded_passes[h] <= decoded_passes'[h] /\ decoded_passes'[h] \in Nat
        BY <3>2
      <4> QED BY <1>3, <4>2, <4>3, <4>4
    <3>7. \A n \in Stops : n > NumCompletePasses' => n >= next'
      BY <1>2, <1>3, <1>6, <2>1, <3>6
    <3>8. \A h \in Groups : decoded_passes'[h] <= next'
      BY <1>6, <2>1, <3>1
    <3>9. \A h \in todo' : decoded_passes'[h] + desired'[h] <= next'
      BY <1>1, <1>6, <2>1, <3>1
    <3> QED BY <3>7, <3>8, <3>9
  <2> QED BY <2>1, <2>2, <2>3
<1>14. ASSUME NEW t \in Threads, DrawGroup(t) \/ Draw(t) PROVE Goal
  <2>1. /\ decoded_passes' = decoded_passes /\ next' = next /\ phase' = phase /\ desired' = desired
        /\ phase = "groups" => todo' = todo
    BY <1>14 DEF DrawGroup, Draw, callVars, frameVars, sessionVars
  <2> QED BY <1>7, <2>1
<1> HIDE DEF Goal
<1> QED
  BY <1>8, <1>9, <1>10, <1>11, <1>12, <1>13, <1>14 DEF Next, CallStep, DecoderStep, ThreadStep

\* The pause for the DC comes before anything else is decoded.
DcFirst ==
  prog_detail >= 1 /\ ~ dc_frame_progression_done =>
    /\ \A g \in Groups : decoded_passes[g] = 0
    /\ finalized_dc => \/ phase \in {"mark", "report", "final"}
                       \/ phase = "idle" /\ outcome = "image"

LEMMA DcFirstStep ==
  ASSUME IInv, Next
  PROVE  DcFirst'
<1>1. /\ TypeOK /\ DcFirst /\ OrderInv /\ RecordsInv /\ frame \in Frames /\ frame' = frame
      /\ prog_detail' = prog_detail /\ prog_detail \in 0 .. 3
  BY NextKeepsFrame, DetailStays DEF IInv, TypeOK, SessionTypeOK, PausesInv, DcFirst
<1>2. Groups' = Groups
  BY <1>1, FrameStays
<1> DEFINE Last(p, o) == p \in {"mark", "report", "final"} \/ (p = "idle" /\ o = "image")
           Goal == ~ dc_frame_progression_done' =>
                     /\ \A g \in Groups : decoded_passes'[g] = 0
                     /\ finalized_dc' => Last(phase', outcome')
<1>3. SUFFICES prog_detail >= 1 => Goal
  BY <1>1, <1>2 DEF DcFirst
<1>4. SUFFICES ASSUME prog_detail >= 1 PROVE Goal
  OBVIOUS
<1>5. ~ dc_frame_progression_done =>
        /\ \A g \in Groups : decoded_passes[g] = 0
        /\ finalized_dc => Last(phase, outcome)
  BY <1>1, <1>4 DEF DcFirst
<1>6. phase = "groups" => finalized_dc
  BY <1>1 DEF OrderInv
<1> HIDE DEF Last
<1>7. ASSUME decoded_passes' = decoded_passes, finalized_dc' = finalized_dc,
             dc_frame_progression_done' = dc_frame_progression_done,
             finalized_dc /\ Last(phase, outcome) => Last(phase', outcome')
      PROVE  Goal
  BY <1>5, <1>7
<1>8. ~ Last("dc", outcome) /\ ~ Last("ac", outcome) /\ ~ Last("groups", outcome) /\ ~ Last("flush", outcome)
  BY DEF Last
<1>9. CASE ProcessInput \/ Flush
  <2>1. phase = "idle" /\ outcome # "image"
    BY <1>9 DEF ProcessInput, Flush, Usable
  <2>2. ~ Last(phase, outcome)
    BY <2>1 DEF Last
  <2>3. /\ decoded_passes' = decoded_passes /\ finalized_dc' = finalized_dc
        /\ dc_frame_progression_done' = dc_frame_progression_done
    BY <1>9 DEF ProcessInput, Flush, StartDrawing, frameVars, sessionVars
  <2> QED BY <1>7, <2>2, <2>3
<1>10. CASE DecodeDC
  <2>1. /\ decoded_passes' = decoded_passes /\ finalized_dc' = finalized_dc /\ phase = "dc"
        /\ dc_frame_progression_done' = dc_frame_progression_done
    BY <1>10 DEF DecodeDC, Fails, sessionVars
  <2> QED BY <1>7, <1>8, <2>1
<1>11. CASE FinalizeDC
  <2>1. /\ decoded_passes' = decoded_passes /\ phase = "finalize dc"
        /\ dc_frame_progression_done' = dc_frame_progression_done
    BY <1>11, FinalizeDCIs DEF sessionVars
  <2>2. ~ Last(phase, outcome)
    BY <2>1 DEF Last
  <2>3. phase' = "mark" \/ finalized_dc' = finalized_dc
    BY <1>4, <1>11, FinalizeDCIs
  <2>4. CASE phase' = "mark"
    BY <1>5, <2>1, <2>4 DEF Last
  <2>5. CASE finalized_dc' = finalized_dc
    BY <1>7, <2>1, <2>2, <2>5
  <2> QED BY <2>3, <2>4, <2>5
<1>12. CASE StartGroups
  <2>1. /\ decoded_passes' = decoded_passes /\ finalized_dc' = finalized_dc /\ phase = "ac"
        /\ dc_frame_progression_done' = dc_frame_progression_done
    BY <1>12 DEF StartGroups, Fails, sessionVars
  <2> QED BY <1>7, <1>8, <2>1
<1>13. CASE EndGroups
  <2>1. /\ decoded_passes' = decoded_passes /\ finalized_dc' = finalized_dc /\ phase = "groups"
        /\ dc_frame_progression_done' = dc_frame_progression_done
    BY <1>13 DEF EndGroups, Fails, frameVars, sessionVars
  <2> QED BY <1>7, <1>8, <2>1
<1>14. CASE Mark
  <2>1. phase = "mark" /\ duplicate = {}
    BY <1>1, <1>14 DEF Mark, RecordsInv
  <2>2. /\ decoded_passes' = decoded_passes /\ finalized_dc' = finalized_dc /\ phase' = "report"
        /\ dc_frame_progression_done' = dc_frame_progression_done
    BY <1>14, <2>1 DEF Mark
  <2>3. Last(phase', outcome')
    BY <2>2 DEF Last
  <2> QED BY <1>7, <2>2, <2>3
<1>15. CASE ReportDC \/ ReportPasses \/ NeedMoreInput \/ FullImage \/ EndDrawing
  <2>1. /\ decoded_passes' = decoded_passes /\ finalized_dc' = finalized_dc /\ phase' = "idle"
        /\ dc_frame_progression_done' \/ dc_frame_progression_done' = dc_frame_progression_done
    <3>1. decoded_passes' = decoded_passes /\ finalized_dc' = finalized_dc /\ phase' = "idle"
      BY <1>15, ReturnsIs DEF frameVars
    <3>2. dc_frame_progression_done' \/ dc_frame_progression_done' = dc_frame_progression_done
      BY <1>15, ReturnsIs
    <3> QED BY <3>1, <3>2
  <2>2. CASE dc_frame_progression_done'
    BY <2>2
  <2>3. CASE dc_frame_progression_done' = dc_frame_progression_done /\ ~ dc_frame_progression_done'
    <3>1. \/ outcome' = "image"
          \/ ReportPasses \/ NeedMoreInput
          \/ EndDrawing /\ phase = "flush"
      BY <1>15, <2>3, ReturnsIs
    <3>2. ReportPasses \/ NeedMoreInput => ~ finalized_dc
      BY <1>4, <2>3 DEF ReportPasses, NeedMoreInput, DcReported
    <3>3. Last("idle", "image")
      BY DEF Last
    <3> QED BY <1>7, <1>8, <2>1, <2>3, <3>1, <3>2, <3>3
  <2> QED BY <2>1, <2>2, <2>3
<1>16. CASE FinalizeDecoding
  <2>1. /\ decoded_passes' = decoded_passes /\ finalized_dc' = finalized_dc /\ phase' = "final"
        /\ dc_frame_progression_done' = dc_frame_progression_done
    BY <1>16 DEF FinalizeDecoding, StartDrawing, frameVars, sessionVars
  <2>2. Last(phase', outcome')
    BY <2>1 DEF Last
  <2> QED BY <1>7, <2>1, <2>2
<1>17. ASSUME NEW t \in Threads, DecodeGroup(t) PROVE Goal
  <2>1. /\ phase = "groups" /\ dc_frame_progression_done' = dc_frame_progression_done
    BY <1>1, <1>17, DecodeGroupIs DEF sessionVars
  <2>2. dc_frame_progression_done
    BY <1>5, <1>6, <1>8, <2>1
  <2> QED BY <2>1, <2>2
<1>18. ASSUME NEW t \in Threads, DrawGroup(t) \/ Draw(t) PROVE Goal
  <2>1. /\ decoded_passes' = decoded_passes /\ finalized_dc' = finalized_dc /\ phase' = phase
        /\ outcome' = outcome /\ dc_frame_progression_done' = dc_frame_progression_done
    BY <1>18 DEF DrawGroup, Draw, callVars, frameVars, sessionVars
  <2> QED BY <1>7, <2>1
<1> HIDE DEF Goal
<1> QED
  BY <1>9, <1>10, <1>11, <1>12, <1>13, <1>14, <1>15, <1>16, <1>17, <1>18
     DEF Next, CallStep, DecoderStep, ThreadStep

LEMMA PausesStep ==
  ASSUME IInv, Next
  PROVE  PausesInv'
<1>1. /\ TypeOK /\ PausesInv /\ frame' = frame /\ prog_detail' = prog_detail
  BY NextKeepsFrame, DetailStays DEF IInv, TypeOK
<1>2. UpToNext' /\ DcFirst'
  BY UpToNextStep, DcFirstStep
<1>3. phase' \in {"dc", "finalize dc", "ac"} => next_num_passes_to_pause' = NextNumPassesToPause'
  <2>1. ASSUME decoded_passes' = decoded_passes,
               \/ next_num_passes_to_pause' = NextNumPassesToPause
               \/ /\ next_num_passes_to_pause' = next_num_passes_to_pause
                  /\ phase \in {"dc", "finalize dc", "ac"}
        PROVE  next_num_passes_to_pause' = NextNumPassesToPause'
    <3>1. NextNumPassesToPause' = NextNumPassesToPause
      BY <1>1, <2>1, PausesStay
    <3>2. phase \in {"dc", "finalize dc", "ac"} => next_num_passes_to_pause = NextNumPassesToPause
      BY <1>1 DEF PausesInv
    <3> QED BY <2>1, <3>1, <3>2
  <2>2. CASE ProcessInput
    BY <1>1, <2>1, <2>2, ProcessInputIs
  <2>3. CASE DecodeDC
    <3>1. decoded_passes' = decoded_passes /\ phase = "dc" /\ next_num_passes_to_pause' = next_num_passes_to_pause
      BY <2>3 DEF DecodeDC, Fails, sessionVars
    <3> QED BY <2>1, <3>1
  <2>4. CASE FinalizeDC
    <3>1. decoded_passes' = decoded_passes /\ phase = "finalize dc" /\ next_num_passes_to_pause' = next_num_passes_to_pause
      BY <2>4, FinalizeDCIs DEF sessionVars
    <3> QED BY <2>1, <3>1
  <2>5. CASE StartGroups \/ EndGroups \/ Mark \/ FinalizeDecoding \/ Flush
    BY <2>5 DEF StartGroups, Fails, EndGroups, Mark, FinalizeDecoding, Flush, StartDrawing
  <2>6. CASE ReportDC \/ ReportPasses \/ NeedMoreInput \/ FullImage \/ EndDrawing
    BY <2>6, ReturnsIs
  <2>7. ASSUME NEW t \in Threads, DecodeGroup(t)
        PROVE  phase' = "groups"
    BY <2>7 DEF DecodeGroup
  <2>8. ASSUME NEW t \in Threads, DrawGroup(t)
        PROVE  phase' \in {"final", "flush"}
    BY <2>8 DEF DrawGroup
  <2>9. ASSUME NEW t \in Threads, Draw(t)
        PROVE  decoded_passes' = decoded_passes /\ phase' = phase
               /\ next_num_passes_to_pause' = next_num_passes_to_pause
    BY <2>9 DEF Draw, callVars, frameVars, sessionVars
  <2> QED
    BY <2>1, <2>2, <2>3, <2>4, <2>5, <2>6, <2>7, <2>8, <2>9 DEF Next, CallStep, DecoderStep, ThreadStep
<1> QED BY <1>2, <1>3 DEF PausesInv, UpToNext, DcFirst

-----------------------------------------------------------------------------
(* Who has marked which corner.                                            *)

\* ClearDone takes back what its groups have marked, and nothing else.
LEMMA ClearDoneIs ==
  ASSUME frame \in Frames, counters \in [Corners -> SUBSET Sides],
         NEW gs \in SUBSET Groups, ClearDone(gs), NEW g \in Groups, NEW k \in 1 .. 4
  PROVE  SideOf[k] \in counters'[CornerOf(g)[k]] <=> SideOf[k] \in counters[CornerOf(g)[k]] /\ g \notin gs
<1> DEFINE c == CornerOf(g)[k]
           cleared == {j \in 1 .. 4 : \E h \in gs : CornerOf(h)[j] = c}
<1>1. c \in Corners
  BY CornersAre
<1>2. counters'[c] = counters[c] \ {SideOf[j] : j \in cleared}
  BY <1>1 DEF ClearDone
<1>3. SideOf[k] \in {SideOf[j] : j \in cleared} <=> k \in cleared
  <2>1. \A j \in cleared : SideOf[j] = SideOf[k] => j = k
    BY CornersAre
  <2> HIDE DEF cleared
  <2> QED BY <2>1
<1>4. k \in cleared <=> g \in gs
  <2>1. \A h \in gs : CornerOf(h)[k] = c => h = g
    BY CornersAre
  <2> QED BY <2>1
<1> HIDE DEF cleared
<1> QED BY <1>2, <1>3, <1>4

LEMMA MarksStep ==
  ASSUME IInv, Next
  PROVE  MarksInv'
<1>1. /\ TypeOK /\ LanesInv /\ SavedInv /\ MarksInv
      /\ frame \in Frames /\ frame' = frame
      /\ lane \in [Threads -> Lanes] /\ counters \in [Corners -> SUBSET Sides]
  BY NextKeepsFrame DEF IInv, TypeOK, BorderTypeOK
<1>2. Groups' = Groups /\ \A g : CornerOf(g)' = CornerOf(g)
  BY <1>1, FrameStays
<1> DEFINE At(g, k) == CornerOf(g)[k]
           MarkedNow(g, k) ==
             /\ g \in saved'
             /\ \A t \in Threads : lane'[t].at = "mark" /\ lane'[t].group = g => k <= Len(lane'[t].status)
           SeenNow(t, k) == lane'[t].at \in {"mark", "draw"} /\ k \in 1 .. Len(lane'[t].status)
           MarksNow == \A g \in Groups : \A k \in 1 .. 4 : SideOf[k] \in counters'[At(g, k)] <=> MarkedNow(g, k)
           ThreadNow(t) ==
             /\ lane'[t].at = "save" => lane'[t].status = <<>>
             /\ lane'[t].at = "mark" => Len(lane'[t].status) < 4
             /\ lane'[t].at = "draw" => Len(lane'[t].status) = 4
             /\ \A k \in 1 .. 4 : SeenNow(t, k) =>
                  /\ SideOf[k] \in lane'[t].status[k]
                  /\ lane'[t].status[k] \subseteq counters'[At(lane'[t].group, k)]
           ApartNow(t, u) ==
             \A j, k \in 1 .. 4 :
               SeenNow(t, j) /\ SeenNow(u, k) /\ At(lane'[t].group, j) = At(lane'[u].group, k)
               => ~ (SideOf[k] \in lane'[t].status[j] /\ SideOf[j] \in lane'[u].status[k])
           Goal == MarksNow /\ \A t \in Threads : ThreadNow(t) /\ \A u \in Threads \ {t} : ApartNow(t, u)
<1>3. SUFFICES Goal
  BY SMTT(30), <1>1, <1>2 DEF MarksInv, Marked, Seen
<1>4. \A g \in Groups : \A k \in 1 .. 4 : SideOf[k] \in counters[At(g, k)] <=> Marked(g, k)
  BY <1>1 DEF MarksInv
<1>5. \A t \in Threads :
        /\ lane[t].at = "save" => lane[t].status = <<>>
        /\ lane[t].at = "mark" => Len(lane[t].status) < 4
        /\ lane[t].at = "draw" => Len(lane[t].status) = 4
        /\ \A k \in 1 .. 4 : Seen(t, k) =>
             /\ SideOf[k] \in lane[t].status[k]
             /\ lane[t].status[k] \subseteq counters[At(lane[t].group, k)]
  BY <1>1 DEF MarksInv
<1>6. \A t, u \in Threads : \A j, k \in 1 .. 4 :
        t # u /\ Seen(t, j) /\ Seen(u, k) /\ At(lane[t].group, j) = At(lane[u].group, k)
        => ~ (SideOf[k] \in lane[t].status[j] /\ SideOf[j] \in lane[u].status[k])
  BY <1>1 DEF MarksInv
<1> HIDE DEF At
<1>7. CASE CallerStep
  <2>1. lane' = lane /\ \A t \in Threads : lane[t].at = "free"
    BY <1>1, <1>7, CallerIsAlone
  <2>2. \A g \in Groups : \A k \in 1 .. 4 :
          (Marked(g, k) <=> g \in saved) /\ (MarkedNow(g, k) <=> g \in saved')
    BY <2>1 DEF Marked
  <2>3. \A t \in Threads : ThreadNow(t) /\ \A u \in Threads \ {t} : ApartNow(t, u)
    BY <2>1
  <2>4. MarksNow
    <3> SUFFICES ASSUME NEW g \in Groups, NEW k \in 1 .. 4
                 PROVE  SideOf[k] \in counters'[At(g, k)] <=> g \in saved'
      BY <2>2
    <3>1. SideOf[k] \in counters[At(g, k)] <=> g \in saved
      BY <1>4, <2>2
    <3>2. CASE \E gs \in SUBSET Groups : Starts(gs)
      <4>1. PICK gs \in SUBSET Groups : ClearDone(gs) /\ saved' = saved \ gs
        BY <3>2 DEF Starts
      <4>2. SideOf[k] \in counters'[At(g, k)] <=> SideOf[k] \in counters[At(g, k)] /\ g \notin gs
        BY <1>1, <4>1, ClearDoneIs DEF At
      <4> QED BY <3>1, <4>1, <4>2
    <3>3. CASE counters' = counters /\ saved' = saved
      BY <3>1, <3>3
    <3>4. CASE counters' = [c \in Corners |-> Outside(c)] /\ saved' = {}
      <4>1. At(g, k) \in Corners /\ SideOf[k] \notin Outside(At(g, k))
        BY <1>1, CornersAre DEF At
      <4> QED BY <3>4, <4>1
    <3> QED BY <1>1, <1>7, <3>2, <3>3, <3>4, CallerCases
  <2> QED BY <2>3, <2>4
<1>8. ASSUME NEW t \in Threads, OthersStay(t), counters' = counters, saved' = saved,
             lane[t].at # "mark",
             lane'[t].at \in {"free", "save", "draw"},
             lane'[t].at = "save" => lane'[t].status = <<>>,
             lane'[t].at = "draw" => /\ lane[t].at = "draw" /\ lane'[t].group = lane[t].group
                                     /\ lane'[t].status = lane[t].status
      PROVE  Goal
  <2>1. \A u \in Threads \ {t} : lane'[u] = lane[u]
    BY <1>8 DEF OthersStay
  <2>2. \A g \in Groups : \A k \in 1 .. 4 : MarkedNow(g, k) <=> Marked(g, k)
    BY <1>8, <2>1 DEF Marked
  <2>3. \A u \in Threads : \A k \in 1 .. 4 : SeenNow(u, k) =>
          Seen(u, k) /\ lane'[u].status = lane[u].status /\ lane'[u].group = lane[u].group
    BY <1>8, <2>1 DEF Seen
  <2>4. MarksNow
    BY <1>4, <1>8, <2>2
  <2>5. ASSUME NEW u \in Threads
        PROVE  ThreadNow(u)
    BY <1>5, <1>8, <2>1, <2>3
  <2>6. ASSUME NEW u \in Threads, NEW v \in Threads \ {u}
        PROVE  ApartNow(u, v)
    BY <1>6, <2>3
  <2> QED BY <2>4, <2>5, <2>6
<1>9. ASSUME NEW t \in Threads, DecodeGroup(t) \/ DrawGroup(t)
      PROVE  Goal
  <2>1. PICK g \in todo : /\ counters' = counters /\ saved' = saved /\ lane[t] = Free
                          /\ lane' = lane \/ Begins(t, g)
    BY <1>1, <1>9, BeginIs
  <2>2. CASE Begins(t, g)
    BY <1>8, <2>1, <2>2 DEF Begins, Free
  <2>3. CASE lane' = lane
    <3>1. OthersStay(t) /\ lane[t].at = "free" /\ lane'[t].at = "free"
      BY <1>1, <2>1, <2>3 DEF OthersStay, Free
    <3> QED BY <1>8, <2>1, <3>1
  <2> QED BY <2>1, <2>2, <2>3
<1>10. ASSUME NEW t \in Threads, SaveBorders(t)
       PROVE  Goal
  <2> DEFINE g == lane[t].group
  <2>1. /\ lane[t].at = "save" /\ saved' = saved \cup {g} /\ counters' = counters
        /\ lane[t].status = <<>> /\ g \notin saved
    BY <1>1, <1>5, <1>10 DEF SaveBorders, SavedInv
  <2>2. /\ \A u \in Threads \ {t} : lane'[u] = lane[u]
        /\ lane'[t].at = "mark" /\ lane'[t].group = g /\ lane'[t].status = <<>>
    BY <1>1, <1>10, <2>1, LaneSaves DEF OthersStay
  <2>3. \A h \in Groups : \A k \in 1 .. 4 : MarkedNow(h, k) <=> Marked(h, k)
    <3> SUFFICES ASSUME NEW h \in Groups, NEW k \in 1 .. 4 PROVE MarkedNow(h, k) <=> Marked(h, k)
      OBVIOUS
    <3>1. CASE h = g
      <4>1. ~ MarkedNow(h, k)
        BY <2>2, <3>1
      <4>2. ~ Marked(h, k)
        BY <2>1, <3>1 DEF Marked
      <4> QED BY <4>1, <4>2
    <3>2. CASE h # g
      BY <2>1, <2>2, <3>2 DEF Marked
    <3> QED BY <3>1, <3>2
  <2>4. \A u \in Threads : \A k \in 1 .. 4 : SeenNow(u, k) => u # t /\ Seen(u, k)
    BY <2>2 DEF Seen
  <2>5. MarksNow
    BY <1>4, <2>1, <2>3
  <2>6. ASSUME NEW u \in Threads
        PROVE  ThreadNow(u)
    BY SMTT(30), <1>5, <2>1, <2>2, <2>4
  <2>7. ASSUME NEW u \in Threads, NEW v \in Threads \ {u}
        PROVE  ApartNow(u, v)
    BY <1>6, <2>2, <2>4
  <2> QED BY <2>5, <2>6, <2>7
<1>11. ASSUME NEW t \in Threads, MarkCorner(t)
       PROVE  Goal
  <2> DEFINE g == MarkGroup(t)
             v == MarkVisit(t)
             c == MarkedCorner(t)
             status == MarkStatus(t)
  <2>1. /\ lane[t].at = "mark" /\ g \in Groups /\ v \in 1 .. 4 /\ c \in Corners
        /\ counters' = [counters EXCEPT ![c] = @ \cup {SideOf[v]}]
        /\ saved' = saved /\ Len(status) = v
        /\ \A j \in 1 .. v - 1 : status[j] = lane[t].status[j]
        /\ status[v] = counters[c] \cup {SideOf[v]}
        /\ OthersStay(t)
        /\ lane'[t].at = IF v = 4 THEN "draw" ELSE "mark"
        /\ lane'[t].group = g /\ lane'[t].status = status
    BY <1>1, <1>11, MarkIs
  <2>2. /\ g = lane[t].group /\ v = Len(lane[t].status) + 1 /\ c = At(g, v)
        /\ Len(lane[t].status) \in Nat
    <3>1. lane[t].status \in Seq(SUBSET Sides)
      BY <1>1, LaneType
    <3> QED BY <3>1 DEF MarkGroup, MarkVisit, MarkedCorner, At
  <2>3. /\ \A u \in Threads \ {t} : lane'[u] = lane[u]
        /\ \A d \in Corners : counters'[d] = IF d = c THEN counters[c] \cup {SideOf[v]} ELSE counters[d]
    BY <1>1, <2>1 DEF OthersStay
  <2> HIDE DEF g, v, c, status
  <2>4. \A u \in Threads \ {t} : lane[u].at # "free" => lane[u].group # g
    BY <1>1, <2>1, <2>2 DEF LanesInv, Free
  <2>5. g \in saved
    BY <1>1, <2>1, <2>2 DEF SavedInv
  <2>6. ~ Marked(g, v) /\ SideOf[v] \notin counters[c]
    <3>1. ~ Marked(g, v)
      BY <2>1, <2>2 DEF Marked
    <3> QED BY <1>4, <2>1, <2>2, <3>1
  <2>7. \A h \in Groups : \A k \in 1 .. 4 :
          /\ At(h, k) \in Corners
          /\ At(h, k) = c /\ SideOf[k] = SideOf[v] => h = g /\ k = v
    <3> SUFFICES ASSUME NEW h \in Groups, NEW k \in 1 .. 4
                 PROVE  /\ At(h, k) \in Corners
                        /\ At(h, k) = c /\ SideOf[k] = SideOf[v] => h = g /\ k = v
      OBVIOUS
    <3>1. At(h, k) \in Corners /\ (SideOf[k] = SideOf[v] => k = v)
      BY <1>1, <2>1, CornersAre DEF At
    <3>2. k = v /\ At(h, k) = c => h = g
      BY <1>1, <2>1, <2>2, CornersAre DEF At
    <3> QED BY <3>1, <3>2
  <2>8. MarksNow
    <3> SUFFICES ASSUME NEW h \in Groups, NEW k \in 1 .. 4
                 PROVE  SideOf[k] \in counters'[At(h, k)] <=> MarkedNow(h, k)
      OBVIOUS
    <3>1. SideOf[k] \in counters'[At(h, k)] <=> Marked(h, k) \/ (h = g /\ k = v)
      <4>1. SideOf[k] \in counters[At(h, k)] <=> Marked(h, k)
        BY <1>4
      <4>2. CASE At(h, k) = c
        BY <2>2, <2>3, <2>7, <4>1, <4>2
      <4>3. CASE At(h, k) # c
        BY <2>2, <2>3, <2>7, <4>1, <4>3
      <4> QED BY <4>2, <4>3
    <3>2. CASE h # g
      <4>1. MarkedNow(h, k) <=> Marked(h, k)
        BY <2>1, <2>2, <2>3, <3>2 DEF Marked
      <4> QED BY <3>1, <3>2, <4>1
    <3>3. CASE h = g
      <4>1. Marked(h, k) <=> k <= v - 1
        <5>1. \A u \in Threads : lane[u].at = "mark" /\ lane[u].group = g => u = t
          BY <2>4
        <5> QED BY <2>1, <2>2, <2>5, <3>3, <5>1 DEF Marked
      <4>2. MarkedNow(h, k) <=> k <= v
        <5>1. \A u \in Threads : lane'[u].at = "mark" /\ lane'[u].group = g => u = t
          BY <2>3, <2>4
        <5>2. CASE v = 4
          BY <2>1, <2>5, <3>3, <5>1, <5>2
        <5>3. CASE v # 4
          BY <2>1, <2>5, <3>3, <5>1, <5>3
        <5> QED BY <5>2, <5>3
      <4> QED BY <2>1, <3>1, <3>3, <4>1, <4>2
    <3> QED BY <3>2, <3>3
  <2>9. \A d \in Corners : counters[d] \subseteq counters'[d]
    BY <2>3
  <2>10. \A k \in 1 .. 4 : SeenNow(t, k) =>
           /\ k = v \/ (Seen(t, k) /\ lane'[t].status[k] = lane[t].status[k])
           /\ k = v => lane'[t].status[k] = counters'[c] /\ SideOf[v] \in counters'[c]
    <3> SUFFICES ASSUME NEW k \in 1 .. 4, SeenNow(t, k)
                 PROVE  /\ k = v \/ (Seen(t, k) /\ lane'[t].status[k] = lane[t].status[k])
                        /\ k = v => lane'[t].status[k] = counters'[c] /\ SideOf[v] \in counters'[c]
      OBVIOUS
    <3>1. k \in 1 .. v
      BY <2>1
    <3>2. CASE k = v
      BY <2>1, <2>3, <3>2
    <3>3. CASE k # v
      <4>1. k \in 1 .. v - 1
        BY <2>1, <3>1, <3>3
      <4> QED BY <2>1, <2>2, <3>3, <4>1 DEF Seen
    <3> QED BY <3>2, <3>3
  <2>11. \A u \in Threads : \A k \in 1 .. 4 :
           At(lane[u].group, k) \in Corners \/ lane[u] = Free
    <3> SUFFICES ASSUME NEW u \in Threads, NEW k \in 1 .. 4, lane[u] # Free
                 PROVE  At(lane[u].group, k) \in Corners
      OBVIOUS
    <3>1. lane[u].group \in Groups
      BY <1>1 DEF LanesInv
    <3> QED BY <1>1, <3>1, CornersAre DEF At
  <2>12. ASSUME NEW u \in Threads
         PROVE  ThreadNow(u)
    <3>1. CASE u = t
      <4>1. lane'[t].at = "mark" => Len(lane'[t].status) < 4
        BY <2>1
      <4>2. lane'[t].at = "draw" => Len(lane'[t].status) = 4
        BY <2>1
      <4>3. lane'[t].at # "save"
        BY <2>1
      <4>4. ASSUME NEW k \in 1 .. 4, SeenNow(t, k)
            PROVE  /\ SideOf[k] \in lane'[t].status[k]
                   /\ lane'[t].status[k] \subseteq counters'[At(lane'[t].group, k)]
        <5>1. CASE k = v
          BY <2>1, <2>2, <2>10, <4>4, <5>1
        <5>2. CASE k # v
          <6>1. Seen(t, k) /\ lane'[t].status[k] = lane[t].status[k]
            BY <2>10, <4>4, <5>2
          <6>2. /\ SideOf[k] \in lane[t].status[k]
                /\ lane[t].status[k] \subseteq counters[At(g, k)]
            BY <1>5, <2>2, <6>1
          <6>3. At(g, k) \in Corners
            BY <2>1, <2>7
          <6> QED BY <2>1, <2>9, <6>1, <6>2, <6>3
        <5> QED BY <5>1, <5>2
      <4> QED BY <3>1, <4>1, <4>2, <4>3, <4>4
    <3>2. CASE u # t
      <4>1. lane'[u] = lane[u]
        BY <2>3, <3>2
      <4>2. \A k \in 1 .. 4 : SeenNow(u, k) => Seen(u, k) /\ lane[u] # Free
        BY <4>1 DEF Seen, Free
      <4>3. ASSUME NEW k \in 1 .. 4, SeenNow(u, k)
            PROVE  /\ SideOf[k] \in lane'[u].status[k]
                   /\ lane'[u].status[k] \subseteq counters'[At(lane'[u].group, k)]
        <5>1. /\ SideOf[k] \in lane[u].status[k]
              /\ lane[u].status[k] \subseteq counters[At(lane[u].group, k)]
          BY <1>5, <4>2, <4>3
        <5>2. At(lane[u].group, k) \in Corners
          BY <2>11, <4>2, <4>3
        <5> QED BY <2>9, <4>1, <5>1, <5>2
      <4> QED BY <1>5, <4>1, <4>3
    <3> QED BY <3>1, <3>2
  <2>13. ASSUME NEW u \in Threads \ {t}, NEW j \in 1 .. 4, NEW k \in 1 .. 4,
                SeenNow(t, j), SeenNow(u, k), At(lane'[t].group, j) = At(lane'[u].group, k)
         PROVE  ~ (SideOf[k] \in lane'[t].status[j] /\ SideOf[j] \in lane'[u].status[k])
    <3>1. lane'[u] = lane[u] /\ Seen(u, k)
      BY <2>3, <2>13 DEF Seen
    <3>2. CASE j = v
      <4>1. lane[u].status[k] \subseteq counters[At(lane[u].group, k)]
        BY <1>5, <3>1
      <4>2. At(lane[u].group, k) = c
        BY <2>1, <2>2, <2>13, <3>1, <3>2
      <4> QED BY <2>6, <3>1, <3>2, <4>1, <4>2
    <3>3. CASE j # v
      <4>1. Seen(t, j) /\ lane'[t].status[j] = lane[t].status[j]
        BY <2>10, <2>13, <3>3
      <4>2. At(lane[t].group, j) = At(lane[u].group, k)
        BY <2>1, <2>2, <2>13, <3>1
      <4> QED BY <1>6, <3>1, <4>1, <4>2
    <3> QED BY <3>2, <3>3
  <2>14. ASSUME NEW u \in Threads, NEW w \in Threads \ {u}
         PROVE  ApartNow(u, w)
    <3>1. CASE u = t
      BY <2>13, <3>1
    <3>2. CASE w = t
      BY <2>13, <3>2
    <3>3. CASE u # t /\ w # t
      <4>1. lane'[u] = lane[u] /\ lane'[w] = lane[w]
        BY <2>3, <3>3
      <4> QED BY <1>6, <4>1 DEF Seen
    <3> QED BY <3>1, <3>2, <3>3
  <2> QED BY <2>8, <2>12, <2>14
<1>12. ASSUME NEW t \in Threads, RenderRect(t) \/ Leave(t)
       PROVE  Goal
  <2>1. lane[t].at = "draw" /\ counters' = counters /\ saved' = saved
    BY <1>12 DEF RenderRect, Leave
  <2>2. CASE RenderRect(t)
    BY <1>1, <1>8, <2>1, <2>2, LaneDraws
  <2>3. CASE Leave(t)
    BY <1>1, <1>8, <2>1, <2>3, LaneLeaves
  <2> QED BY <1>12, <2>2, <2>3
<1> HIDE DEF Goal
<1> QED BY <1>7, <1>9, <1>10, <1>11, <1>12, StepCases

-----------------------------------------------------------------------------
(* What the threads draw.                                                  *)

\* Drawing the first rectangle leaves the others.
LEMMA TailIs ==
  ASSUME NEW rects \in Seq(Rects), rects # <<>>
  PROVE  /\ Tail(rects) \in Seq(Rects) /\ Len(Tail(rects)) = Len(rects) - 1
         /\ Covered(rects) \subseteq Area(Head(rects)) \cup Covered(Tail(rects))
         /\ Covered(Tail(rects)) \subseteq Covered(rects)
         /\ Area(Head(rects)) \subseteq Covered(rects)
         /\ Separate(rects) => Separate(Tail(rects))
<1> DEFINE tail == Tail(rects)
           n == Len(rects)
<1>1. /\ tail \in Seq(Rects) /\ Len(tail) = n - 1 /\ n \in Nat \ {0}
      /\ \A k \in 1 .. n - 1 : tail[k] = rects[k + 1]
      /\ Head(rects) = rects[1]
  OBVIOUS
<1> HIDE DEF tail, n
<1>2. ASSUME NEW p \in Covered(rects) PROVE p \in Area(Head(rects)) \cup Covered(tail)
  <2>1. PICK k \in 1 .. n : p \in Area(rects[k])
    BY <1>2 DEF Covered, n
  <2>2. CASE k = 1
    BY <1>1, <2>1, <2>2
  <2>3. CASE k # 1
    <3>1. k - 1 \in 1 .. Len(tail) /\ tail[k - 1] = rects[k]
      BY <1>1, <2>1, <2>3
    <3> QED BY <2>1, <3>1 DEF Covered
  <2> QED BY <2>2, <2>3
<1>3. ASSUME NEW p \in Covered(tail) PROVE p \in Covered(rects)
  <2>1. PICK k \in 1 .. n - 1 : p \in Area(tail[k])
    BY <1>1, <1>3 DEF Covered
  <2>2. k + 1 \in 1 .. Len(rects) /\ p \in Area(rects[k + 1])
    BY <1>1, <2>1 DEF n
  <2> QED BY <2>2 DEF Covered
<1>4. Area(Head(rects)) \subseteq Covered(rects)
  <2>1. 1 \in 1 .. Len(rects) /\ Head(rects) = rects[1]
    BY <1>1 DEF n
  <2> QED BY <2>1 DEF Covered
<1>5. ASSUME Separate(rects), NEW j \in 1 .. n - 1, NEW k \in 1 .. n - 1, j # k
      PROVE  Area(tail[j]) \cap Area(tail[k]) = {}
  <2>1. j + 1 \in 1 .. Len(rects) /\ k + 1 \in 1 .. Len(rects) /\ j + 1 # k + 1
    BY <1>1, <1>5 DEF n
  <2>2. tail[j] = rects[j + 1] /\ tail[k] = rects[k + 1]
    BY <1>1
  <2> QED BY <1>5, <2>1, <2>2 DEF Separate
<1>6. Separate(rects) => Separate(tail)
  BY <1>1, <1>5 DEF Separate
<1>7. Covered(rects) \subseteq Area(Head(rects)) \cup Covered(tail) /\ Covered(tail) \subseteq Covered(rects)
  BY <1>2, <1>3
<1> QED BY <1>1, <1>4, <1>6, <1>7 DEF tail, n

LEMMA NothingCovered ==
  Covered(<<>>) = {}
<1>1. \A k : k \notin 1 .. Len(<<>>)
  OBVIOUS
<1> QED BY <1>1 DEF Covered

LEMMA RectsStep ==
  ASSUME IInv, Next
  PROVE  RectsInv'
<1>1. /\ TypeOK /\ LanesInv /\ MarksInv /\ RectsInv /\ frame \in Frames /\ frame' = frame
      /\ lane \in [Threads -> Lanes]
  BY NextKeepsFrame DEF IInv, TypeOK, BorderTypeOK
<1> DEFINE Drawn(g, status) == {p \in Pixels : Draws(g, status, p)}
           ThreadNow(t) ==
             /\ lane'[t].at # "draw" => lane'[t].rects = <<>>
             /\ lane'[t].at = "draw" =>
                  /\ Len(lane'[t].rects) <= 3
                  /\ Covered(lane'[t].rects) \subseteq Drawn(lane'[t].group, lane'[t].status)
                  /\ Separate(lane'[t].rects)
<1>2. /\ Pixels' = Pixels
      /\ \A p : NearGroups(p)' = NearGroups(p) /\ NearSides(p)' = NearSides(p)
      /\ \A g, p : Visit(g, p)' = Visit(g, p)
  BY <1>1, FrameStays
<1>3. SUFFICES \A t \in Threads : ThreadNow(t)
  <2>1. \A t \in Threads :
          {p \in Pixels : Draws(lane[t].group, lane[t].status, p)}' = Drawn(lane'[t].group, lane'[t].status)
    BY <1>2 DEF Draws
  <2>2. \A t \in Threads : Covered(lane[t].rects)' = Covered(lane'[t].rects)
    BY DEF Covered
  <2>3. \A t \in Threads : Separate(lane[t].rects)' = Separate(lane'[t].rects)
    BY DEF Separate
  <2> HIDE DEF Drawn
  <2> QED BY <2>1, <2>2, <2>3 DEF RectsInv
<1>4. \A t \in Threads :
        /\ lane[t].at # "draw" => lane[t].rects = <<>>
        /\ lane[t].at = "draw" =>
             /\ Len(lane[t].rects) <= 3
             /\ Covered(lane[t].rects) \subseteq Drawn(lane[t].group, lane[t].status)
             /\ Separate(lane[t].rects)
  BY <1>1 DEF RectsInv
<1> HIDE DEF Drawn
<1>5. CASE CallerStep
  <2>1. lane' = lane
    BY <1>1, <1>5, CallerIsAlone
  <2> QED BY <1>4, <2>1
<1>6. ASSUME NEW t \in Threads, DecodeGroup(t) \/ DrawGroup(t)
      PROVE  \A u \in Threads : ThreadNow(u)
  <2>1. PICK g \in todo : lane' = lane \/ Begins(t, g)
    BY <1>1, <1>6, BeginIs
  <2>2. \A u \in Threads : lane'[u] = lane[u] \/ (lane'[u].at = "save" /\ lane'[u].rects = <<>>)
    BY <2>1 DEF Begins, OthersStay
  <2> QED BY <1>4, <2>2
<1>7. ASSUME NEW t \in Threads, OthersStay(t), ThreadNow(t)
      PROVE  \A u \in Threads : ThreadNow(u)
  BY <1>4, <1>7 DEF OthersStay
<1>8. ASSUME NEW t \in Threads, SaveBorders(t)
      PROVE  ThreadNow(t) /\ OthersStay(t)
  <2>1. lane'[t].at = "mark" /\ lane'[t].rects = lane[t].rects /\ lane[t].at = "save" /\ OthersStay(t)
    BY <1>1, <1>8, LaneSaves DEF SaveBorders
  <2> QED BY <1>4, <2>1
<1>9. ASSUME NEW t \in Threads, MarkCorner(t)
      PROVE  ThreadNow(t) /\ OthersStay(t)
  <2>1. /\ MarkGroup(t) \in Groups /\ MarkVisit(t) \in 1 .. 4
        /\ MarkVisit(t) = 4 => Statuses(MarkStatus(t))
        /\ OthersStay(t)
        /\ lane'[t].at = IF MarkVisit(t) = 4 THEN "draw" ELSE "mark"
        /\ lane'[t].group = MarkGroup(t)
        /\ lane'[t].status = MarkStatus(t)
        /\ lane'[t].rects =
             IF MarkVisit(t) = 4 THEN RectsToFinalize(MarkGroup(t), MarkStatus(t)) ELSE <<>>
    BY <1>1, <1>9, MarkIs
  <2>2. CASE MarkVisit(t) = 4
    <3> DEFINE rects == RectsToFinalize(MarkGroup(t), MarkStatus(t))
    <3>1. Statuses(MarkStatus(t)) /\ MarkGroup(t) \in Groups
      BY <2>1, <2>2
    <3>2. Len(rects) <= 3 /\ Covered(rects) = Drawn(MarkGroup(t), MarkStatus(t)) /\ Separate(rects)
      BY <1>1, <3>1, RectsToFinalizeAre DEF Drawn
    <3> HIDE DEF rects
    <3>3. lane'[t].rects = rects /\ lane'[t].at = "draw"
      BY <2>1, <2>2 DEF rects
    <3> QED BY <2>1, <3>2, <3>3
  <2>3. CASE MarkVisit(t) # 4
    BY <2>1, <2>3
  <2> QED BY <2>2, <2>3
<1>10. ASSUME NEW t \in Threads, RenderRect(t)
       PROVE  ThreadNow(t) /\ OthersStay(t)
  <2>1. /\ lane[t].at = "draw" /\ lane[t].rects # <<>> /\ OthersStay(t)
        /\ lane'[t].at = "draw" /\ lane'[t].group = lane[t].group
        /\ lane'[t].status = lane[t].status /\ lane'[t].rects = Tail(lane[t].rects)
    BY <1>1, <1>10, LaneDraws DEF RenderRect
  <2> DEFINE rects == lane[t].rects
  <2>2. rects \in Seq(Rects) /\ Len(rects) \in Nat /\ Len(rects) <= 3
    BY <1>1, <1>4, <2>1, LaneType
  <2>3. /\ Len(Tail(rects)) = Len(rects) - 1
        /\ Covered(Tail(rects)) \subseteq Covered(rects)
        /\ Separate(rects) => Separate(Tail(rects))
    BY <2>1, <2>2, TailIs
  <2> QED BY <1>4, <2>1, <2>2, <2>3
<1>11. ASSUME NEW t \in Threads, Leave(t)
       PROVE  ThreadNow(t) /\ OthersStay(t)
  BY <1>1, <1>11, LaneLeaves
<1> HIDE DEF ThreadNow
<1> QED BY <1>5, <1>6, <1>7, <1>8, <1>9, <1>10, <1>11, StepCases

-----------------------------------------------------------------------------
(* What is still to be drawn.                                              *)

\* Of the groups a pixel depends on, all saved, the one that does not see all
\* the others at their common corner is not the last: another has still to mark
\* it.
LEMMA AnotherMarks ==
  ASSUME TypeOK, MarksInv, NEW p \in Pixels, NEW g \in NearGroups(p), NearGroups(p) \subseteq saved,
         ~ NearSides(p) \subseteq counters[CornerOf(g)[Visit(g, p)]] \cup {SideOf[Visit(g, p)]}
  PROVE  \E u \in Threads :
           /\ lane[u].at = "mark" /\ lane[u].group \in NearGroups(p) /\ lane[u].group # g
           /\ Len(lane[u].status) < Visit(lane[u].group, p)
<1>1. frame \in Frames /\ lane \in [Threads -> Lanes]
  BY DEF TypeOK, BorderTypeOK
<1>2. PICK h \in NearGroups(p) :
        SideOf[Visit(h, p)] \notin counters[CornerOf(g)[Visit(g, p)]] \cup {SideOf[Visit(g, p)]}
  BY DEF NearSides
<1>3. h # g
  BY <1>2
<1>4. CornerOf(h)[Visit(h, p)] = CornerOf(g)[Visit(g, p)] /\ Visit(h, p) \in 1 .. 4
  BY <1>1, VisitsMeet
<1>5. h \in Groups /\ h \in saved
  BY DEF NearGroups
<1>6. ~ Marked(h, Visit(h, p))
  BY <1>2, <1>4, <1>5 DEF MarksInv
<1>7. PICK u \in Threads :
        lane[u].at = "mark" /\ lane[u].group = h /\ ~ (Visit(h, p) <= Len(lane[u].status))
  BY <1>5, <1>6 DEF Marked
<1>8. Len(lane[u].status) \in Nat
  <2>1. lane[u].status \in Seq(SUBSET Sides)
    BY <1>1, LaneType
  <2> QED BY <2>1
<1> QED BY <1>3, <1>4, <1>7, <1>8

LEMMA CoverStep ==
  ASSUME IInv, Next
  PROVE  CoverInv'
<1>1. /\ TypeOK /\ LanesInv /\ SavedInv /\ MarksInv /\ RectsInv /\ CoverInv
      /\ frame \in Frames /\ frame' = frame
      /\ lane \in [Threads -> Lanes] /\ stale \subseteq Pixels
  BY NextKeepsFrame DEF IInv, TypeOK, BorderTypeOK
<1> DEFINE MayNow(t, p) ==
             /\ lane'[t].at \in {"mark", "draw"}
             /\ lane'[t].group \in NearGroups(p)
             /\ LET k == Visit(lane'[t].group, p)
                IN  \/ Len(lane'[t].status) < k
                    \/ lane'[t].at = "mark" /\ NearSides(p) \subseteq lane'[t].status[k]
                    \/ lane'[t].at = "draw" /\ p \in Covered(lane'[t].rects)
           Goal == \A p \in stale' : NearGroups(p) \subseteq saved' => \E t \in Threads : MayNow(t, p)
<1>2. SUFFICES Goal
  <2>1. /\ \A p : NearGroups(p)' = NearGroups(p) /\ NearSides(p)' = NearSides(p)
        /\ \A g, p : Visit(g, p)' = Visit(g, p)
    BY <1>1, FrameStays
  <2>2. \A t : Covered(lane[t].rects)' = Covered(lane'[t].rects)
    BY DEF Covered
  <2>3. \A t, p : MayDraw(t, p)' <=> MayNow(t, p)
    BY <2>1, <2>2 DEF MayDraw
  <2> QED BY <2>1, <2>3 DEF CoverInv
<1>3. ASSUME NEW t, NEW p, lane'[t] = lane[t], MayDraw(t, p)
      PROVE  MayNow(t, p)
  BY <1>3 DEF MayDraw
<1> HIDE DEF MayNow
<1>4. CASE CallerStep
  <2>1. \A t \in Threads : lane[t].at = "free"
    BY <1>1, <1>4, CallerIsAlone
  <2>2. \A p \in stale : ~ NearGroups(p) \subseteq saved
    BY <1>1, <2>1 DEF CoverInv, MayDraw
  <2>3. CASE \E gs \in SUBSET Groups : Starts(gs)
    <3>1. stale' = stale /\ saved' \subseteq saved
      BY <2>3 DEF Starts
    <3> QED BY <2>2, <3>1
  <2>4. CASE stale' = stale /\ saved' = saved
    BY <2>2, <2>4
  <2>5. CASE stale' = Pixels /\ saved' = {}
    BY <1>1, <2>5, NearNotEmpty
  <2> QED BY <1>1, <1>4, <2>3, <2>4, <2>5, CallerCases
<1>5. ASSUME NEW t \in Threads, DecodeGroup(t) \/ DrawGroup(t)
      PROVE  Goal
  <2>1. PICK g \in todo : /\ saved' = saved /\ stale' = stale /\ lane[t] = Free
                          /\ lane' = lane \/ Begins(t, g)
    BY <1>1, <1>5, BeginIs
  <2>2. \A u \in Threads : lane'[u] = lane[u] \/ lane[u].at = "free"
    BY <2>1 DEF Begins, OthersStay, Free
  <2>3. \A u \in Threads : \A p : MayDraw(u, p) => MayNow(u, p)
    <3> SUFFICES ASSUME NEW u \in Threads, NEW p, MayDraw(u, p) PROVE MayNow(u, p)
      OBVIOUS
    <3>1. lane[u].at # "free"
      BY DEF MayDraw
    <3> QED BY <1>3, <2>2, <3>1
  <2> QED BY <1>1, <2>1, <2>3 DEF CoverInv
<1>6. ASSUME NEW t \in Threads, SaveBorders(t)
      PROVE  Goal
  <2> DEFINE g == lane[t].group
  <2>1. /\ lane[t].at = "save" /\ saved' = saved \cup {g} /\ stale' = stale \cup NearPixels(g)
        /\ lane[t].status = <<>>
    BY <1>1, <1>6 DEF SaveBorders, MarksInv
  <2>2. /\ \A u \in Threads \ {t} : lane'[u] = lane[u]
        /\ lane'[t].at = "mark" /\ lane'[t].group = g /\ lane'[t].status = <<>>
    BY <1>1, <1>6, <2>1, LaneSaves DEF OthersStay
  <2>3. ASSUME NEW p \in stale', NearGroups(p) \subseteq saved'
        PROVE  \E u \in Threads : MayNow(u, p)
    <3>1. CASE g \in NearGroups(p)
      <4>1. p \in Pixels
        BY <1>1, <2>1, <2>3 DEF NearPixels
      <4>2. Visit(g, p) \in 1 .. 4
        BY <1>1, <3>1, <4>1, VisitsMeet
      <4>3. Len(lane'[t].status) < Visit(g, p)
        <5>1. Len(<<>>) = 0
          OBVIOUS
        <5> QED BY <2>2, <4>2, <5>1
      <4>4. MayNow(t, p)
        BY <2>2, <3>1, <4>3 DEF MayNow
      <4> QED BY <4>4
    <3>2. CASE g \notin NearGroups(p)
      <4>1. p \in stale /\ NearGroups(p) \subseteq saved
        BY <2>1, <2>3, <3>2 DEF NearPixels
      <4>2. PICK u \in Threads : MayDraw(u, p)
        BY <1>1, <4>1 DEF CoverInv
      <4>3. u # t
        BY <2>1, <4>2 DEF MayDraw
      <4> QED BY <1>3, <2>2, <4>2, <4>3
    <3> QED BY <3>1, <3>2
  <2> QED BY <2>3
<1>7. ASSUME NEW t \in Threads, MarkCorner(t)
      PROVE  Goal
  <2> DEFINE g == MarkGroup(t)
             v == MarkVisit(t)
             c == MarkedCorner(t)
             status == MarkStatus(t)
  <2>1. /\ lane[t].at = "mark" /\ g \in Groups /\ v \in 1 .. 4
        /\ saved' = saved /\ stale' = stale /\ Len(status) = v
        /\ \A j \in 1 .. v - 1 : status[j] = lane[t].status[j]
        /\ status[v] = counters[c] \cup {SideOf[v]}
        /\ v = 4 => Statuses(status)
        /\ OthersStay(t)
        /\ lane'[t].at = IF v = 4 THEN "draw" ELSE "mark"
        /\ lane'[t].group = g /\ lane'[t].status = status
        /\ lane'[t].rects = IF v = 4 THEN RectsToFinalize(g, status) ELSE <<>>
    BY <1>1, <1>7, MarkIs
  <2>2. /\ g = lane[t].group /\ v = Len(lane[t].status) + 1 /\ c = CornerOf(g)[v]
        /\ Len(lane[t].status) \in Nat
    <3>1. lane[t].status \in Seq(SUBSET Sides)
      BY <1>1, LaneType
    <3> QED BY <3>1 DEF MarkGroup, MarkVisit, MarkedCorner
  <2>3. \A u \in Threads \ {t} : lane'[u] = lane[u]
    BY <2>1 DEF OthersStay
  <2>4. v = 4 => Covered(RectsToFinalize(g, status)) = {p \in Pixels : Draws(g, status, p)}
    BY <1>1, <2>1, RectsToFinalizeAre
  <2> HIDE DEF g, v, c, status
  <2>5. ASSUME NEW p \in Pixels, g \in NearGroups(p),
               Visit(g, p) > v \/ NearSides(p) \subseteq status[Visit(g, p)]
        PROVE  MayNow(t, p)
    <3>1. Visit(g, p) \in 1 .. 4
      BY <1>1, <2>5, VisitsMeet
    <3>2. CASE Visit(g, p) > v
      BY <2>1, <2>5, <3>1, <3>2 DEF MayNow
    <3>3. CASE NearSides(p) \subseteq status[Visit(g, p)] /\ v = 4
      <4>1. p \in Covered(lane'[t].rects)
        BY <2>1, <2>4, <2>5, <3>3 DEF Draws
      <4> QED BY <2>1, <2>5, <3>3, <4>1 DEF MayNow
    <3>4. CASE NearSides(p) \subseteq status[Visit(g, p)] /\ v # 4
      BY <2>1, <2>5, <3>4 DEF MayNow
    <3> QED BY <2>5, <3>2, <3>3, <3>4
  <2>6. ASSUME NEW p \in stale', NearGroups(p) \subseteq saved'
        PROVE  \E u \in Threads : MayNow(u, p)
    <3>1. p \in Pixels /\ p \in stale /\ NearGroups(p) \subseteq saved
      BY <1>1, <2>1, <2>6
    <3>2. PICK u \in Threads : MayDraw(u, p)
      BY <1>1, <3>1 DEF CoverInv
    <3>3. CASE u # t
      BY <1>3, <2>3, <3>2, <3>3
    <3>4. CASE u = t
      <4>1. g \in NearGroups(p)
        BY <2>2, <3>2, <3>4 DEF MayDraw
      <4> DEFINE k == Visit(g, p)
      <4>2. k \in 1 .. 4
        BY <1>1, <3>1, <4>1, VisitsMeet
      <4>3. Len(lane[t].status) < k \/ NearSides(p) \subseteq lane[t].status[k]
        BY <2>1, <2>2, <3>2, <3>4 DEF MayDraw
      <4> HIDE DEF k
      <4>4. CASE k < v
        <5>1. NearSides(p) \subseteq status[k]
          BY <2>1, <2>2, <4>2, <4>3, <4>4
        <5> QED BY <2>5, <3>1, <4>1, <5>1 DEF k
      <4>5. CASE k > v
        BY <2>5, <3>1, <4>1, <4>5 DEF k
      <4>6. CASE k = v /\ NearSides(p) \subseteq status[v]
        BY <2>5, <3>1, <4>1, <4>6 DEF k
      <4>7. CASE k = v /\ ~ NearSides(p) \subseteq status[v]
        <5>1. ~ NearSides(p) \subseteq counters[CornerOf(g)[Visit(g, p)]] \cup {SideOf[Visit(g, p)]}
          BY <2>1, <2>2, <4>7 DEF k
        <5>2. PICK w \in Threads :
                /\ lane[w].at = "mark" /\ lane[w].group \in NearGroups(p) /\ lane[w].group # g
                /\ Len(lane[w].status) < Visit(lane[w].group, p)
          BY <1>1, <3>1, <4>1, <5>1, AnotherMarks
        <5>3. w # t /\ MayDraw(w, p)
          BY <2>2, <5>2 DEF MayDraw
        <5> QED BY <1>3, <2>3, <5>3
      <4> QED BY <2>1, <4>2, <4>4, <4>5, <4>6, <4>7
    <3> QED BY <3>3, <3>4
  <2> QED BY <2>6
<1>8. ASSUME NEW t \in Threads, RenderRect(t)
      PROVE  Goal
  <2>1. /\ lane[t].at = "draw" /\ lane[t].rects # <<>> /\ OthersStay(t)
        /\ lane'[t].at = "draw" /\ lane'[t].group = lane[t].group
        /\ lane'[t].status = lane[t].status /\ lane'[t].rects = Tail(lane[t].rects)
        /\ saved' = saved /\ stale' = stale \ Area(Head(lane[t].rects))
    BY <1>1, <1>8, LaneDraws DEF RenderRect
  <2>2. lane[t].rects \in Seq(Rects) /\ Len(lane[t].status) = 4
    BY <1>1, <2>1, LaneType DEF MarksInv
  <2>3. Covered(lane[t].rects) \subseteq Area(Head(lane[t].rects)) \cup Covered(Tail(lane[t].rects))
    BY <2>1, <2>2, TailIs
  <2>4. ASSUME NEW p \in stale', NearGroups(p) \subseteq saved'
        PROVE  \E u \in Threads : MayNow(u, p)
    <3>1. p \in Pixels /\ p \in stale /\ NearGroups(p) \subseteq saved /\ p \notin Area(Head(lane[t].rects))
      BY <1>1, <2>1, <2>4
    <3>2. PICK u \in Threads : MayDraw(u, p)
      BY <1>1, <3>1 DEF CoverInv
    <3>3. CASE u # t
      BY <1>3, <2>1, <3>2, <3>3 DEF OthersStay
    <3>4. CASE u = t
      <4>1. lane[t].group \in NearGroups(p)
        BY <3>2, <3>4 DEF MayDraw
      <4>2. Visit(lane[t].group, p) \in 1 .. 4
        BY <1>1, <3>1, <4>1, VisitsMeet
      <4>3. p \in Covered(lane[t].rects)
        <5>1. \/ Len(lane[t].status) < Visit(lane[t].group, p)
              \/ p \in Covered(lane[t].rects)
          BY <2>1, <3>2, <3>4 DEF MayDraw
        <5>2. ~ (Len(lane[t].status) < Visit(lane[t].group, p))
          BY <2>2, <4>2
        <5> QED BY <5>1, <5>2
      <4>4. p \in Covered(Tail(lane[t].rects))
        BY <2>3, <3>1, <4>3
      <4>5. MayNow(t, p)
        BY <2>1, <4>1, <4>4 DEF MayNow
      <4> QED BY <4>5
    <3> QED BY <3>3, <3>4
  <2> QED BY <2>4
<1>9. ASSUME NEW t \in Threads, Leave(t)
      PROVE  Goal
  <2>1. /\ lane[t].at = "draw" /\ lane[t].rects = <<>> /\ OthersStay(t)
        /\ saved' = saved /\ stale' = stale
    BY <1>1, <1>9, LaneLeaves DEF Leave
  <2>2. Len(lane[t].status) = 4
    BY <1>1, <2>1 DEF MarksInv
  <2>3. ASSUME NEW p \in stale', NearGroups(p) \subseteq saved'
        PROVE  \E u \in Threads : MayNow(u, p)
    <3>1. p \in Pixels /\ p \in stale /\ NearGroups(p) \subseteq saved
      BY <1>1, <2>1, <2>3
    <3>2. PICK u \in Threads : MayDraw(u, p)
      BY <1>1, <3>1 DEF CoverInv
    <3>3. u # t
      <4> SUFFICES ASSUME u = t PROVE FALSE
        OBVIOUS
      <4>1. lane[t].group \in NearGroups(p)
        BY <3>2 DEF MayDraw
      <4>2. Visit(lane[t].group, p) \in 1 .. 4
        BY <1>1, <3>1, <4>1, VisitsMeet
      <4>3. p \in Covered(<<>>)
        BY <2>1, <2>2, <3>2, <4>2 DEF MayDraw
      <4> QED BY <4>3, NothingCovered
    <3> QED BY <1>3, <2>1, <3>2, <3>3 DEF OthersStay
  <2> QED BY <2>3
<1> HIDE DEF Goal
<1> QED BY <1>4, <1>5, <1>6, <1>7, <1>8, <1>9, StepCases

-----------------------------------------------------------------------------
(* The theorems.                                                            *)

\* What the state does not tell apart stays.
LEMMA StutterStep ==
  ASSUME IInv, UNCHANGED vars
  PROVE  IInv'
<1> DEFINE Same == /\ frame' = frame /\ counters' = counters /\ saved' = saved
                   /\ stale' = stale /\ lane' = lane
<1>1. Same /\ UNCHANGED <<sessionVars, frameVars, callVars>>
  BY DEF vars, borderVars
<1>2. /\ UNCHANGED <<prog_detail, avail, section_processed, next_section,
                     dc_frame_progression_done, next_num_passes_to_pause, outcome>>
      /\ UNCHANGED <<processed_section, num_sections_done, decoded_dc_global, decoded_dc_groups,
                     finalized_dc, decoded_ac_global, decoded_passes>>
      /\ UNCHANGED <<phase, given, duplicate, done, desired, num_threads, todo, has_error>>
  BY <1>1 DEF sessionVars, frameVars, callVars
<1>3. /\ Groups' = Groups /\ NumGroups' = NumGroups /\ Pixels' = Pixels /\ Corners' = Corners
      /\ Sections' = Sections /\ Single' = Single
      /\ \A p : NearGroups(p)' = NearGroups(p)
      /\ \A g : CornerOf(g)' = CornerOf(g)
      /\ \A g, p : Visit(g, p)' = Visit(g, p)
      /\ \A p : NearSides(p)' = NearSides(p)
  BY <1>1, FrameStays
<1>4. /\ Stops' = Stops
      /\ NumCompletePasses' = NumCompletePasses
      /\ NextNumPassesToPause' = NextNumPassesToPause
  BY <1>1, <1>2, PausesStay
<1>5. InCall' = InCall /\ Drawing' = Drawing /\ Given' = Given /\ HasDecodedAll' = HasDecodedAll
  BY <1>1, <1>2 DEF InCall, Drawing, Given, HasDecodedAll
<1>6. \A part : Decoded(part)' = Decoded(part)
  BY <1>1, <1>2, <1>3 DEF Decoded
<1>7. TypeOK'
  BY <1>1, <1>2, <1>3
     DEF IInv, TypeOK, BorderTypeOK, SessionTypeOK, FrameTypeOK, CallTypeOK, FlagsOK
<1>8. LanesInv'
  BY <1>1, <1>2, <1>3, <1>5 DEF IInv, LanesInv, StorageLocation
<1>9. SavedInv'
  BY <1>1, <1>2, <1>5 DEF IInv, SavedInv
<1>10. RecordsInv'
  BY <1>2, <1>5 DEF IInv, RecordsInv
<1>11. OrderInv'
  BY <1>1, <1>2, <1>3, <1>6 DEF IInv, OrderInv
<1>12. \A g : Wanted(g)' = Wanted(g)
  BY <1>1, <1>2, <1>5 DEF Wanted
<1>13. DesiredInv'
  BY <1>2, <1>3, <1>12 DEF IInv, DesiredInv
<1>14. SingleInv'
  BY <1>1, <1>2, <1>3, <1>5 DEF IInv, SingleInv
<1>15. DoneInv'
  BY <1>1, <1>2, <1>3, <1>5, <1>6 DEF IInv, DoneInv
<1>16. DrawnInv'
  BY <1>1, <1>2, <1>3 DEF IInv, DrawnInv
<1>17. PausesInv'
  BY <1>1, <1>2, <1>3, <1>4 DEF IInv, PausesInv
<1>18. MarksInv'
  BY <1>1, <1>3 DEF IInv, MarksInv, Marked, Seen
<1>19. RectsInv'
  BY <1>1, <1>3 DEF IInv, RectsInv, Draws
<1>20. CoverInv'
  BY <1>1, <1>3 DEF IInv, CoverInv, MayDraw
<1> QED
  BY <1>7, <1>8, <1>9, <1>10, <1>11, <1>13, <1>14, <1>15, <1>16, <1>17, <1>18, <1>19, <1>20
     DEF IInv

\* Every state of a run meets the inductive invariant.
THEOREM FrameInvariant == Spec => []IInv
<1>1. Init => IInv
  BY InvInit
<1>2. IInv /\ [Next]_vars => IInv'
  <2>1. IInv /\ Next => IInv'
    <3> SUFFICES ASSUME IInv, Next PROVE IInv'
      OBVIOUS
    <3> QED
      BY TypeStep, LanesStep, SavedStep, RecordsStep, OrderStep, DesiredStep, SingleStep, DoneStep,
         DrawnStep, PausesStep, MarksStep, RectsStep, CoverStep DEF IInv
  <2>2. IInv /\ UNCHANGED vars => IInv'
    BY StutterStep
  <2> QED BY <2>1, <2>2
<1> QED BY <1>1, <1>2, PTL DEF Spec
\* The variables range over what they should, in frames of any size.
THEOREM FrameTypes == Spec => []TypeOK
<1>1. IInv => TypeOK
  BY DEF IInv
<1> QED BY <1>1, FrameInvariant, PTL

-----------------------------------------------------------------------------
(* What threads may draw, and in which buffers.                            *)

\* StorageIsExclusive: GetStorageLocation gives threads at work buffers of
\* their own, among those PrepareStorage allocates.
THEOREM StorageIsNeverShared == Spec => []StorageIsExclusive
<1>1. ASSUME IInv
      PROVE  StorageIsExclusive
  <2>1. frame \in Frames /\ lane \in [Threads -> Lanes] /\ num_threads \in Nat
    BY <1>1 DEF IInv, TypeOK, BorderTypeOK, CallTypeOK
  <2>2. NumGroups \in Nat \ {0} /\ Groups = 0 .. NumGroups - 1
    BY <2>1, GroupsFacts
  <2>3. \A t \in Threads : lane[t] # Free =>
          /\ t \in Nat /\ t < num_threads /\ lane[t].group \in Groups
          /\ lane[t].storage = IF frame.full THEN t ELSE StorageLocation(t, lane[t].group, NumGroups)
          /\ \A u \in Threads \ {t} : lane[u] # Free => lane[u].group # lane[t].group
    BY <1>1, ThreadsAssumption DEF IInv, LanesInv
  <2>4. \A t \in Threads : lane[t] # Free =>
          lane[t].storage < (IF frame.full THEN num_threads ELSE Least(num_threads, NumGroups))
    BY <2>1, <2>2, <2>3 DEF StorageLocation, Least
  <2>5. \A t \in Threads : \A u \in Threads \ {t} :
          lane[t] # Free /\ lane[u] # Free => lane[u].storage # lane[t].storage
    BY <2>2, <2>3 DEF StorageLocation
  <2> QED BY <2>4, <2>5 DEF StorageIsExclusive
<1>2. IInv => StorageIsExclusive
  BY <1>1
<1> QED BY <1>2, FrameInvariant, PTL

\* What a thread has to draw is settled at the corner where its group came last.
LEMMA PendingIs ==
  ASSUME IInv, NEW t \in Threads, NEW p \in Pending(t)
  PROVE  /\ frame \in Frames /\ p \in Pixels
         /\ lane[t].at = "draw" /\ lane[t].group \in Groups /\ lane[t].group \in NearGroups(p)
         /\ Visit(lane[t].group, p) \in 1 .. 4
         /\ Seen(t, Visit(lane[t].group, p))
         /\ NearSides(p) \subseteq lane[t].status[Visit(lane[t].group, p)]
<1>1. Pending(t) = Covered(lane[t].rects)
  BY DEF Pending, Covered
<1>2. frame \in Frames /\ lane[t] \in Lanes
  BY DEF IInv, TypeOK, BorderTypeOK
<1>3. lane[t].at = "draw"
  <2>1. lane[t].at # "draw" => lane[t].rects = <<>>
    BY DEF IInv, RectsInv
  <2> QED BY <1>1, <2>1, NothingCovered
<1>4. p \in Pixels /\ Draws(lane[t].group, lane[t].status, p)
  BY <1>1, <1>3 DEF IInv, RectsInv
<1>5. lane[t].group \in NearGroups(p) /\ lane[t].group \in Groups
      /\ NearSides(p) \subseteq lane[t].status[Visit(lane[t].group, p)]
  BY <1>4 DEF Draws, NearGroups
<1>6. Visit(lane[t].group, p) \in 1 .. 4
  BY <1>2, <1>4, <1>5, VisitsMeet
<1>7. Len(lane[t].status) = 4
  BY <1>3 DEF IInv, MarksInv
<1> QED BY <1>2, <1>3, <1>4, <1>5, <1>6, <1>7 DEF Seen

\* DrawsFromSavedData: GroupDone makes a group draw only what all of the groups
\* around have saved; ClearDone takes nothing from a thread that draws.
THEOREM OnlySavedDataIsDrawn == Spec => []DrawsFromSavedData
<1>1. ASSUME IInv, NEW t \in Threads, NEW p \in Pending(t), NEW h \in NearGroups(p)
      PROVE  h \in saved
  <2> DEFINE g == lane[t].group
             k == Visit(g, p)
             j == Visit(h, p)
  <2>1. /\ frame \in Frames /\ p \in Pixels /\ g \in NearGroups(p) /\ k \in 1 .. 4
        /\ Seen(t, k) /\ NearSides(p) \subseteq lane[t].status[k]
    BY <1>1, PendingIs
  <2>2. j \in 1 .. 4 /\ CornerOf(g)[k] = CornerOf(h)[j]
    BY <2>1, VisitsMeet
  <2>3. SideOf[j] \in lane[t].status[k]
    BY <2>1 DEF NearSides
  <2>4. lane[t].status[k] \subseteq counters[CornerOf(g)[k]]
    BY <1>1, <2>1 DEF IInv, MarksInv
  <2>5. h \in Groups
    BY DEF NearGroups
  <2>6. SideOf[j] \in counters[CornerOf(h)[j]]
    BY <2>2, <2>3, <2>4
  <2>7. Marked(h, j)
    BY <1>1, <2>2, <2>5, <2>6 DEF IInv, MarksInv
  <2> QED BY <2>7 DEF Marked
<1>2. IInv => DrawsFromSavedData
  BY <1>1 DEF DrawsFromSavedData
<1> QED BY <1>2, FrameInvariant, PTL

\* AreasDisjoint: of the groups around a corner one is the last, whatever the
\* order in which threads mark it, and it alone draws what they share.
THEOREM EachPixelHasOneDrawer == Spec => []AreasDisjoint
<1>1. ASSUME IInv, NEW t \in Threads, NEW u \in Threads \ {t}, NEW p \in Pending(t), p \in Pending(u)
      PROVE  FALSE
  <2> DEFINE g == lane[t].group
             h == lane[u].group
             k == Visit(g, p)
             j == Visit(h, p)
  <2>1. /\ frame \in Frames /\ p \in Pixels /\ g \in NearGroups(p) /\ k \in 1 .. 4
        /\ Seen(t, k) /\ NearSides(p) \subseteq lane[t].status[k]
    BY <1>1, PendingIs
  <2>2. h \in NearGroups(p) /\ j \in 1 .. 4 /\ Seen(u, j) /\ NearSides(p) \subseteq lane[u].status[j]
    BY <1>1, PendingIs
  <2>3. CornerOf(g)[k] = CornerOf(h)[j]
    BY <2>1, <2>2, VisitsMeet
  <2>4. SideOf[j] \in lane[t].status[k] /\ SideOf[k] \in lane[u].status[j]
    BY <2>1, <2>2 DEF NearSides
  <2> QED BY <1>1, <2>1, <2>2, <2>3, <2>4 DEF IInv, MarksInv
<1>2. ASSUME IInv, NEW t \in Threads
      PROVE  /\ Len(lane[t].rects) <= 3
             /\ Pending(t) \subseteq Pixels
             /\ Separate(lane[t].rects)
  <2>1. CASE lane[t].at = "draw"
    BY <1>2, <2>1, PendingIs DEF IInv, RectsInv
  <2>2. CASE lane[t].at # "draw"
    <3>1. lane[t].rects = <<>>
      BY <1>2, <2>2 DEF IInv, RectsInv
    <3> QED BY <1>2, <3>1, PendingIs DEF Separate
  <2> QED BY <2>1, <2>2
<1>3. IInv => AreasDisjoint
  BY <1>1, <1>2 DEF AreasDisjoint, Separate
<1> QED BY <1>3, FrameInvariant, PTL

-----------------------------------------------------------------------------
(* What is shown between calls.                                            *)

\* NothingLeftUndrawn: when no run of the pool is going on, a pixel shows the
\* newest data unless some group it depends on has not saved any.
THEOREM NothingIsLeftUndrawn == Spec => []NothingLeftUndrawn
<1>1. ASSUME IInv, ~ Drawing, NEW p \in stale
      PROVE  ~ (NearGroups(p) \subseteq saved)
  <2>1. \A t \in Threads : lane[t].at = "free"
    BY <1>1, NobodyWorks DEF IInv
  <2>2. \A t \in Threads : ~ MayDraw(t, p)
    BY <2>1 DEF MayDraw
  <2> QED BY <1>1, <2>2 DEF IInv, CoverInv
<1>2. IInv => NothingLeftUndrawn
  BY <1>1 DEF NothingLeftUndrawn, Drawing
<1> QED BY <1>2, FrameInvariant, PTL

\* ImageIsComplete: JXL_DEC_FULL_IMAGE stands for all passes of all groups, drawn
\* on every pixel, of a frame with no damaged section.
THEOREM ReportedImageIsComplete == Spec => []ImageIsComplete
<1>1. ASSUME IInv, outcome = "image"
      PROVE  /\ stale = {}
             /\ \A g \in Groups : decoded_passes[g] = frame.passes
             /\ frame.broken = {}
  <2>1. HasDecodedAll /\ phase = "idle" /\ saved = Groups /\ stale \subseteq Pixels
    BY <1>1 DEF IInv, DoneInv, RecordsInv, DrawnInv, TypeOK, BorderTypeOK
  <2>2. (\A g \in Groups : decoded_passes[g] = frame.passes) /\ frame.broken = {}
    BY <1>1, <2>1, AllDecoded DEF IInv
  <2>3. \A t \in Threads : lane[t].at = "free"
    BY <1>1, <2>1, NobodyWorks DEF IInv, Drawing
  <2>4. \A p \in stale : NearGroups(p) \subseteq saved
    BY <2>1 DEF NearGroups
  <2>5. stale = {}
    BY <1>1, <2>3, <2>4 DEF IInv, CoverInv, MayDraw
  <2> QED BY <2>2, <2>5
<1>2. IInv => ImageIsComplete
  BY <1>1 DEF ImageIsComplete
<1> QED BY <1>2, FrameInvariant, PTL

\* RecordsAgree: MarkSections and JxlDecoderProcessSections keep one record of
\* the sections that are done, each on its own side.
THEOREM BothRecordsAgree == Spec => []RecordsAgree
<1>1. IInv => RecordsAgree
  BY DEF IInv, RecordsInv, InCall, RecordsAgree
<1> QED BY <1>1, FrameInvariant, PTL

\* PausesAreExact: JXL_DEC_FRAME_PROGRESSION is returned before the first pass,
\* or when every group has exactly the passes up to the pause.
THEOREM ProgressIsExact == Spec => PausesAreExact
<1> DEFINE Step ==
      outcome' = "progression" /\ phase = "report" /\ phase' = "idle" =>
        \A g \in Groups : decoded_passes[g] =
          IF dc_frame_progression_done' # dc_frame_progression_done
            THEN 0 ELSE next_num_passes_to_pause
<1>1. ASSUME IInv, Next, outcome' = "progression", phase = "report", phase' = "idle"
      PROVE  ReportDC \/ ReportPasses
  <2>1. ASSUME NEW t \in Threads, ThreadStep(t)
        PROVE  FALSE
    BY <1>1, <2>1 DEF ThreadStep, DecodeGroup, DrawGroup, Draw, callVars
  <2>2. CASE ProcessInput \/ Flush
    BY <1>1, <2>2 DEF ProcessInput, Flush, Usable
  <2>3. CASE DecodeDC \/ FinalizeDC \/ StartGroups \/ EndGroups \/ Mark \/ EndDrawing
    BY <1>1, <2>3 DEF DecodeDC, FinalizeDC, StartGroups, EndGroups, Mark, EndDrawing
  <2>4. CASE NeedMoreInput \/ FullImage
    BY <1>1, <2>4 DEF NeedMoreInput, FullImage, Returns
  <2>5. CASE FinalizeDecoding
    BY <1>1, <2>5 DEF FinalizeDecoding, StartDrawing
  <2> QED BY <1>1, <2>1, <2>2, <2>3, <2>4, <2>5 DEF Next, CallStep, DecoderStep
<1>2. ASSUME IInv, ReportDC
      PROVE  Step
  <2>1. \A g \in Groups : decoded_passes[g] = 0
    BY <1>2 DEF IInv, PausesInv, ReportDC
  <2>2. dc_frame_progression_done' # dc_frame_progression_done
    BY <1>2 DEF ReportDC
  <2> QED BY <2>1, <2>2
<1>3. ASSUME IInv, ReportPasses
      PROVE  Step
  <2>1. /\ dc_frame_progression_done' = dc_frame_progression_done
        /\ prog_detail >= 2 /\ NumCompletePasses >= next_num_passes_to_pause
    BY <1>3 DEF ReportPasses, Reached
  <2>2. /\ frame \in Frames /\ decoded_passes \in [Groups -> 0 .. frame.passes]
        /\ next_num_passes_to_pause \in Nat
    BY <1>3 DEF IInv, TypeOK, FrameTypeOK, SessionTypeOK
  <2>3. NumCompletePasses \in 0 .. frame.passes /\ \A g \in Groups : NumCompletePasses <= decoded_passes[g]
    BY <2>2, CompleteIs DEF NumCompletePasses
  <2>4. \A g \in Groups : decoded_passes[g] <= next_num_passes_to_pause
    BY <1>3, <2>1 DEF IInv, PausesInv
  <2>5. \A g \in Groups : decoded_passes[g] \in Nat
    BY <2>2, FrameType
  <2>6. \A g \in Groups : decoded_passes[g] = next_num_passes_to_pause
    BY <2>1, <2>2, <2>3, <2>4, <2>5
  <2> QED BY <2>1, <2>6
<1>4. IInv /\ [Next]_vars => [Step]_vars
  <2> SUFFICES ASSUME IInv, [Next]_vars PROVE [Step]_vars
    OBVIOUS
  <2>1. CASE UNCHANGED vars
    BY <2>1
  <2>2. CASE Next
    <3> SUFFICES ASSUME outcome' = "progression", phase = "report", phase' = "idle" PROVE Step
      OBVIOUS
    <3> HIDE DEF Step
    <3> QED BY <2>2, <1>1, <1>2, <1>3
  <2> QED BY <2>1, <2>2
<1>5. Spec => [][Step]_vars
  <2> HIDE DEF Step
  <2> QED BY <1>4, FrameInvariant, PTL DEF Spec
<1> QED BY <1>5 DEF PausesAreExact
==============================================================================
