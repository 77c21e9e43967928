--------------------------- MODULE MCCodestreamInput ---------------------------
(* Small files for CodestreamInput.                                         *)
EXTENDS CodestreamInput

Box(type, size) == [type |-> type, size |-> size, unbounded |-> FALSE]
CarriedBy(box) == IF Carries(box) THEN BoxLength(box) - Before(box) ELSE 0
BytesOf(box, first) ==
  [i \in 1 .. BoxLength(box) |->
     IF Carries(box) /\ i > Before(box) THEN first + i - Before(box) - 1 ELSE Other]

\* Both ways to read a file of the given boxes, of which size bytes are there.
Boxed(boxes, size, items) ==
  LET n == Len(boxes)
      starts[k \in 1 .. n + 1] == IF k = 1 THEN 0 ELSE starts[k - 1] + BoxLength(boxes[k - 1])
      first[k \in 1 .. n + 1] == IF k = 1 THEN 0 ELSE first[k - 1] + CarriedBy(boxes[k - 1])
      upto[k \in 0 .. n] ==
        IF k = 0 THEN <<>> ELSE upto[k - 1] \o BytesOf(boxes[k], first[k])
  IN  [ container : {TRUE}, boxes : {boxes}, items : {items}, wanted : BOOLEAN,
        starts : {[k \in 1 .. n + 1 |-> starts[k]]}, bytes : {SubSeq(upto[n], 1, size)} ]
Unboxed(size, items) ==
  [ container : {FALSE}, boxes : {<<>>}, items : {items}, wanted : BOOLEAN,
    starts : {<<0>>}, bytes : {[i \in 1 .. size |-> i - 1]} ]

Header(end) == [kind |-> "header", ends |-> <<end>>]
Sections(ends) == [kind |-> "sections", ends |-> ends]
Skip(end) == [kind |-> "skip", ends |-> <<end>>]

\* Headers, a frame that nobody needs, one of three sections and one of one.
Codestream ==
  <<Header(2), Skip(4), Header(5), Sections(<<6, 8, 9>>), Header(10), Sections(<<12>>)>>
Bare == Unboxed(12, Codestream)

\* The same in three partial boxes with another box in between and after; one of
\* them is empty.
SpreadBoxes ==
  <<Box("ftyp", 2), Box("jxlp", 4), Box("exif", 1), Box("jxlp", 1), Box("jxlp", 10), Box("exif", 2)>>
Spread == Boxed(SpreadBoxes, 32, Codestream)

\* The same cut into boxes where a section ends, with another box in between.
AtSection ==
  Boxed(<<Box("jxlp", 7), Box("exif", 3), Box("jxlp", 7)>>, 23, Codestream)

\* The same in one box that runs to the end of the file.
Open ==
  Boxed(<<Box("ftyp", 1), [Box("jxlc", 12) EXCEPT !.unbounded = TRUE]>>, 17, Codestream)

\* Files that are cut off in the last section and in a box header.
CutInside == Unboxed(11, Codestream)
CutHeader == Boxed(SpreadBoxes, 17, Codestream)

SmallFiles == Bare \cup Spread \cup AtSection \cup Open \cup CutInside \cup CutHeader
SmallPieces == {1, 2, 3, 5, 9}
==============================================================================
