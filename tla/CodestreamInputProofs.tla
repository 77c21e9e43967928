------------------------- MODULE CodestreamInputProofs -------------------------
(***************************************************************************)
(* The inductive invariant of CodestreamInput and what follows from it, for*)
(* files and pieces of any size. Clients skip a frame only inside a box of *)
(* the codestream (Skips).                                                 *)
(***************************************************************************)
EXTENDS CodestreamInput, TLAPS, FiniteSetTheorems, WellFoundedInduction

-----------------------------------------------------------------------------
(* The invariant.                                                          *)

\* Up to where the file is in the copy.
Held == file_pos + codestream_unconsumed
Available == AvailableCodestream(Input)
InCodestream == box_stage = "codestream" /\ header_size = 0

TypeInv ==
  /\ file \in Files
  /\ at \in {"client", "boxes", "codestream"}
  /\ file_pos \in Nat /\ avail_in \in Nat /\ Supplied <= Len(file.bytes)
  /\ box_stage \in {"header", "ftyp", "partial", "codestream", "skip"}
  /\ header_size \in {0, HeaderSize}
  /\ box_contents_end \in Nat /\ box_contents_unbounded \in BOOLEAN
  /\ codestream_copy \in Seq(Int) /\ codestream_unconsumed \in Nat /\ codestream_pos \in Nat
  /\ span \in Seq(Int)
  /\ item \in 1 .. Len(Items) + 1 /\ section \in Nat
  /\ section > 0 =>
       ~ Finished /\ Items[item].kind = "sections" /\ section <= Len(Items[item].ends)

\* The cursor is where the box that is read says, or where one starts.
InBox(k) ==
  LET box == file.boxes[k]
  IN  /\ box_contents_unbounded = box.unbounded
      /\ box_contents_end = IF box.unbounded THEN 0 ELSE file.starts[k + 1]
      /\ header_size > 0 =>
           file_pos = file.starts[k] /\ avail_in >= HeaderSize /\ box_stage = StageOf(box)
      /\ header_size = 0 =>
           /\ file_pos >= file.starts[k] + HeaderSize /\ file_pos <= file.starts[k + 1]
           /\ box_stage \in {"ftyp", "partial"} =>
                box_stage = StageOf(box) /\ file_pos = file.starts[k] + HeaderSize
           /\ box_stage = "codestream" =>
                Carries(box) /\ file_pos >= file.starts[k] + Before(box)
           /\ box_stage = "skip" => ~ Carries(box) \/ Finished

BoxInv ==
  /\ at = "codestream" => InCodestream
  /\ box_stage = "header" => header_size = 0
  /\ ~ file.container =>
       /\ header_size = 0 /\ box_stage \in {"header", "codestream"}
       /\ box_stage = "codestream" => box_contents_unbounded
  /\ file.container =>
       IF box_stage = "header" THEN \E k \in 1 .. Len(file.starts) : file_pos = file.starts[k]
       ELSE \E k \in 1 .. Len(file.boxes) : InBox(k)

\* What is in the copy ends where the file is held, and begins as far before
\* what is parsed next as codestream_pos says; without a copy that many bytes
\* are still to be skipped.
PosInv ==
  /\ codestream_copy = <<>> =>
       /\ codestream_unconsumed = 0
       /\ ~ Finished => Carried(file_pos) + codestream_pos = Parsed
       /\ ~ Finished /\ codestream_pos > 0 => Items[item].kind = "header"
  /\ codestream_copy # <<>> =>
       /\ ~ Finished /\ Items[item].kind \in {"header", "sections"}
       /\ Items[item].kind = "sections" => section > 0
       /\ Carried(Held) = Parsed - codestream_pos + Len(codestream_copy)
       /\ \A i \in 1 .. Len(codestream_copy) :
            codestream_copy[i] = Parsed - codestream_pos + i - 1
       /\ codestream_pos <= Len(codestream_copy)
       /\ Carried(file_pos) < ItemEnd(item)
  /\ codestream_unconsumed > 0 => InCodestream /\ codestream_unconsumed <= Available
  /\ codestream_unconsumed <= Len(codestream_copy)

SpanInv ==
  span # NoSpan =>
    /\ at = "codestream" /\ ~ Finished /\ Items[item].kind \in {"header", "sections"}
    /\ Items[item].kind = "sections" => section > 0
    /\ Len(span) = Carried(file_pos + Available) - Parsed
    /\ \A i \in 1 .. Len(span) : span[i] = Parsed + i - 1
    /\ codestream_copy = <<>> => codestream_pos = 0
    /\ codestream_copy # <<>> => codestream_unconsumed = Available

ReturnInv ==
  at = "client" =>
    /\ status = "need more" => avail_in < HeaderSize /\ codestream_unconsumed = 0
    /\ status = "event" =>
         codestream_copy = <<>> /\ codestream_pos = 0 /\ Carried(file_pos) = Parsed

IInv == TypeInv /\ BoxInv /\ PosInv /\ SpanInv /\ ReturnInv

-----------------------------------------------------------------------------
(* Files.                                                                  *)

LEMMA LeastNumber ==
  ASSUME NEW S \in SUBSET Nat, S # {}
  PROVE  \E n \in S : \A m \in S : n <= m
<1>1. PICK n \in S : \A m \in S : ~ (<<m, n>> \in OpToRel(<, Nat))
  BY NatLessThanWellFounded, WFMin, Zenon
<1>2. \A m \in S : ~ (m < n)
  BY <1>1 DEF OpToRel
<1> QED BY <1>2

LEMMA SeqElements ==
  ASSUME NEW S, NEW s \in Seq(S)
  PROVE  Len(s) \in Nat /\ \A k \in 1 .. Len(s) : s[k] \in S
OBVIOUS

LEMMA FileFacts ==
  ASSUME file \in Files
  PROVE  /\ file.bytes \in Seq(Int) /\ Len(file.bytes) \in Nat
         /\ \A i \in 1 .. Len(file.bytes) :
              file.bytes[i] \in Int /\ file.bytes[i] \in {Other, Carried(i - 1)}
         /\ file.container => BoxesFit(file)
         /\ ~ file.container => \A i \in 1 .. Len(file.bytes) : file.bytes[i] # Other
         /\ ItemsFit(Items) /\ Len(Items) \in Nat
         /\ \A k \in 1 .. Len(Items) :
              Items[k].ends \in Seq(Nat) /\ Items[k].kind \in {"header", "sections", "skip"}
         /\ file.container \in BOOLEAN /\ file.wanted \in BOOLEAN
<1>1. file.bytes \in Seq(Int)
  BY FilesAssumption
<1>2. Len(file.bytes) \in Nat /\ \A i \in 1 .. Len(file.bytes) : file.bytes[i] \in Int
  BY <1>1
<1>3. ItemsFit(Items)
  BY FilesAssumption DEF Items
<1>4. Items \in Seq([kind : {"header", "sections", "skip"}, ends : Seq(Nat)])
  BY <1>3 DEF ItemsFit
<1>5. /\ Len(Items) \in Nat
      /\ \A k \in 1 .. Len(Items) :
           Items[k] \in [kind : {"header", "sections", "skip"}, ends : Seq(Nat)]
  BY <1>4, SeqElements, Zenon
<1>6. \A k \in 1 .. Len(Items) :
        Items[k].ends \in Seq(Nat) /\ Items[k].kind \in {"header", "sections", "skip"}
  BY <1>5
<1> QED BY <1>1, <1>2, <1>3, <1>5, <1>6, FilesAssumption DEF Carried

LEMMA CarriedType ==
  ASSUME NEW n \in Nat
  PROVE  /\ Carried(n) \in Nat
         /\ IsFiniteSet({i \in 1 .. n : file.bytes[i] # Other})
<1>1. IsFiniteSet(1 .. n)
  BY FS_Interval
<1>2. {i \in 1 .. n : file.bytes[i] # Other} \subseteq 1 .. n
  OBVIOUS
<1>3. IsFiniteSet({i \in 1 .. n : file.bytes[i] # Other})
  BY <1>1, <1>2, FS_Subset
<1> QED BY <1>3, FS_CardinalityType DEF Carried, CarriedIn

LEMMA CarriedNothing == Carried(0) = 0
<1>1. {i \in 1 .. 0 : file.bytes[i] # Other} = {}
  OBVIOUS
<1> QED BY <1>1, FS_EmptySet DEF Carried, CarriedIn

\* Over bytes of the codestream their number grows by one each, ...
LEMMA CarriedRun ==
  ASSUME file \in Files, NEW a \in Nat, NEW b \in Nat, a <= b, b <= Len(file.bytes),
         \A i \in a + 1 .. b : file.bytes[i] # Other
  PROVE  /\ Carried(b) = Carried(a) + b - a
         /\ \A i \in a + 1 .. b : file.bytes[i] = Carried(a) + i - a - 1
<1> DEFINE S(n) == {i \in 1 .. n : file.bytes[i] # Other}
<1>1. ASSUME NEW c \in a .. b
      PROVE  Carried(c) = Carried(a) + c - a
  <2>1. S(c) = S(a) \cup (a + 1 .. c)
    OBVIOUS
  <2>2. S(a) \cap (a + 1 .. c) = {}
    OBVIOUS
  <2>3. IsFiniteSet(S(a)) /\ Cardinality(S(a)) \in Nat /\ Carried(a) = Cardinality(S(a))
    BY CarriedType DEF Carried, CarriedIn
  <2>4. IsFiniteSet(a + 1 .. c) /\ Cardinality(a + 1 .. c) = c - a
    <3>1. c \in Int /\ a + 1 \in Int
      OBVIOUS
    <3>2. Cardinality(a + 1 .. c) = IF a + 1 > c THEN 0 ELSE c - (a + 1) + 1
      BY <3>1, FS_Interval
    <3>3. IsFiniteSet(a + 1 .. c)
      BY <3>1, FS_Interval, Zenon
    <3>4. (IF a + 1 > c THEN 0 ELSE c - (a + 1) + 1) = c - a
      OBVIOUS
    <3> HIDE DEF S
    <3>5. Cardinality(a + 1 .. c) = c - a
      BY <3>2, <3>4
    <3> QED BY <3>3, <3>5
  <2> HIDE DEF S
  <2>5. Cardinality(S(a) \cup (a + 1 .. c)) = Cardinality(S(a)) + (c - a)
    <3>1. Cardinality(S(a) \cup (a + 1 .. c)) =
            Cardinality(S(a)) + Cardinality(a + 1 .. c) - Cardinality(S(a) \cap (a + 1 .. c))
      BY <2>3, <2>4, FS_Union
    <3>2. Cardinality(S(a) \cap (a + 1 .. c)) = 0
      BY <2>2, FS_EmptySet
    <3> QED BY <2>3, <2>4, <3>1, <3>2
  <2>6. Carried(c) = Cardinality(S(c))
    BY DEF S, Carried, CarriedIn
  <2> QED BY <2>1, <2>3, <2>5, <2>6
<1>2. ASSUME NEW i \in a + 1 .. b
      PROVE  file.bytes[i] = Carried(a) + i - a - 1
  <2>1. i \in 1 .. Len(file.bytes) /\ i - 1 \in a .. b
    BY FileFacts
  <2>2. file.bytes[i] = Carried(i - 1)
    BY <2>1, FileFacts
  <2>3. Carried(i - 1) = Carried(a) + (i - 1) - a
    BY <1>1, <2>1
  <2> QED BY <2>2, <2>3, CarriedType
<1> QED BY <1>1, <1>2

\* ... and over others not at all.
LEMMA CarriedSkip ==
  ASSUME NEW a \in Nat, NEW b \in Nat, a <= b,
         \A i \in a + 1 .. b : file.bytes[i] = Other
  PROVE  Carried(b) = Carried(a)
<1>1. {i \in 1 .. b : file.bytes[i] # Other} = {i \in 1 .. a : file.bytes[i] # Other}
  OBVIOUS
<1> QED BY <1>1 DEF Carried, CarriedIn

LEMMA CarriedGrows ==
  ASSUME NEW a \in Nat, NEW b \in Nat, a <= b
  PROVE  Carried(a) <= Carried(b)
<1>1. {i \in 1 .. a : file.bytes[i] # Other} \subseteq {i \in 1 .. b : file.bytes[i] # Other}
  OBVIOUS
<1> QED BY <1>1, CarriedType, FS_Subset DEF Carried, CarriedIn

-----------------------------------------------------------------------------
(* Items.                                                                  *)

LEMMA ItemEndType ==
  ASSUME file \in Files, NEW k \in 0 .. Len(Items)
  PROVE  ItemEnd(k) \in Nat
<1>1. CASE k = 0
  BY <1>1 DEF ItemEnd
<1>2. CASE k # 0
  <2>1. Items[k].ends \in Seq(Nat) /\ Items[k].ends # <<>>
    BY <1>2, FileFacts DEF ItemsFit
  <2> QED BY <1>2, <2>1 DEF ItemEnd
<1> QED BY <1>1, <1>2

\* The ends of an item's sections, from the end of the item before.
LEMMA EndsAre ==
  ASSUME file \in Files, item \in 1 .. Len(Items)
  PROVE  LET n == Len(Items[item].ends)
         IN  /\ n \in Nat \ {0}
             /\ EndOf(n) = ItemEnd(item)
             /\ \A m \in -1 .. n : EndOf(m) \in Nat
             /\ \A l, m \in -1 .. n : l <= m => EndOf(l) <= EndOf(m)
             /\ Items[item].kind = "header" => n = 1
             /\ Items[item].kind \in {"header", "sections", "skip"}
<1> DEFINE n == Len(Items[item].ends)
<1>1. /\ Items[item].ends \in Seq(Nat) /\ Items[item].ends # <<>>
      /\ \A i, j \in 1 .. n : i <= j => Items[item].ends[i] <= Items[item].ends[j]
      /\ Items[item].kind = "header" => n = 1
      /\ Items[item].kind \in {"header", "sections", "skip"}
  BY FileFacts DEF ItemsFit
<1>2. n \in Nat \ {0} /\ \A i \in 1 .. n : Items[item].ends[i] \in Nat
  BY <1>1
<1>3. ItemEnd(item - 1) \in Nat
  BY ItemEndType
<1>4. ItemEnd(item - 1) <= Items[item].ends[1]
  <2>1. CASE item = 1
    BY <1>2, <2>1 DEF ItemEnd
  <2>2. CASE item > 1
    <3>1. item - 1 \in 1 .. Len(Items) - 1
      BY <2>2
    <3>2. Items[item - 1].ends[Len(Items[item - 1].ends)] <= Items[(item - 1) + 1].ends[1]
      BY <3>1, FileFacts DEF ItemsFit
    <3> QED BY <2>2, <3>2 DEF ItemEnd
  <2> QED BY <2>1, <2>2
<1>5. EndOf(n) = ItemEnd(item)
  BY <1>2 DEF EndOf, ItemEnd
<1>6. \A m \in -1 .. n : EndOf(m) \in Nat
  BY <1>2, <1>3 DEF EndOf
<1>7. \A l, m \in -1 .. n : l <= m => EndOf(l) <= EndOf(m)
  <2> SUFFICES ASSUME NEW l \in -1 .. n, NEW m \in -1 .. n, l <= m PROVE EndOf(l) <= EndOf(m)
    OBVIOUS
  <2>1. CASE l > 0
    BY <1>1, <1>2, <2>1 DEF EndOf
  <2>2. CASE l <= 0 /\ m > 0
    <3>1. m \in 1 .. n /\ 1 \in 1 .. n
      BY <1>2, <2>2
    <3>2. Items[item].ends[1] <= Items[item].ends[m]
      BY <1>1, <3>1
    <3> QED BY <1>2, <1>3, <1>4, <2>2, <3>1, <3>2 DEF EndOf
  <2>3. CASE l <= 0 /\ m <= 0
    BY <1>3, <2>3 DEF EndOf
  <2> QED BY <2>1, <2>2, <2>3
<1> QED BY <1>1, <1>2, <1>5, <1>6, <1>7

-----------------------------------------------------------------------------
(* Boxes.                                                                  *)

LEMMA BoxFacts ==
  ASSUME file \in Files, file.container
  PROVE  /\ Len(file.boxes) \in Nat /\ Len(file.starts) = Len(file.boxes) + 1
         /\ \A k \in 1 .. Len(file.starts) : file.starts[k] \in Nat
         /\ Len(file.bytes) <= file.starts[Len(file.boxes) + 1]
         /\ file.starts[1] = 0
<1>1. BoxesFit(file)
  BY FileFacts
<1>2. file.starts \in Seq(Nat) /\ Len(file.starts) = Len(file.boxes) + 1 /\ file.starts[1] = 0
  BY <1>1 DEF BoxesFit
<1>3. Len(file.starts) \in Nat /\ \A k \in 1 .. Len(file.starts) : file.starts[k] \in Nat
  BY <1>2
<1>4. Len(file.bytes) <= file.starts[Len(file.boxes) + 1]
  BY <1>1 DEF BoxesFit
<1>5. Len(file.boxes) \in Nat
  BY <1>2, <1>3
<1> QED BY <1>2, <1>3, <1>4, <1>5

LEMMA BoxIs ==
  ASSUME file \in Files, file.container, NEW k \in 1 .. Len(file.boxes)
  PROVE  LET box == file.boxes[k]
         IN  /\ file.starts[k] \in Nat /\ file.starts[k + 1] \in Nat
             /\ Before(box) \in Nat /\ Before(box) >= HeaderSize
             /\ box.unbounded \in BOOLEAN
             /\ box.unbounded => k = Len(file.boxes)
             /\ file.starts[k + 1] >= file.starts[k] + HeaderSize
             /\ box.type \in {"ftyp", "jxlp"} => file.starts[k + 1] > file.starts[k] + HeaderSize
             /\ Before(box) = IF box.type = "jxlp" THEN HeaderSize + 1 ELSE HeaderSize
<1> DEFINE box == file.boxes[k]
<1>1. BoxesFit(file) /\ HeaderSize \in Nat
  BY FileFacts, InputAssumption
<1>0. box \in [type : STRING, size : Nat, unbounded : BOOLEAN]
  <2>1. file.boxes \in Seq([type : STRING, size : Nat, unbounded : BOOLEAN])
    BY <1>1 DEF BoxesFit
  <2> QED BY <2>1, SeqElements, Zenon
<1>2. /\ box.size \in Nat /\ box.unbounded \in BOOLEAN
      /\ (box.type \in {"ftyp", "jxlp"} => box.size > 0)
      /\ file.starts[k + 1] = file.starts[k] + BoxLength(box)
      /\ box.unbounded => k = Len(file.boxes)
  BY <1>0, <1>1 DEF BoxesFit
<1>3. file.starts[k] \in Nat /\ file.starts[k + 1] \in Nat
  BY BoxFacts
<1> HIDE DEF box
<1>4. /\ file.starts[k + 1] >= file.starts[k] + HeaderSize
      /\ box.type \in {"ftyp", "jxlp"} => file.starts[k + 1] > file.starts[k] + HeaderSize
  BY <1>1, <1>2, <1>3 DEF BoxLength
<1>5. /\ Before(box) \in Nat /\ Before(box) >= HeaderSize
      /\ Before(box) = IF box.type = "jxlp" THEN HeaderSize + 1 ELSE HeaderSize
  BY <1>1 DEF Before
<1> QED BY <1>2, <1>3, <1>4, <1>5 DEF box

\* The bytes of a box that are codestream.
LEMMA BoxBytes ==
  ASSUME file \in Files, file.container, NEW k \in 1 .. Len(file.boxes), NEW i \in Nat,
         file.starts[k] < i, i <= file.starts[k + 1], i <= Len(file.bytes)
  PROVE  file.bytes[i] # Other <=>
           Carries(file.boxes[k]) /\ i > file.starts[k] + Before(file.boxes[k])
<1>1. file.starts[k] \in Nat /\ file.starts[k + 1] \in Nat
  BY BoxIs
<1>2. i \in file.starts[k] + 1 .. file.starts[k + 1]
  BY <1>1
<1>3. BoxesFit(file)
  BY FileFacts
<1> QED BY <1>2, <1>3 DEF BoxesFit

\* No box starts again later.
LEMMA BoxStartsHere ==
  ASSUME file \in Files, file.container, NEW k \in 1 .. Len(file.starts),
         file.starts[k] < Len(file.bytes)
  PROVE  k \in 1 .. Len(file.boxes)
<1>1. /\ Len(file.boxes) \in Nat /\ Len(file.starts) = Len(file.boxes) + 1
      /\ file.starts[k] \in Nat
  BY BoxFacts
<1>2. Len(file.bytes) \in Nat /\ Len(file.bytes) <= file.starts[Len(file.boxes) + 1]
  BY BoxFacts, FileFacts
<1>3. file.starts[Len(file.boxes) + 1] \in Nat
  BY BoxFacts, <1>1
<1>4. k # Len(file.boxes) + 1
  BY <1>1, <1>2, <1>3
<1> QED BY <1>1, <1>4

-----------------------------------------------------------------------------
(* Inside a box of the codestream.                                         *)

End == file_pos + Available

\* All that is there is codestream, up to the end of the box or of the input.
LEMMA Inside ==
  ASSUME TypeInv, BoxInv, InCodestream
  PROVE  /\ Available \in Nat /\ Available <= avail_in /\ End = UsableUpTo
         /\ End \in Nat /\ End <= Len(file.bytes)
         /\ \A i \in file_pos + 1 .. End : file.bytes[i] # Other
         /\ box_contents_unbounded \/ End # box_contents_end => End = Supplied
<1>1. /\ file \in Files /\ file_pos \in Nat /\ avail_in \in Nat
      /\ Supplied <= Len(file.bytes) /\ Len(file.bytes) \in Nat
      /\ box_contents_end \in Nat /\ box_contents_unbounded \in BOOLEAN
      /\ box_stage = "codestream" /\ header_size = 0
  BY FileFacts DEF TypeInv, InCodestream
<1>2. CASE ~ file.container
  <2>1. box_contents_unbounded /\ \A i \in 1 .. Len(file.bytes) : file.bytes[i] # Other
    BY <1>1, <1>2, FileFacts DEF BoxInv
  <2>2. Available = avail_in /\ UsableUpTo = Supplied
    BY <2>1 DEF Available, AvailableCodestream, Input, UsableUpTo
  <2> QED BY <1>1, <2>1, <2>2 DEF End, Supplied
<1>3. CASE file.container
  <2>1. PICK k \in 1 .. Len(file.boxes) : InBox(k)
    BY <1>1, <1>3 DEF BoxInv
  <2> DEFINE box == file.boxes[k]
             from == file.starts[k]
             to == file.starts[k + 1]
  <2>2. /\ box_contents_unbounded = box.unbounded
        /\ box_contents_end = IF box.unbounded THEN 0 ELSE to
        /\ file_pos <= to /\ Carries(box) /\ file_pos >= from + Before(box)
    BY <1>1, <2>1 DEF InBox
  <2>3. /\ from \in Nat /\ to \in Nat /\ Before(box) \in Nat
        /\ box.unbounded => k = Len(file.boxes)
    BY <1>1, <1>3, BoxIs
  <2>4. box.unbounded => Len(file.bytes) <= to
    BY <1>1, <1>3, <2>3, BoxFacts
  <2>5. \A i \in Nat : from < i /\ i <= to /\ i <= Len(file.bytes) =>
          (file.bytes[i] # Other <=> Carries(box) /\ i > from + Before(box))
    BY <1>1, <1>3, BoxBytes
  <2> HIDE DEF box, from, to
  <2>6. /\ Available = IF box.unbounded THEN avail_in ELSE Least(avail_in, to - file_pos)
        /\ UsableUpTo = IF box.unbounded THEN Supplied ELSE Least(Supplied, to)
    BY <2>2 DEF Available, AvailableCodestream, Input, UsableUpTo
  <2>7. /\ Available \in Nat /\ Available <= avail_in
        /\ End = UsableUpTo /\ End \in Nat /\ End <= to /\ End <= Len(file.bytes)
        /\ box_contents_unbounded \/ End # box_contents_end => End = Supplied
    BY <1>1, <2>2, <2>3, <2>4, <2>6 DEF End, Supplied, Least
  <2>8. \A i \in file_pos + 1 .. End : file.bytes[i] # Other
    <3> SUFFICES ASSUME NEW i \in file_pos + 1 .. End PROVE file.bytes[i] # Other
      OBVIOUS
    <3>1. i \in Nat /\ from < i /\ i <= to /\ i <= Len(file.bytes) /\ i > from + Before(box)
      BY <1>1, <2>2, <2>3, <2>7
    <3> QED BY <2>2, <2>5, <3>1
  <2> QED BY <2>7, <2>8
<1> QED BY <1>2, <1>3

\* So the bytes there number the codestream on from file_pos.
LEMMA InsideCarried ==
  ASSUME TypeInv, BoxInv, InCodestream, NEW a \in file_pos .. End, NEW b \in a .. End
  PROVE  /\ Carried(a) \in Nat /\ Carried(b) = Carried(a) + b - a
         /\ \A i \in 1 .. b - a : file.bytes[a + i] = Carried(a) + i - 1
<1>1. /\ file \in Files /\ file_pos \in Nat /\ End \in Nat /\ End <= Len(file.bytes)
      /\ Len(file.bytes) \in Nat
      /\ \A i \in file_pos + 1 .. End : file.bytes[i] # Other
  BY Inside, FileFacts DEF TypeInv
<1>2. a \in Nat /\ b \in Nat /\ a <= b /\ b <= Len(file.bytes)
  BY <1>1
<1>3. \A i \in a + 1 .. b : file.bytes[i] # Other
  BY <1>1, <1>2
<1>4. Carried(a) \in Nat /\ Carried(b) = Carried(a) + b - a
  BY <1>1, <1>2, <1>3, CarriedRun, CarriedType
<1>5. \A i \in a + 1 .. b : file.bytes[i] = Carried(a) + i - a - 1
  BY <1>1, <1>2, <1>3, CarriedRun
<1>6. ASSUME NEW i \in 1 .. b - a
      PROVE  file.bytes[a + i] = Carried(a) + i - 1
  <2>1. a + i \in a + 1 .. b
    BY <1>2
  <2>2. file.bytes[a + i] = Carried(a) + (a + i) - a - 1
    BY <1>5, <2>1
  <2> QED BY <1>2, <1>4, <2>2
<1> QED BY <1>4, <1>6

-----------------------------------------------------------------------------
(* The functions around codestream_copy. An input is Good for the place p of*)
(* the codestream when it differs from the state's only by what was taken  *)
(* from the box, and the parser goes on at p.                              *)

Inputs == [file_pos : Nat, avail_in : Nat, copy : Seq(Int), unconsumed : Nat, pos : Nat]

Good(in, p) ==
  /\ in \in Inputs
  /\ in.file_pos \in file_pos .. End /\ in.file_pos + in.avail_in = Supplied
  /\ in.copy = <<>> => in.unconsumed = 0 /\ Carried(in.file_pos) + in.pos = p
  /\ in.copy # <<>> =>
       /\ Carried(in.file_pos + in.unconsumed) = p - in.pos + Len(in.copy)
       /\ \A i \in 1 .. Len(in.copy) : in.copy[i] = p - in.pos + i - 1
       /\ in.pos <= Len(in.copy)
  /\ in.unconsumed <= End - in.file_pos /\ in.unconsumed <= Len(in.copy)

LEMMA AvailableIs ==
  ASSUME TypeInv, BoxInv, InCodestream, NEW p \in Nat, NEW in, Good(in, p)
  PROVE  /\ AvailableCodestream(in) = End - in.file_pos
         /\ AvailableCodestream(in) \in Nat
<1>1. /\ file_pos \in Nat /\ avail_in \in Nat /\ box_contents_end \in Nat
      /\ box_contents_unbounded \in BOOLEAN
      /\ End \in Nat /\ End = UsableUpTo
  BY Inside DEF TypeInv
<1>2. /\ in.file_pos \in Nat /\ in.avail_in \in Nat
      /\ in.file_pos <= End /\ in.file_pos + in.avail_in = Supplied
  BY <1>1 DEF Good, Inputs
<1> QED BY <1>1, <1>2 DEF AvailableCodestream, UsableUpTo, Least, Supplied

\* The state's own input.
LEMMA InputIsGood ==
  ASSUME TypeInv, BoxInv, PosInv, InCodestream, ~ Finished
  PROVE  Good(Input, Parsed)
<1>1. /\ Available \in Nat /\ Available <= avail_in /\ End \in Nat
      /\ file_pos \in Nat /\ avail_in \in Nat
  BY Inside DEF TypeInv
<1>2. Input \in Inputs
  BY DEF Input, Inputs, TypeInv
<1>3. /\ Input.file_pos = file_pos /\ Input.avail_in = avail_in
      /\ Input.copy = codestream_copy /\ Input.unconsumed = codestream_unconsumed
      /\ Input.pos = codestream_pos
  BY DEF Input
<1>4. file_pos \in file_pos .. End
  BY <1>1 DEF End
<1>5. codestream_unconsumed <= End - file_pos
  BY <1>1 DEF PosInv, End, TypeInv
<1>6. /\ codestream_copy = <<>> =>
           codestream_unconsumed = 0 /\ Carried(file_pos) + codestream_pos = Parsed
      /\ codestream_copy # <<>> =>
           /\ Carried(file_pos + codestream_unconsumed) =
                Parsed - codestream_pos + Len(codestream_copy)
           /\ \A i \in 1 .. Len(codestream_copy) :
                codestream_copy[i] = Parsed - codestream_pos + i - 1
           /\ codestream_pos <= Len(codestream_copy)
      /\ codestream_unconsumed <= Len(codestream_copy)
  BY DEF PosInv, Held
<1> QED BY <1>2, <1>3, <1>4, <1>5, <1>6 DEF Good, Supplied

\* What is passed over with a whole item leaves nothing in the copy; what is
\* passed over within the codestream there is leaves nothing to skip.
LEMMA AdvanceIs ==
  ASSUME TypeInv, BoxInv, InCodestream, NEW p \in Nat, NEW in, Good(in, p), NEW size \in Nat,
         in.copy = <<>> => in.pos = 0
  PROVE  LET out == AdvanceCodestream(in, size)
         IN  /\ Good(out, p + size)
             /\ in.copy = <<>> \/ Carried(in.file_pos) < p + size => out.copy = <<>>
             /\ out.copy # <<>> => out.file_pos = in.file_pos
             /\ p + size <= Carried(End) /\ (in.copy # <<>> => in.file_pos + in.unconsumed = End)
                  => /\ out.copy = <<>> => out.pos = 0
                     /\ out.copy # <<>> => out.file_pos + out.unconsumed = End
<1> DEFINE out == AdvanceCodestream(in, size)
           avail == AvailableCodestream(in)
           from == in.file_pos
           left == in.avail_in
           held == in.unconsumed
           pos == in.pos
           len == Len(in.copy)
           before == Carried(from)
<1>1. file_pos \in Nat /\ End \in Nat /\ Supplied \in Nat /\ End <= Supplied
  BY Inside DEF TypeInv, Supplied, End
<1>2. in \in Inputs
  BY DEF Good
<1>3. /\ from \in Nat /\ left \in Nat /\ held \in Nat /\ pos \in Nat
      /\ in.copy \in Seq(Int) /\ len \in Nat
  BY <1>2 DEF Inputs
<1>4. /\ file_pos <= from /\ from <= End /\ from + left = Supplied
      /\ held <= End - from /\ held <= len
      /\ in.copy = <<>> => held = 0 /\ pos = 0 /\ before = p
      /\ in.copy # <<>> => Carried(from + held) = p - pos + len /\ pos <= len
  <2>1. /\ from \in file_pos .. End /\ from + left = Supplied
        /\ held <= End - from /\ held <= len
        /\ in.copy = <<>> => held = 0 /\ Carried(from) + pos = p /\ pos = 0
        /\ in.copy # <<>> => Carried(from + held) = p - pos + len /\ pos <= len
    BY DEF Good
  <2>2. Carried(from) \in Nat
    BY <1>3, CarriedType
  <2> HIDE DEF from, left, held, pos, len
  <2> QED BY <1>1, <2>1, <2>2
<1>5. in.copy # <<>> => \A i \in 1 .. Len(in.copy) : in.copy[i] = p - in.pos + i - 1
  BY DEF Good
<1>6. avail = End - from /\ avail \in Nat
  BY AvailableIs
<1>7. before \in Nat
  BY <1>3, CarriedType
<1>8. \A n \in Nat : n <= End - from => Carried(from + n) = before + n
  <2> SUFFICES ASSUME NEW n \in Nat, n <= End - from PROVE Carried(from + n) = before + n
    OBVIOUS
  <2> HIDE DEF from, left, held, pos, len
  <2>1. from \in file_pos .. End /\ from + n \in from .. End
    BY <1>1, <1>3, <1>4
  <2>2. Carried(from + n) = Carried(from) + (from + n) - from
    BY <2>1, InsideCarried
  <2> QED BY <1>3, <1>7, <2>2
<1>9. Carried(from + held) = before + held
  BY <1>3, <1>4, <1>8
<1>10. Carried(End) = before + avail
  <2> HIDE DEF from, avail, before
  <2>1. Carried(from + avail) = before + avail
    BY <1>1, <1>3, <1>6, <1>8
  <2> QED BY <1>1, <1>3, <1>6, <2>1
<1>11. ASSUME NEW by \in Nat, by <= End - from, NEW gone \in Nat, before + by + gone = p + size,
             out = [file_pos |-> from + by, avail_in |-> left - by, copy |-> <<>>,
                    unconsumed |-> 0, pos |-> gone]
      PROVE  Good(out, p + size)
  <2>1. /\ out.file_pos = from + by /\ out.avail_in = left - by /\ out.copy = <<>>
        /\ out.unconsumed = 0 /\ out.pos = gone
    BY <1>11
  <2> HIDE DEF from, left, before
  <2>2. from + by \in Nat /\ left - by \in Nat
    BY <1>1, <1>3, <1>4, <1>11
  <2>3. <<>> \in Seq(Int)
    OBVIOUS
  <2>4. out \in Inputs
    BY <1>11, <2>2, <2>3 DEF Inputs
  <2>5. Carried(from + by) + gone = p + size
    BY <1>7, <1>8, <1>11
  <2>6. /\ from + by \in file_pos .. End /\ (from + by) + (left - by) = Supplied
        /\ 0 <= End - (from + by)
    BY <1>1, <1>3, <1>4, <1>11
  <2> HIDE DEF out
  <2>7. Len(out.copy) = 0
    BY <2>1
  <2> QED BY <2>1, <2>4, <2>5, <2>6, <2>7 DEF Good
<1>12. in = [file_pos |-> from, avail_in |-> left, copy |-> in.copy, unconsumed |-> held, pos |-> pos]
  BY <1>2 DEF Inputs
<1>13. CASE in.copy = <<>>
  <2> DEFINE by == Least(size, avail)
             gone == IF size <= avail THEN 0 ELSE size - avail
  <2>1. out = [file_pos |-> from + by, avail_in |-> left - by, copy |-> <<>>,
               unconsumed |-> 0, pos |-> gone]
    <3>1. out = [[in EXCEPT !.file_pos = @ + by, !.avail_in = @ - by]
                   EXCEPT !.pos = IF size <= avail THEN @ ELSE size - avail]
      BY <1>13 DEF AdvanceCodestream, AdvanceInput
    <3> HIDE DEF by, out, avail
    <3> QED BY <1>4, <1>12, <1>13, <3>1
  <2> HIDE DEF out, avail, from, left, held, pos, len, before
  <2>2. /\ by \in Nat /\ by <= End - from /\ gone \in Nat /\ before + by + gone = p + size
    BY <1>4, <1>6, <1>7, <1>13 DEF Least
  <2>3. p + size <= Carried(End) => gone = 0
    BY <1>4, <1>6, <1>7, <1>10, <1>13
  <2>4. Good(out, p + size)
    BY <1>11, <2>1, <2>2
  <2>5. out.copy = <<>> /\ out.pos = gone
    BY <2>1
  <2> QED BY <2>3, <2>4, <2>5 DEF out
<1>14. CASE in.copy # <<>> /\ pos + size + held >= len
  <2> DEFINE by == Least(held, held + (pos + size) - len)
             gone == (pos + size) - Least(pos + size, len)
  <2>1. out = [file_pos |-> from + by, avail_in |-> left - by, copy |-> <<>>,
               unconsumed |-> 0, pos |-> gone]
    <3>1. out = [[in EXCEPT !.file_pos = @ + by, !.avail_in = @ - by]
                   EXCEPT !.pos = gone, !.unconsumed = 0, !.copy = <<>>]
      BY <1>14 DEF AdvanceCodestream, AdvanceInput
    <3> HIDE DEF by, out, gone
    <3> QED BY <1>12, <3>1
  <2> HIDE DEF out, avail, from, left, held, pos, len, before
  <2>2. /\ by \in Nat /\ by <= held /\ by <= End - from /\ gone \in Nat
        /\ before + by + gone = p + size
    <3>1. before = p - pos + len - held
      BY <1>3, <1>4, <1>7, <1>9, <1>14
    <3>2. CASE pos + size <= len
      <4>1. by = held + (pos + size) - len /\ gone = 0
        BY <1>3, <3>2 DEF Least
      <4> HIDE DEF by, gone
      <4> QED BY <1>1, <1>3, <1>4, <1>14, <3>1, <3>2, <4>1
    <3>3. CASE pos + size > len
      <4>1. by = held /\ gone = (pos + size) - len
        BY <1>3, <3>3 DEF Least
      <4> HIDE DEF by, gone
      <4> QED BY <1>1, <1>3, <1>4, <3>1, <3>3, <4>1
    <3> QED BY <1>3, <3>2, <3>3
  <2>3. p + size <= Carried(End) /\ from + held = End => gone = 0
    BY <1>3, <1>4, <1>7, <1>9, <1>14 DEF Least
  <2>4. Good(out, p + size)
    BY <1>11, <2>1, <2>2
  <2>5. out.copy = <<>> /\ out.pos = gone
    BY <2>1
  <2> QED BY <1>14, <2>3, <2>4, <2>5 DEF out, from, held
<1>15. CASE in.copy # <<>> /\ ~ (pos + size + held >= len)
  <2>1. out = [in EXCEPT !.pos = pos + size]
    BY <1>15 DEF AdvanceCodestream
  <2> HIDE DEF out, avail, from, left, held, pos, len, before
  <2>2. out = [file_pos |-> from, avail_in |-> left, copy |-> in.copy, unconsumed |-> held,
               pos |-> pos + size]
    BY <1>12, <2>1
  <2>3. pos + size \in Nat
    BY <1>3
  <2>4. out \in Inputs
    BY <1>3, <2>2, <2>3 DEF Inputs
  <2>5. /\ out.file_pos = from /\ out.avail_in = left /\ out.copy = in.copy
        /\ out.unconsumed = held /\ out.pos = pos + size
    BY <2>2
  <2>6. \A i \in 1 .. Len(in.copy) : in.copy[i] = (p + size) - (pos + size) + i - 1
    BY <1>3, <1>5, <1>15 DEF pos
  <2>7. /\ Carried(from + held) = (p + size) - (pos + size) + len
        /\ pos + size <= len
    BY <1>3, <1>4, <1>15
  <2>8. from \in file_pos .. End
    BY <1>1, <1>3, <1>4
  <2>9. Good(out, p + size)
    BY <1>4, <1>15, <2>4, <2>5, <2>6, <2>7, <2>8 DEF Good, len
  <2>10. ~ (before < p + size)
    BY <1>3, <1>4, <1>7, <1>9, <1>15
  <2> QED BY <1>15, <2>5, <2>9, <2>10 DEF out, before, from, held
<1> QED BY <1>13, <1>14, <1>15

\* The bytes there, as a sequence.
LEMMA PieceIs ==
  ASSUME TypeInv, BoxInv, InCodestream, NEW a \in file_pos .. End, NEW b \in a .. End
  PROVE  LET s == SubSeq(file.bytes, a + 1, b)
         IN  /\ s \in Seq(Int) /\ Len(s) = b - a
             /\ \A i \in 1 .. b - a : s[i] = Carried(a) + i - 1
<1>1. /\ file_pos \in Nat /\ End \in Nat /\ End <= Len(file.bytes)
      /\ file.bytes \in Seq(Int) /\ Len(file.bytes) \in Nat
  BY Inside, FileFacts DEF TypeInv
<1>2. a \in Nat /\ b \in Nat /\ a <= b /\ b <= Len(file.bytes)
  BY <1>1
<1> DEFINE s == SubSeq(file.bytes, a + 1, b)
<1>3. s \in Seq(Int)
  BY <1>1, <1>2
<1>4. Len(s) = b - a /\ \A i \in 1 .. b - a : s[i] = file.bytes[a + i]
  <2>1. SubSeq(file.bytes, a + 1, b) = [i \in 1 .. (1 + b - (a + 1)) |-> file.bytes[i + (a + 1) - 1]]
    BY <1>1, <1>2
  <2>2. 1 + b - (a + 1) = b - a /\ b - a \in Nat
    BY <1>2
  <2>3. \A i \in 1 .. b - a : i + (a + 1) - 1 = a + i
    BY <1>2
  <2> QED BY <1>3, <2>1, <2>2, <2>3
<1> QED BY <1>3, <1>4, InsideCarried

LEMMA RequestIs ==
  ASSUME TypeInv, BoxInv, InCodestream, NEW p \in Nat, NEW in, Good(in, p),
         in.copy = <<>> => in.pos = 0 \/ AvailableCodestream(in) = 0
  PROVE  LET out == RequestMoreInput(in)
         IN  /\ Good(out, p) /\ out.unconsumed = 0
             /\ in.copy = <<>> \/ in.file_pos + in.unconsumed = End => out.file_pos = End
             /\ in.copy = <<>> =>
                  out.pos = in.pos /\ (AvailableCodestream(in) = 0 => out.copy = <<>>)
<1> DEFINE out == RequestMoreInput(in)
           avail == AvailableCodestream(in)
           from == in.file_pos
           left == in.avail_in
           held == in.unconsumed
           pos == in.pos
           len == Len(in.copy)
           taken == SubSeq(file.bytes, from + 1, from + avail)
<1>1. file_pos \in Nat /\ End \in Nat /\ Supplied \in Nat /\ End <= Supplied
  BY Inside DEF TypeInv, Supplied, End
<1>2. in \in Inputs
  BY DEF Good
<1>3. /\ from \in Nat /\ left \in Nat /\ held \in Nat /\ pos \in Nat
      /\ in.copy \in Seq(Int) /\ len \in Nat
  BY <1>2 DEF Inputs
<1>4. /\ from \in file_pos .. End /\ from + left = Supplied
      /\ held <= End - from /\ held <= len
      /\ in.copy = <<>> => held = 0 /\ Carried(from) + pos = p
      /\ in.copy # <<>> => Carried(from + held) = p - pos + len /\ pos <= len
  BY DEF Good
<1>5. in.copy # <<>> => \A i \in 1 .. Len(in.copy) : in.copy[i] = p - in.pos + i - 1
  BY DEF Good
<1>6. avail = End - from /\ avail \in Nat
  BY AvailableIs
<1>7. in = [file_pos |-> from, avail_in |-> left, copy |-> in.copy, unconsumed |-> held, pos |-> pos]
  BY <1>2 DEF Inputs
<1>8. Carried(from) \in Nat
  BY <1>3, CarriedType
<1>9. CASE in.copy = <<>>
  <2>1. out = [file_pos |-> from + avail, avail_in |-> left - avail, copy |-> taken,
               unconsumed |-> held, pos |-> pos]
    <3>1. out = [[in EXCEPT !.file_pos = @ + avail, !.avail_in = @ - avail] EXCEPT !.copy = taken]
      BY <1>9 DEF RequestMoreInput, AdvanceInput
    <3> HIDE DEF out, avail, taken
    <3> QED BY <1>7, <3>1
  <2>2. taken \in Seq(Int) /\ Len(taken) = avail /\ \A i \in 1 .. avail : taken[i] = Carried(from) + i - 1
    <3> HIDE DEF from, avail
    <3>1. from \in file_pos .. End /\ from + avail \in from .. End /\ (from + avail) - from = avail
      BY <1>1, <1>3, <1>4, <1>6
    <3> QED BY <3>1, PieceIs
  <2>3. Carried(from + avail) = Carried(from) + avail
    <3> HIDE DEF from, avail
    <3>1. from + avail \in from .. End /\ (from + avail) - from = avail
      BY <1>1, <1>3, <1>4, <1>6
    <3>2. Carried(from + avail) = Carried(from) + (from + avail) - from
      BY <1>4, <3>1, InsideCarried
    <3> QED BY <1>3, <1>6, <1>8, <3>2
  <2> HIDE DEF out, avail, from, left, held, pos, len, taken
  <2>4. /\ from + avail = End /\ left - avail \in Nat /\ (from + avail) + (left - avail) = Supplied
    BY <1>1, <1>3, <1>4, <1>6
  <2>5. out \in Inputs
    BY <1>1, <1>3, <2>1, <2>2, <2>4 DEF Inputs
  <2>6. /\ out.file_pos = from + avail /\ out.avail_in = left - avail /\ out.copy = taken
        /\ out.unconsumed = 0 /\ out.pos = pos
    BY <1>4, <1>9, <2>1
  <2>7. CASE taken = <<>>
    <3>1. avail = 0
      BY <2>2, <2>7
    <3>2. out.file_pos = from
      BY <1>3, <2>6, <3>1
    <3>3. out.file_pos \in file_pos .. End /\ out.file_pos + out.avail_in = Supplied
      BY <1>4, <2>4, <2>6, <3>2
    <3>4. 0 <= End - out.file_pos /\ 0 <= Len(out.copy)
      BY <1>1, <2>4, <2>6, <2>7
    <3>5. Carried(out.file_pos) + out.pos = p
      BY <1>4, <1>9, <2>6, <3>2
    <3>6. Good(out, p)
      BY <2>5, <2>6, <2>7, <3>3, <3>4, <3>5 DEF Good
    <3> QED BY <1>9, <2>4, <2>6, <2>7, <3>6 DEF out, pos
  <2>8. CASE taken # <<>>
    <3>1. avail # 0
      BY <2>2, <2>8
    <3>2. pos = 0 /\ p = Carried(from)
      <4>1. pos = 0
        BY <1>9, <3>1 DEF pos, avail
      <4> QED BY <1>4, <1>8, <1>9, <4>1
    <3>3. out.file_pos \in file_pos .. End /\ out.file_pos + out.avail_in = Supplied
      BY <1>1, <1>3, <1>4, <2>4, <2>6
    <3>4. 0 <= End - out.file_pos /\ 0 <= Len(out.copy)
      BY <1>1, <1>6, <2>2, <2>4, <2>6
    <3>5. Carried(out.file_pos + out.unconsumed) = p - out.pos + Len(out.copy)
      <4>1. out.file_pos + out.unconsumed = from + avail
        BY <1>3, <1>6, <2>6
      <4> QED BY <1>6, <1>8, <2>2, <2>3, <2>6, <3>2, <4>1
    <3>6. \A i \in 1 .. Len(out.copy) : out.copy[i] = p - out.pos + i - 1
      BY <2>2, <2>6, <3>2
    <3>7. out.pos <= Len(out.copy)
      BY <1>6, <2>2, <2>6, <3>2
    <3>8. Good(out, p)
      BY <2>5, <2>6, <2>8, <3>3, <3>4, <3>5, <3>6, <3>7 DEF Good
    <3> QED BY <1>9, <2>4, <2>6, <3>1, <3>8 DEF out, pos, avail
  <2> QED BY <2>7, <2>8
<1>10. CASE in.copy # <<>>
  <2>1. out = [file_pos |-> from + held, avail_in |-> left - held, copy |-> in.copy,
               unconsumed |-> 0, pos |-> pos]
    <3>1. out = [[in EXCEPT !.file_pos = @ + held, !.avail_in = @ - held] EXCEPT !.unconsumed = 0]
      BY <1>10 DEF RequestMoreInput, AdvanceInput
    <3> HIDE DEF out
    <3> QED BY <1>7, <3>1
  <2> HIDE DEF out, avail, from, left, held, pos, len, taken
  <2>2. /\ from + held \in Nat /\ left - held \in Nat /\ (from + held) + (left - held) = Supplied
        /\ from + held \in file_pos .. End /\ 0 <= End - (from + held)
    <3>1. /\ file_pos \in Nat /\ End \in Nat /\ Supplied \in Nat /\ End <= Supplied
          /\ from \in Nat /\ left \in Nat /\ held \in Nat
      BY <1>1, <1>3
    <3>2. file_pos <= from /\ from <= End /\ from + left = Supplied /\ held <= End - from
      BY <1>4, <3>1
    <3> QED BY ONLY <3>1, <3>2
  <2>3. out \in Inputs
    BY <1>3, <2>1, <2>2 DEF Inputs
  <2>4. /\ out.file_pos = from + held /\ out.avail_in = left - held /\ out.copy = in.copy
        /\ out.unconsumed = 0 /\ out.pos = pos
    BY <2>1
  <2>5. out.file_pos + out.unconsumed = from + held /\ out.unconsumed <= Len(out.copy)
    BY <1>3, <2>2, <2>4 DEF len
  <2>6. /\ Carried(from + held) = p - pos + Len(in.copy) /\ pos <= Len(in.copy)
        /\ \A i \in 1 .. Len(in.copy) : in.copy[i] = p - pos + i - 1
    BY <1>4, <1>5, <1>10 DEF len, pos
  <2>7. Good(out, p)
    BY <1>10, <2>2, <2>3, <2>4, <2>5, <2>6 DEF Good
  <2> QED BY <1>10, <2>4, <2>7 DEF out, from, held
<1> QED BY <1>9, <1>10

LEMMA JoinedIs ==
  ASSUME NEW s \in Seq(Int), NEW t \in Seq(Int)
  PROVE  /\ s \o t \in Seq(Int) /\ Len(s \o t) = Len(s) + Len(t)
         /\ \A i \in 1 .. Len(s) : (s \o t)[i] = s[i]
         /\ \A i \in 1 .. Len(t) : (s \o t)[Len(s) + i] = t[i]
OBVIOUS

LEMMA TailIs ==
  ASSUME NEW s \in Seq(Int), NEW m \in Nat, m <= Len(s)
  PROVE  LET t == SubSeq(s, m + 1, Len(s))
         IN  /\ t \in Seq(Int) /\ Len(t) = Len(s) - m
             /\ \A i \in 1 .. Len(s) - m : t[i] = s[m + i]
<1> DEFINE t == SubSeq(s, m + 1, Len(s))
<1>1. t \in Seq(Int)
  OBVIOUS
<1>2. t = [i \in 1 .. (1 + Len(s) - (m + 1)) |-> s[i + (m + 1) - 1]]
  OBVIOUS
<1>3. 1 + Len(s) - (m + 1) = Len(s) - m /\ Len(s) - m \in Nat
  OBVIOUS
<1>4. \A i \in 1 .. Len(s) - m : i + (m + 1) - 1 = m + i
  OBVIOUS
<1> HIDE DEF t
<1>5. Len(t) = Len(s) - m /\ \A i \in 1 .. Len(s) - m : t[i] = s[m + i]
  <2> DEFINE n == Len(s) - m
  <2>1. t = [i \in 1 .. n |-> s[i + (m + 1) - 1]] /\ n \in Nat
    BY <1>2, <1>3 DEF t
  <2> HIDE DEF n
  <2>2. Len(t) = n
    BY <2>1
  <2>3. \A i \in 1 .. n : t[i] = s[m + i]
    BY <1>4, <2>1 DEF n
  <2> QED BY <2>2, <2>3 DEF n
<1> QED BY <1>1, <1>5 DEF t

LEMMA CopyIs ==
  ASSUME TypeInv, BoxInv, InCodestream, NEW p \in Nat, NEW in, Good(in, p), in.copy # <<>>
  PROVE  LET out == CopyForSpan(in)
         IN  /\ Good(out, p) /\ out.copy # <<>> /\ out.file_pos = in.file_pos
             /\ out.file_pos + out.unconsumed = End /\ out.pos = in.pos
<1> DEFINE out == CopyForSpan(in)
           avail == AvailableCodestream(in)
           from == in.file_pos
           left == in.avail_in
           held == in.unconsumed
           pos == in.pos
           len == Len(in.copy)
           taken == SubSeq(file.bytes, from + held + 1, from + avail)
<1>1. file_pos \in Nat /\ End \in Nat /\ Supplied \in Nat /\ End <= Supplied
  BY Inside DEF TypeInv, Supplied, End
<1>2. in \in Inputs
  BY DEF Good
<1>3. /\ from \in Nat /\ left \in Nat /\ held \in Nat /\ pos \in Nat
      /\ in.copy \in Seq(Int) /\ len \in Nat /\ len # 0
  BY <1>2 DEF Inputs
<1>4. /\ from \in file_pos .. End /\ from + left = Supplied
      /\ held <= End - from /\ held <= len
      /\ Carried(from + held) = p - pos + len /\ pos <= len
      /\ \A i \in 1 .. Len(in.copy) : in.copy[i] = p - in.pos + i - 1
  BY DEF Good
<1>5. avail = End - from /\ avail \in Nat
  BY AvailableIs
<1>6. in = [file_pos |-> from, avail_in |-> left, copy |-> in.copy, unconsumed |-> held, pos |-> pos]
  BY <1>2 DEF Inputs
<1>7. out = [file_pos |-> from, avail_in |-> left, copy |-> in.copy \o taken, unconsumed |-> avail,
             pos |-> pos]
  <2> DEFINE c == in.copy
             joined == c \o taken
  <2>1. out = [in EXCEPT !.copy = joined, !.unconsumed = avail]
    BY DEF CopyForSpan
  <2> HIDE DEF out, avail, taken, from, left, held, pos, joined, c
  <2>2. out = [file_pos |-> from, avail_in |-> left, copy |-> joined, unconsumed |-> avail,
               pos |-> pos]
    <3>1. in = [file_pos |-> from, avail_in |-> left, copy |-> c, unconsumed |-> held, pos |-> pos]
      BY <1>6 DEF c
    <3> QED BY <2>1, <3>1
  <2> QED BY <2>2 DEF joined, c
<1> DEFINE more == avail - held
<1>8. /\ taken \in Seq(Int) /\ Len(taken) = more /\ more \in Nat
      /\ \A i \in 1 .. more : taken[i] = Carried(from + held) + i - 1
  <2> HIDE DEF from, held, avail
  <2>1. /\ from + held \in file_pos .. End /\ from + avail \in from + held .. End
        /\ (from + avail) - (from + held) = more /\ more \in Nat
    BY <1>1, <1>3, <1>4, <1>5
  <2> HIDE DEF more
  <2> QED BY <2>1, PieceIs
<1>9. Carried(from + avail) = Carried(from + held) + more
  <2> HIDE DEF from, held, avail
  <2>1. /\ from + held \in file_pos .. End /\ from + avail \in from + held .. End
    BY <1>1, <1>3, <1>4, <1>5
  <2>2. /\ Carried(from + avail) = Carried(from + held) + (from + avail) - (from + held)
        /\ Carried(from + held) \in Nat
    BY <2>1, InsideCarried
  <2> QED BY <1>3, <1>5, <2>2
<1> HIDE DEF out, avail, from, left, held, pos, taken, more
<1> DEFINE both == in.copy \o taken
<1>10. both \in Seq(Int) /\ Len(both) = len + more /\ both # <<>>
  <2> DEFINE c == in.copy
  <2>1. c \in Seq(Int) /\ Len(c) = len
    BY <1>3
  <2> HIDE DEF c, len
  <2>2. c \o taken \in Seq(Int) /\ Len(c \o taken) = len + more
    BY <1>8, <2>1, JoinedIs
  <2>3. c \o taken # <<>>
    BY <1>3, <1>8, <2>2
  <2> QED BY <2>2, <2>3 DEF c
<1>11. \A i \in 1 .. Len(both) : both[i] = p - pos + i - 1
  <2> SUFFICES ASSUME NEW i \in 1 .. Len(both) PROVE both[i] = p - pos + i - 1
    OBVIOUS
  <2>1. i \in Nat /\ i <= len + more
    BY <1>3, <1>8, <1>10
  <2>2. CASE i <= len
    <3>1. both[i] = in.copy[i]
      BY <1>3, <1>8, <2>1, <2>2
    <3> QED BY <1>4, <2>1, <2>2, <3>1 DEF pos
  <2>3. CASE i > len
    <3>1. both[i] = taken[i - len]
      BY <1>3, <1>8, <1>10, <2>1, <2>3
    <3> HIDE DEF both, len
    <3>2. i - len \in 1 .. more
      BY <1>3, <1>8, <2>1, <2>3
    <3>3. taken[i - len] = Carried(from + held) + (i - len) - 1
      BY <1>8, <3>2
    <3> QED BY <1>3, <1>4, <2>1, <3>1, <3>3
  <2> QED BY <1>3, <2>1, <2>2, <2>3
<1> HIDE DEF both, len
<1>12. out \in Inputs
  BY <1>3, <1>5, <1>7, <1>10 DEF Inputs, both
<1>13. /\ out.file_pos = from /\ out.avail_in = left /\ out.copy = both
       /\ out.unconsumed = avail /\ out.pos = pos
  BY <1>7 DEF both
<1>14. from + avail = End /\ avail <= End - from
  BY <1>1, <1>3, <1>4, <1>5
<1>15. /\ Carried(from + avail) = p - pos + Len(both) /\ pos <= Len(both) /\ avail <= Len(both)
  <2>1. Carried(from + held) = p - pos + len /\ pos <= len /\ held <= len
    BY <1>4 DEF from, held, pos, len
  <2>2. more \in Nat /\ avail = held + more /\ held \in Nat /\ len \in Nat /\ pos \in Nat /\ Len(both) = len + more
    BY <1>3, <1>5, <1>8, <1>10 DEF more
  <2>3. Carried(from + avail) = Carried(from + held) + more
    BY <1>9
  <2> QED BY <2>1, <2>2, <2>3
<1>16. Good(out, p)
  BY <1>4, <1>10, <1>11, <1>12, <1>13, <1>14, <1>15 DEF Good
<1> QED BY <1>10, <1>13, <1>14, <1>16 DEF out, from, pos

-----------------------------------------------------------------------------
(* Steps that take input inside a box of the codestream.                   *)

Takes(p, out) == Good(out, p) /\ SetsInput(out) /\ UNCHANGED <<file, restOfBox>>

LEMMA SameFile ==
  ASSUME file' = file
  PROVE  /\ \A n : Carried(n)' = Carried(n)
         /\ \A k : ItemEnd(k)' = ItemEnd(k)
         /\ Items' = Items
BY DEF Carried, CarriedIn, ItemEnd, Items

LEMMA TakesTypes ==
  ASSUME TypeInv, BoxInv, InCodestream, NEW p \in Nat, NEW out, Takes(p, out)
  PROVE  /\ file' \in Files /\ file_pos' \in Nat /\ avail_in' \in Nat
         /\ Supplied' <= Len(file'.bytes) /\ header_size' \in {0, HeaderSize}
         /\ box_contents_end' \in Nat /\ box_contents_unbounded' \in BOOLEAN
         /\ codestream_copy' \in Seq(Int) /\ codestream_unconsumed' \in Nat /\ codestream_pos' \in Nat
         /\ file_pos <= file_pos' /\ file_pos' <= End /\ Supplied' = Supplied
<1>1. out \in Inputs /\ out.file_pos \in file_pos .. End /\ out.file_pos + out.avail_in = Supplied
  BY DEF Takes, Good
<1>2. /\ out.file_pos \in Nat /\ out.avail_in \in Nat /\ out.copy \in Seq(Int)
      /\ out.unconsumed \in Nat /\ out.pos \in Nat
  BY <1>1 DEF Inputs
<1>3. /\ file_pos' = out.file_pos /\ avail_in' = out.avail_in /\ codestream_copy' = out.copy
      /\ codestream_unconsumed' = out.unconsumed /\ codestream_pos' = out.pos
      /\ file' = file /\ header_size' = header_size /\ box_contents_end' = box_contents_end
      /\ box_contents_unbounded' = box_contents_unbounded
  BY DEF Takes, SetsInput, restOfBox
<1>4. Supplied' = Supplied
  BY <1>1, <1>3 DEF Supplied
<1>5. End \in Nat /\ file_pos \in Nat
  BY Inside DEF TypeInv
<1>6. file_pos <= file_pos' /\ file_pos' <= End
  BY <1>1, <1>3, <1>5
<1> QED BY <1>2, <1>3, <1>4, <1>6 DEF TypeInv

\* The cursor stays in the box, or comes to its end.
LEMMA TakesBox ==
  ASSUME TypeInv, BoxInv, InCodestream, NEW p \in Nat, NEW out, Takes(p, out),
         \/ box_stage' = box_stage
         \/ /\ box_stage' = "header" /\ at' # "codestream"
            /\ file_pos' = box_contents_end /\ ~ box_contents_unbounded
  PROVE  BoxInv'
<1>1. /\ file' = file /\ header_size' = header_size /\ box_contents_end' = box_contents_end
      /\ box_contents_unbounded' = box_contents_unbounded
      /\ box_stage = "codestream" /\ header_size = 0 /\ file.container \in BOOLEAN
      /\ file \in Files
  BY FileFacts DEF Takes, restOfBox, InCodestream, TypeInv
<1>2. /\ file_pos \in Nat /\ file_pos' \in Nat /\ file_pos <= file_pos' /\ file_pos' <= End
      /\ End = UsableUpTo /\ End \in Nat /\ End <= Len(file.bytes)
      /\ Supplied \in Nat /\ box_contents_end \in Nat /\ Len(file.bytes) \in Nat
  <2>1. End = UsableUpTo /\ End \in Nat /\ End <= Len(file.bytes)
    BY Inside
  <2>2. file_pos' \in Nat /\ file_pos <= file_pos' /\ file_pos' <= End
    BY TakesTypes
  <2>3. file_pos \in Nat /\ Supplied \in Nat /\ box_contents_end \in Nat
    BY DEF TypeInv, Supplied
  <2>4. Len(file.bytes) \in Nat
    BY <1>1, FileFacts
  <2> QED BY <2>1, <2>2, <2>3, <2>4
<1>3. CASE ~ file.container
  BY <1>1, <1>3 DEF BoxInv, InCodestream
<1>4. CASE file.container
  <2>1. PICK k \in 1 .. Len(file.boxes) : InBox(k)
    BY <1>1, <1>4 DEF BoxInv
  <2> DEFINE box == file.boxes[k]
             from == file.starts[k]
             to == file.starts[k + 1]
  <2>2. /\ box_contents_unbounded = box.unbounded
        /\ box_contents_end = IF box.unbounded THEN 0 ELSE to
        /\ file_pos <= to /\ file_pos >= from + HeaderSize
        /\ Carries(box) /\ file_pos >= from + Before(box)
    BY <1>1, <2>1 DEF InBox
  <2>3. /\ from \in Nat /\ to \in Nat /\ Before(box) \in Nat /\ HeaderSize \in Nat
        /\ box.unbounded \in BOOLEAN
        /\ box.unbounded => Len(file.bytes) <= to
    BY <1>1, <1>4, BoxIs, BoxFacts, InputAssumption
  <2> HIDE DEF box, from, to
  <2>4. file_pos' <= to
    <3>1. End <= to
      BY <1>2, <2>2, <2>3 DEF UsableUpTo, Least
    <3> QED BY <1>2, <2>3, <3>1
  <2>5. file_pos' >= from + HeaderSize /\ file_pos' >= from + Before(box)
    BY <1>2, <2>2, <2>3
  <2>6. CASE box_stage' = box_stage
    <3>1. /\ box_contents_unbounded' = file'.boxes[k].unbounded
          /\ box_contents_end' = IF file'.boxes[k].unbounded THEN 0 ELSE file'.starts[k + 1]
          /\ header_size' = 0 /\ box_stage' = "codestream"
          /\ file_pos' >= file'.starts[k] + HeaderSize /\ file_pos' <= file'.starts[k + 1]
          /\ Carries(file'.boxes[k]) /\ file_pos' >= file'.starts[k] + Before(file'.boxes[k])
      BY <1>1, <2>2, <2>4, <2>5, <2>6 DEF box, from, to
    <3>2. InBox(k)'
      BY <3>1 DEF InBox
    <3> QED BY <1>1, <1>4, <2>6, <3>1, <3>2 DEF BoxInv, InCodestream
  <2>7. CASE box_stage' # box_stage
    <3>1. /\ box_stage' = "header" /\ at' # "codestream"
          /\ file_pos' = box_contents_end /\ ~ box_contents_unbounded
      BY <2>7
    <3>2. file_pos' = file.starts[k + 1]
      BY <2>2, <3>1 DEF to
    <3>3. k + 1 \in 1 .. Len(file.starts)
      BY <1>1, <1>4, BoxFacts
    <3> QED BY <1>1, <1>4, <3>1, <3>2, <3>3 DEF BoxInv
  <2> QED BY <2>6, <2>7
<1> QED BY <1>1, <1>3, <1>4

LEMMA TakesPos ==
  ASSUME TypeInv, BoxInv, InCodestream, NEW p \in Nat, NEW out, Takes(p, out),
         ~ Finished' => Parsed' = p,
         out.copy = <<>> /\ ~ Finished' /\ out.pos > 0 => Items'[item'].kind = "header",
         out.copy # <<>> =>
           /\ ~ Finished' /\ Items'[item'].kind \in {"header", "sections"}
           /\ Items'[item'].kind = "sections" => section' > 0
           /\ Carried(out.file_pos) < ItemEnd(item)',
         box_stage' = box_stage \/ out.unconsumed = 0
  PROVE  PosInv'
<1>1. /\ file_pos' = out.file_pos /\ avail_in' = out.avail_in /\ codestream_copy' = out.copy
      /\ codestream_unconsumed' = out.unconsumed /\ codestream_pos' = out.pos
      /\ file' = file /\ header_size' = header_size /\ box_contents_end' = box_contents_end
      /\ box_contents_unbounded' = box_contents_unbounded
  BY DEF Takes, SetsInput, restOfBox
<1>2. /\ out.copy = <<>> => out.unconsumed = 0 /\ Carried(out.file_pos) + out.pos = p
      /\ out.copy # <<>> =>
           /\ Carried(out.file_pos + out.unconsumed) = p - out.pos + Len(out.copy)
           /\ \A i \in 1 .. Len(out.copy) : out.copy[i] = p - out.pos + i - 1
           /\ out.pos <= Len(out.copy)
      /\ out.unconsumed <= End - out.file_pos /\ out.unconsumed <= Len(out.copy)
  BY DEF Takes, Good
<1>3. \A n : Carried(n)' = Carried(n)
  BY <1>1, SameFile
<1>4. Available' = End - out.file_pos
  <2>1. AvailableCodestream(out) = End - out.file_pos
    BY AvailableIs DEF Takes
  <2>2. Available' = AvailableCodestream(out)
    BY <1>1 DEF Available, AvailableCodestream, Input, Least
  <2> QED BY <2>1, <2>2
<1>5. Held' = out.file_pos + out.unconsumed
  BY <1>1 DEF Held
<1>6. codestream_copy' = <<>> =>
        /\ codestream_unconsumed' = 0
        /\ ~ Finished' => Carried(file_pos)' + codestream_pos' = Parsed'
        /\ ~ Finished' /\ codestream_pos' > 0 => Items'[item'].kind = "header"
  <2> SUFFICES ASSUME codestream_copy' = <<>>
               PROVE  /\ codestream_unconsumed' = 0
                      /\ ~ Finished' => Carried(file_pos)' + codestream_pos' = Parsed'
                      /\ ~ Finished' /\ codestream_pos' > 0 => Items'[item'].kind = "header"
    OBVIOUS
  <2>1. Carried(file_pos)' = Carried(out.file_pos)
    BY <1>1 DEF Carried
  <2> QED BY <1>1, <1>2, <2>1
<1>7. codestream_copy' # <<>> =>
        /\ ~ Finished' /\ Items'[item'].kind \in {"header", "sections"}
        /\ Items'[item'].kind = "sections" => section' > 0
        /\ Carried(Held)' = Parsed' - codestream_pos' + Len(codestream_copy')
        /\ \A i \in 1 .. Len(codestream_copy') :
             codestream_copy'[i] = Parsed' - codestream_pos' + i - 1
        /\ codestream_pos' <= Len(codestream_copy')
        /\ Carried(file_pos)' < ItemEnd(item)'
  <2> SUFFICES ASSUME out.copy # <<>>
               PROVE  /\ ~ Finished' /\ Items'[item'].kind \in {"header", "sections"}
                      /\ Items'[item'].kind = "sections" => section' > 0
                      /\ Carried(Held)' = p - out.pos + Len(out.copy)
                      /\ \A i \in 1 .. Len(out.copy) : out.copy[i] = p - out.pos + i - 1
                      /\ out.pos <= Len(out.copy)
                      /\ Carried(file_pos)' < ItemEnd(item)'
    BY <1>1
  <2>1. Carried(file_pos)' = Carried(out.file_pos) /\ Carried(Held)' = Carried(out.file_pos + out.unconsumed)
    BY <1>1, <1>5 DEF Carried
  <2> QED BY <1>2, <2>1
<1>8. codestream_unconsumed' > 0 => InCodestream' /\ codestream_unconsumed' <= Available'
  BY <1>1, <1>2, <1>4 DEF InCodestream
<1> QED BY <1>1, <1>2, <1>6, <1>7, <1>8 DEF PosInv

-----------------------------------------------------------------------------
(* Items that are read.                                                    *)

LEMMA ParsedFacts ==
  ASSUME TypeInv, ~ Finished
  PROVE  /\ item \in 1 .. Len(Items) /\ Len(Items) \in Nat /\ section \in Nat
         /\ Parsed \in Nat /\ ItemEnd(item) \in Nat /\ Parsed <= ItemEnd(item)
         /\ section > 0 => Items[item].kind = "sections"
         /\ Items[item].kind \in {"header", "sections", "skip"}
<1>1. /\ file \in Files /\ item \in 1 .. Len(Items) + 1 /\ section \in Nat
      /\ section > 0 => Items[item].kind = "sections" /\ section <= Len(Items[item].ends)
  BY DEF TypeInv
<1>2. Len(Items) \in Nat
  BY <1>1, FileFacts
<1>3. item \in 1 .. Len(Items)
  BY <1>1, <1>2 DEF Finished
<1> DEFINE n == Len(Items[item].ends)
<1>4. /\ n \in Nat \ {0} /\ EndOf(n) = ItemEnd(item)
      /\ \A m \in -1 .. n : EndOf(m) \in Nat
      /\ \A l, m \in -1 .. n : l <= m => EndOf(l) <= EndOf(m)
      /\ Items[item].kind \in {"header", "sections", "skip"}
  BY <1>1, <1>3, EndsAre
<1> HIDE DEF n
<1>5. section - 1 \in -1 .. n /\ n \in -1 .. n /\ section - 1 <= n
  BY <1>1, <1>4 DEF n
<1> QED BY <1>1, <1>2, <1>3, <1>4, <1>5 DEF Parsed

\* After the last of an item comes the next one, after a frame a header.
LEMMA NextItem ==
  ASSUME TypeInv, ~ Finished, file' = file, item' = item + 1, section' = 0
  PROVE  /\ item' \in 1 .. Len(Items') + 1 /\ section' \in Nat
         /\ Parsed' = ItemEnd(item)
         /\ ~ Finished' /\ Items[item].kind # "header" => Items'[item'].kind = "header"
<1>1. item \in 1 .. Len(Items) /\ Len(Items) \in Nat /\ Items' = Items
  BY ParsedFacts, SameFile
<1>2. item' \in 1 .. Len(Items') + 1
  BY <1>1
<1>3. Parsed' = ItemEnd(item)
  <2>1. Parsed' = ItemEnd(item' - 1)
    <3>1. ~ (section' - 1 > 0)
      OBVIOUS
    <3> QED BY <1>1, <3>1 DEF Parsed, EndOf, ItemEnd
  <2>2. item' - 1 = item
    BY <1>1
  <2> QED BY <2>1, <2>2
<1>4. ASSUME ~ Finished', Items[item].kind # "header"
      PROVE  Items'[item'].kind = "header"
  <2>1. item + 1 \in 1 .. Len(Items) /\ (item + 1) - 1 = item
    BY <1>1, <1>4 DEF Finished
  <2>2. ItemsFit(Items)
    BY FileFacts DEF TypeInv
  <2>3. Items[item + 1].kind # "header" => Items[(item + 1) - 1].kind = "header"
    BY <2>1, <2>2 DEF ItemsFit
  <2> QED BY <1>1, <1>4, <2>1, <2>3
<1> QED BY <1>2, <1>3, <1>4

\* An item that is read is the last the copy holds bytes of.
LEMMA WholeItem ==
  ASSUME TypeInv, BoxInv, PosInv, InCodestream, ~ Finished,
         codestream_copy = <<>> => codestream_pos = 0
  PROVE  LET size == ItemEnd(item) - Parsed
             out == AdvanceCodestream(Input, size)
         IN  /\ size \in Nat /\ ItemEnd(item) \in Nat
             /\ Good(out, ItemEnd(item)) /\ out.copy = <<>>
             /\ ItemEnd(item) <= Carried(End) /\ (codestream_copy # <<>> => Held = End)
                  => out.pos = 0
<1> DEFINE size == ItemEnd(item) - Parsed
           out == AdvanceCodestream(Input, size)
<1>1. /\ size \in Nat /\ ItemEnd(item) \in Nat /\ Parsed \in Nat
      /\ Parsed + size = ItemEnd(item)
  BY ParsedFacts
<1>2. Good(Input, Parsed)
  BY InputIsGood
<1>3. /\ Input.copy = codestream_copy /\ Input.pos = codestream_pos
      /\ Input.file_pos = file_pos /\ Input.unconsumed = codestream_unconsumed
  BY DEF Input
<1>4. Input.copy = <<>> \/ Carried(Input.file_pos) < Parsed + size
  BY <1>1, <1>3 DEF PosInv
<1> HIDE DEF size
<1>5. /\ Good(out, Parsed + size) /\ out.copy = <<>>
      /\ Parsed + size <= Carried(End)
           /\ (Input.copy # <<>> => Input.file_pos + Input.unconsumed = End) => out.pos = 0
  BY <1>1, <1>2, <1>3, <1>4, AdvanceIs
<1>6. Good(out, ItemEnd(item))
  BY <1>1, <1>5
<1>7. ItemEnd(item) <= Carried(End) /\ (codestream_copy # <<>> => Held = End) => out.pos = 0
  BY <1>1, <1>3, <1>5 DEF Held
<1> QED BY <1>1, <1>5, <1>6, <1>7 DEF size

\* How a call ends that asks for more.
LEMMA AskingEnds ==
  ASSUME TypeInv, BoxInv, InCodestream, NEW p \in Nat, NEW out, Takes(p, out),
         out.unconsumed = 0, out.file_pos = End, at = "codestream", AsksForMore
  PROVE  /\ at' \in {"client", "boxes"} /\ ReturnInv'
         /\ box_stage' \in {"header", "codestream"}
         /\ \/ box_stage' = box_stage
            \/ /\ box_stage' = "header" /\ at' # "codestream"
               /\ file_pos' = box_contents_end /\ ~ box_contents_unbounded
<1>1. /\ file_pos' = End /\ codestream_unconsumed' = 0 /\ box_stage = "codestream"
      /\ box_contents_end' = box_contents_end
      /\ box_contents_unbounded' = box_contents_unbounded
  BY DEF Takes, SetsInput, InCodestream, restOfBox
<1>2. CASE file_pos' = box_contents_end /\ ~ box_contents_unbounded
  <2>1. at' = "boxes" /\ box_stage' = "header"
    BY <1>2 DEF AsksForMore
  <2> QED BY <1>2, <2>1 DEF ReturnInv
<1>3. CASE ~ (file_pos' = box_contents_end /\ ~ box_contents_unbounded)
  <2>1. Returns("need more") /\ box_stage' = box_stage
    BY <1>3 DEF AsksForMore
  <2>2. End = Supplied
    BY <1>1, <1>3, Inside
  <2>3. Supplied' = Supplied /\ file_pos' \in Nat /\ avail_in' \in Nat
    BY TakesTypes
  <2>4. avail_in' < HeaderSize
    BY <1>1, <2>2, <2>3, InputAssumption DEF Supplied
  <2>5. at' = "client" /\ status' # "event"
    BY <2>1 DEF Returns
  <2> QED BY <1>1, <2>1, <2>4, <2>5 DEF ReturnInv
<1> QED BY <1>2, <1>3

\* After an item that was there in full an event may be returned.
LEMMA ItemIsRead ==
  ASSUME IInv, at = "codestream", ~ Finished, NEW out, Takes(ItemEnd(item), out),
         out.copy = <<>>, out.pos = 0, item' = item + 1, section' = 0, span' = NoSpan,
         GoesOn, box_stage' = box_stage
  PROVE  IInv'
<1>1. TypeInv /\ BoxInv /\ PosInv /\ InCodestream /\ file' = file
  BY DEF IInv, BoxInv, Takes
<1>2. ItemEnd(item) \in Nat
  BY <1>1, ParsedFacts
<1>3. /\ item' \in 1 .. Len(Items') + 1 /\ section' \in Nat /\ Parsed' = ItemEnd(item)
  BY <1>1, NextItem
<1>4. SpanInv' /\ span' \in Seq(Int)
  BY DEF SpanInv, NoSpan
<1>5. BoxInv'
  BY <1>1, <1>2, TakesBox
<1>6. PosInv'
  BY <1>1, <1>2, <1>3, TakesPos
<1>7. TypeInv'
  <2>1. at' \in {"client", "codestream"}
    BY DEF GoesOn, Returns
  <2> QED BY <1>1, <1>2, <1>3, <1>4, <2>1, TakesTypes DEF TypeInv
<1>8. ReturnInv'
  <2>1. Carried(out.file_pos) + 0 = ItemEnd(item) /\ Carried(out.file_pos) \in Nat
    BY <1>1, CarriedType, Inside DEF Takes, Good, Inputs
  <2>2. codestream_copy' = <<>> /\ codestream_pos' = 0 /\ file_pos' = out.file_pos
    BY DEF Takes, SetsInput
  <2>3. Carried(file_pos)' = Parsed'
    BY <1>1, <1>3, <2>1, <2>2 DEF Carried
  <2>4. at' = "client" => status' # "need more"
    BY DEF GoesOn, Returns
  <2> QED BY <2>2, <2>3, <2>4 DEF ReturnInv
<1> QED BY <1>4, <1>5, <1>6, <1>7, <1>8 DEF IInv

-----------------------------------------------------------------------------
(* The steps of JxlDecoderProcessCodestream.                               *)

LEMMA ReadHeaderStep ==
  ASSUME IInv, ReadHeader
  PROVE  IInv'
<1> DEFINE size == ItemEnd(item) - Parsed
<1>1. /\ TypeInv /\ BoxInv /\ PosInv /\ at = "codestream" /\ ~ Finished
      /\ Items[item].kind = "header" /\ span # NoSpan /\ span' = NoSpan
      /\ InCodestream /\ box_stage = "codestream" /\ header_size = 0
      /\ UNCHANGED <<file, input_closed, restOfBox, section, seen, paused>>
      /\ Len(span) = Carried(End) - Parsed
      /\ codestream_copy = <<>> => codestream_pos = 0
      /\ codestream_copy # <<>> => codestream_unconsumed = Available
  BY DEF IInv, ReadHeader, Wants, SpanInv, BoxInv, InCodestream, End
<1>2. section = 0 /\ section' = 0 /\ file' = file
  BY <1>1, ParsedFacts
<1>3. /\ Parsed \in Nat /\ size \in Nat /\ Len(Items) \in Nat
      /\ item \in 1 .. Len(Items) /\ Items' = Items
  BY <1>1, ParsedFacts, SameFile
<1>4. End \in Nat /\ Carried(End) \in Nat /\ file_pos \in Nat
  BY <1>1, Inside, CarriedType DEF TypeInv
<1>5. codestream_copy # <<>> => Held = End
  BY <1>1 DEF Held, End
<1>6. SpanInv' /\ span' \in Seq(Int)
  BY <1>1 DEF SpanInv, NoSpan
<1>7. CASE Len(span) < size
  <2> DEFINE out == RequestMoreInput(Input)
  <2>1. SetsInput(out) /\ AsksForMore /\ item' = item
    BY <1>7 DEF ReadHeader
  <2>2. Good(Input, Parsed)
    BY <1>1, InputIsGood
  <2>3. /\ Input.copy = codestream_copy /\ Input.pos = codestream_pos
        /\ Input.file_pos + Input.unconsumed = Held
    BY DEF Input, Held
  <2>4. Good(out, Parsed) /\ out.unconsumed = 0 /\ out.file_pos = End
    BY <1>1, <1>3, <1>5, <2>2, <2>3, RequestIs
  <2> HIDE DEF out
  <2>5. Takes(Parsed, out)
    BY <1>1, <2>1, <2>4 DEF Takes
  <2>6. /\ at' \in {"client", "boxes"} /\ ReturnInv'
        /\ box_stage' \in {"header", "codestream"}
        /\ \/ box_stage' = box_stage
           \/ /\ box_stage' = "header" /\ at' # "codestream"
              /\ file_pos' = box_contents_end /\ ~ box_contents_unbounded
    BY <1>1, <1>3, <2>1, <2>4, <2>5, AskingEnds
  <2>7. BoxInv'
    BY <1>1, <1>3, <2>5, <2>6, TakesBox
  <2>8. ~ Finished' /\ Items'[item'].kind = "header" /\ Parsed' = Parsed /\ ItemEnd(item)' = ItemEnd(item)
    BY <1>1, <1>2, <1>3, <2>1 DEF Finished, Parsed, EndOf, ItemEnd
  <2>9. Carried(End) < ItemEnd(item)
    BY <1>1, <1>3, <1>4, <1>7, ParsedFacts
  <2>10. PosInv'
    <3>1. Carried(out.file_pos) < ItemEnd(item)'
      BY <2>4, <2>8, <2>9
    <3>2. Items'[item'].kind \in {"header", "sections"} /\ Items'[item'].kind # "sections"
      BY <2>8
    <3> QED BY <1>1, <1>3, <2>4, <2>5, <2>8, <3>1, <3>2, TakesPos
  <2>11. TypeInv'
    <3>1. item' \in 1 .. Len(Items') + 1
      BY <1>3, <2>1
    <3> QED BY <1>1, <1>2, <1>3, <1>6, <2>5, <2>6, <3>1, TakesTypes DEF TypeInv
  <2> QED BY <1>6, <2>6, <2>7, <2>10, <2>11 DEF IInv
<1>8. CASE ~ (Len(span) < size)
  <2> DEFINE out == AdvanceCodestream(Input, size)
  <2>1. SetsInput(out) /\ item' = item + 1 /\ GoesOn /\ box_stage' = box_stage
    BY <1>8 DEF ReadHeader
  <2>2. ItemEnd(item) \in Nat /\ ItemEnd(item) <= Carried(End)
    BY <1>1, <1>3, <1>4, <1>8, ParsedFacts
  <2>3. Good(out, ItemEnd(item)) /\ out.copy = <<>> /\ out.pos = 0
    BY <1>1, <1>5, <2>2, WholeItem
  <2> HIDE DEF out
  <2>4. Takes(ItemEnd(item), out)
    BY <1>1, <2>1, <2>3 DEF Takes
  <2> QED BY <1>1, <1>2, <2>1, <2>3, <2>4, ItemIsRead
<1> QED BY <1>7, <1>8

\* The sections that are there in full.
LEMMA ThereIs ==
  ASSUME TypeInv, ~ Finished, section > 0, Len(span) \in Nat
  PROVE  LET n == Len(Items[item].ends)
         IN  /\ n \in Nat /\ section <= n /\ There \in 0 .. n - section + 1
             /\ \A m \in 0 .. There : SizeOf(m) \in Nat /\ SizeOf(m) <= Len(span)
             /\ section + There <= n => Parsed + Len(span) < ItemEnd(item)
             /\ \A m \in 0 .. There : /\ Parsed + SizeOf(m) = EndOf(section + m - 1)
                                      /\ EndOf(section + m - 1) \in Nat
             /\ EndOf(n) = ItemEnd(item)
<1> DEFINE n == Len(Items[item].ends)
           left == n - section + 1
           P(m) == SizeOf(m) <= Len(span) /\ (section + m <= n => SizeOf(m + 1) > Len(span))
           S == {m \in Nat : m <= left /\ (m = left \/ SizeOf(m + 1) > Len(span))}
<1>1. /\ item \in 1 .. Len(Items) /\ Len(Items) \in Nat /\ section \in Nat
      /\ Parsed \in Nat /\ file \in Files /\ section <= n
  BY ParsedFacts DEF TypeInv
<1>2. /\ n \in Nat \ {0} /\ EndOf(n) = ItemEnd(item)
      /\ \A m \in -1 .. n : EndOf(m) \in Nat
      /\ \A l, m \in -1 .. n : l <= m => EndOf(l) <= EndOf(m)
  BY <1>1, EndsAre
<1> HIDE DEF n
<1>3. left \in Nat /\ left > 0
  BY <1>1, <1>2
<1>4. \A m \in 0 .. left : /\ SizeOf(m) = EndOf(section + m - 1) - Parsed
                           /\ EndOf(section + m - 1) \in Nat
                           /\ SizeOf(m) \in Nat
  <2> SUFFICES ASSUME NEW m \in 0 .. left
               PROVE  /\ SizeOf(m) = EndOf(section + m - 1) - Parsed
                      /\ EndOf(section + m - 1) \in Nat
                      /\ SizeOf(m) \in Nat
    OBVIOUS
  <2>1. /\ section + m - 1 \in -1 .. n /\ section - 1 \in -1 .. n
        /\ section - 1 <= section + m - 1
    BY <1>1, <1>2, <1>3
  <2>2. SizeOf(m) = EndOf(section + m - 1) - Parsed
    BY DEF SizeOf
  <2>3. EndOf(section + m - 1) \in Nat /\ Parsed <= EndOf(section + m - 1)
    BY <1>2, <2>1 DEF Parsed
  <2> QED BY <1>1, <2>2, <2>3
<1>5. \A l, m \in 0 .. left : l <= m => SizeOf(l) <= SizeOf(m)
  <2> SUFFICES ASSUME NEW l \in 0 .. left, NEW m \in 0 .. left, l <= m
               PROVE  SizeOf(l) <= SizeOf(m)
    OBVIOUS
  <2>1. section + l - 1 \in -1 .. n /\ section + m - 1 \in -1 .. n /\ section + l - 1 <= section + m - 1
    BY <1>1, <1>2, <1>3
  <2>2. EndOf(section + l - 1) <= EndOf(section + m - 1)
    BY <1>2, <2>1
  <2> QED BY <1>1, <1>4, <2>2
<1> HIDE DEF left
<1>6. \E m \in 0 .. left : P(m)
  <2>1. S \subseteq Nat /\ left \in S
    BY <1>3
  <2>2. PICK m \in S : \A l \in S : m <= l
    <3> HIDE DEF S
    <3> QED BY <2>1, LeastNumber
  <2>3. m \in 0 .. left /\ (m = left \/ SizeOf(m + 1) > Len(span))
    BY <1>3, <2>2
  <2>4. SizeOf(m) <= Len(span)
    <3>1. CASE m = 0
      <4>1. SizeOf(0) = EndOf(section - 1) - Parsed
        <5>1. section + 0 - 1 = section - 1
          BY <1>1
        <5> QED BY <5>1 DEF SizeOf
      <4>2. SizeOf(0) = 0
        BY <1>1, <4>1 DEF Parsed
      <4> QED BY <3>1, <4>2
    <3>2. CASE m > 0
      <4>1. m - 1 \in Nat /\ m - 1 <= left /\ m - 1 # left /\ m \in Nat /\ ~ (m <= m - 1)
        BY <1>3, <2>3, <3>2
      <4>2. ~ (m - 1 \in S)
        BY <2>2, <4>1
      <4>3. ~ (SizeOf((m - 1) + 1) > Len(span))
        BY <4>1, <4>2
      <4>4. (m - 1) + 1 = m /\ SizeOf(m) \in Nat
        BY <1>4, <2>3, <4>1
      <4> QED BY <4>3, <4>4
    <3> QED BY <2>3, <3>1, <3>2
  <2>5. section + m <= n => SizeOf(m + 1) > Len(span)
    BY <1>1, <1>2, <2>3 DEF left
  <2> QED BY <2>3, <2>4, <2>5
<1>7. There \in 0 .. left /\ P(There)
  <2>1. There = CHOOSE m \in 0 .. left : P(m)
    BY DEF There, n, left
  <2> HIDE DEF P
  <2> QED BY <1>6, <2>1
<1>8. \A m \in 0 .. There : SizeOf(m) \in Nat /\ SizeOf(m) <= Len(span)
  <2> SUFFICES ASSUME NEW m \in 0 .. There PROVE SizeOf(m) \in Nat /\ SizeOf(m) <= Len(span)
    OBVIOUS
  <2>1. m \in 0 .. left /\ m <= There
    BY <1>3, <1>7
  <2>2. SizeOf(m) <= SizeOf(There) /\ SizeOf(m) \in Nat /\ SizeOf(There) \in Nat
    BY <1>4, <1>5, <1>7, <2>1
  <2> QED BY <1>7, <2>2
<1>9. ASSUME section + There <= n
      PROVE  Parsed + Len(span) < ItemEnd(item)
  <2>1. There \in Nat /\ There + 1 \in 0 .. left /\ left \in 0 .. left
    BY <1>1, <1>2, <1>3, <1>7, <1>9 DEF left
  <2>2. SizeOf(There + 1) > Len(span) /\ SizeOf(There + 1) <= SizeOf(left)
    BY <1>3, <1>5, <1>7, <1>9, <2>1
  <2>3. SizeOf(left) = EndOf(section + left - 1) - Parsed /\ SizeOf(left) \in Nat /\ SizeOf(There + 1) \in Nat
    BY <1>4, <2>1
  <2>4. section + left - 1 = n
    BY <1>1, <1>2 DEF left
  <2>5. EndOf(n) \in Nat
    BY <1>2
  <2> QED BY <1>1, <1>2, <2>2, <2>3, <2>4, <2>5
<1>10. \A m \in 0 .. There : Parsed + SizeOf(m) = EndOf(section + m - 1) /\ EndOf(section + m - 1) \in Nat
  <2> SUFFICES ASSUME NEW m \in 0 .. There
               PROVE  Parsed + SizeOf(m) = EndOf(section + m - 1) /\ EndOf(section + m - 1) \in Nat
    OBVIOUS
  <2>1. m \in 0 .. left
    BY <1>3, <1>7
  <2> QED BY <1>1, <1>4, <2>1
<1> QED BY <1>1, <1>2, <1>7, <1>8, <1>9, <1>10 DEF n, left

LEMMA ReadSectionsStep ==
  ASSUME IInv, ReadSections
  PROVE  IInv'
<1> DEFINE N == Len(Items[item].ends)
<1>1. /\ TypeInv /\ BoxInv /\ PosInv /\ at = "codestream" /\ ~ Finished
      /\ Items[item].kind = "sections" /\ span # NoSpan /\ span' = NoSpan
      /\ InCodestream /\ box_stage = "codestream" /\ header_size = 0 /\ section > 0
      /\ UNCHANGED <<file, input_closed, restOfBox>>
      /\ Len(span) = Carried(End) - Parsed
      /\ codestream_copy = <<>> => codestream_pos = 0
      /\ codestream_copy # <<>> => codestream_unconsumed = Available
  BY DEF IInv, ReadSections, Wants, SpanInv, BoxInv, InCodestream, End
<1>2. /\ Parsed \in Nat /\ Len(Items) \in Nat /\ ItemEnd(item) \in Nat /\ section \in Nat
      /\ item \in 1 .. Len(Items) /\ Items' = Items /\ file' = file /\ Len(span) \in Nat
  BY <1>1, ParsedFacts, SameFile DEF TypeInv
<1>3. End \in Nat /\ Carried(End) \in Nat /\ file_pos \in Nat /\ Parsed + Len(span) = Carried(End)
  <2>1. End \in Nat /\ file_pos \in Nat
    BY <1>1, Inside DEF TypeInv
  <2>2. Carried(End) \in Nat
    BY <2>1, CarriedType
  <2> QED BY <1>1, <1>2, <2>1, <2>2
<1>4. codestream_copy # <<>> => Held = End
  BY <1>1 DEF Held, End
<1>5. SpanInv' /\ span' \in Seq(Int)
  BY <1>1 DEF SpanInv, NoSpan
<1>6. /\ N \in Nat /\ section <= N /\ There \in 0 .. N - section + 1
      /\ \A m \in 0 .. There : SizeOf(m) \in Nat /\ SizeOf(m) <= Len(span)
      /\ section + There <= N => Parsed + Len(span) < ItemEnd(item)
      /\ \A m \in 0 .. There : Parsed + SizeOf(m) = EndOf(section + m - 1) /\ EndOf(section + m - 1) \in Nat
      /\ EndOf(N) = ItemEnd(item)
  BY <1>1, <1>2, ThereIs
<1>7. Good(Input, Parsed)
  BY <1>1, InputIsGood
<1>8. /\ Input.copy = codestream_copy /\ Input.pos = codestream_pos
      /\ Input.file_pos = file_pos /\ Input.file_pos + Input.unconsumed = Held
  BY DEF Input, Held
<1>9. PICK n \in 0 .. There, event \in BOOLEAN :
       LET advanced == AdvanceCodestream(Input, SizeOf(n))
           last == section + There - 1
           all == section + n > N
       IN  IF all
             THEN /\ SetsInput(advanced)
                  /\ item' = item + 1 /\ section' = 0 /\ seen' = 0 /\ paused' = FALSE
                  /\ GoesOn
                  /\ UNCHANGED box_stage
           ELSE IF event
             THEN /\ ~ paused /\ last > seen /\ (n = 0 => There > 1)
                  /\ SetsInput(advanced)
                  /\ section' = section + n /\ seen' = last /\ paused' = TRUE
                  /\ Returns("progression")
                  /\ UNCHANGED <<item, box_stage>>
           ELSE /\ last < N
                /\ SetsInput(RequestMoreInput(advanced))
                /\ section' = section + n /\ seen' = last
                /\ AsksForMore
                /\ UNCHANGED <<item, paused>>
  BY DEF ReadSections
<1> DEFINE out == AdvanceCodestream(Input, SizeOf(n))
           upto == Parsed + SizeOf(n)
<1> HIDE DEF N
<1>10. n \in Nat /\ There \in Nat /\ n <= There
  BY <1>2, <1>6
<1>11. /\ SizeOf(n) \in Nat /\ upto \in Nat /\ upto <= Carried(End)
       /\ upto = EndOf(section + n - 1)
  BY <1>2, <1>3, <1>6, <1>10
<1>12. /\ Good(out, upto)
       /\ out.copy # <<>> => out.file_pos = file_pos /\ out.file_pos + out.unconsumed = End
       /\ out.copy = <<>> => out.pos = 0
       /\ codestream_copy = <<>> => out.copy = <<>>
  <2> DEFINE size == SizeOf(n)
  <2>1. size \in Nat /\ Parsed + size = upto /\ (Input.copy = <<>> => Input.pos = 0)
    BY <1>1, <1>8, <1>11
  <2> HIDE DEF size
  <2>2. LET o == AdvanceCodestream(Input, size)
        IN  /\ Good(o, Parsed + size)
            /\ Input.copy = <<>> \/ Carried(Input.file_pos) < Parsed + size => o.copy = <<>>
            /\ o.copy # <<>> => o.file_pos = Input.file_pos
            /\ Parsed + size <= Carried(End)
                 /\ (Input.copy # <<>> => Input.file_pos + Input.unconsumed = End)
                  => /\ o.copy = <<>> => o.pos = 0
                     /\ o.copy # <<>> => o.file_pos + o.unconsumed = End
    BY <1>1, <1>2, <1>7, <2>1, AdvanceIs
  <2>3. Input.copy # <<>> => Input.file_pos + Input.unconsumed = End
    BY <1>4, <1>8
  <2> HIDE DEF upto
  <2> QED BY <1>8, <1>11, <2>1, <2>2, <2>3 DEF size
<1>13. out.copy # <<>> => Carried(file_pos) < ItemEnd(item)
  BY <1>1, <1>12 DEF PosInv
<1>14. CASE section + n > N
  <2>1. /\ SetsInput(out) /\ item' = item + 1 /\ section' = 0 /\ GoesOn /\ box_stage' = box_stage
    BY <1>9, <1>14
  <2>2. SizeOf(n) = ItemEnd(item) - Parsed
    <3>1. section + n - 1 = N
      BY <1>2, <1>6, <1>10, <1>14
    <3> QED BY <1>6, <3>1 DEF SizeOf
  <2>3. Good(out, ItemEnd(item)) /\ out.copy = <<>>
    BY <1>1, <2>2, WholeItem
  <2> HIDE DEF out
  <2>4. Takes(ItemEnd(item), out)
    BY <1>1, <2>1, <2>3 DEF Takes
  <2> QED BY <1>1, <1>12, <2>1, <2>3, <2>4, ItemIsRead
<1>15. CASE ~ (section + n > N)
  <2>1. section' = section + n /\ item' = item
    BY <1>9, <1>15
  <2>2. /\ section' \in Nat /\ section' > 0 /\ section' <= N
        /\ ~ Finished' /\ Items'[item'].kind = "sections" /\ Len(Items'[item'].ends) = N
    BY <1>1, <1>2, <1>6, <1>10, <1>15, <2>1 DEF Finished, N
  <2>3. Parsed' = upto /\ ItemEnd(item)' = ItemEnd(item)
    <3>1. ItemEnd(item)' = ItemEnd(item)
      BY <1>2, <2>1 DEF ItemEnd
    <3>2. section' - 1 = section + n - 1
      BY <1>2, <1>10, <2>1
    <3>3. EndOf(section - 1)' = EndOf(section + n - 1)
      BY <1>2, <2>1, <3>2 DEF EndOf, ItemEnd
    <3> QED BY <1>11, <3>1, <3>3 DEF Parsed
  <2>4. item' \in 1 .. Len(Items') + 1
    BY <1>2, <2>1
  <2>5. CASE event
    <3>1. SetsInput(out) /\ Returns("progression") /\ box_stage' = box_stage
      BY <1>9, <1>15, <2>5
    <3> HIDE DEF out, upto
    <3>2. Takes(upto, out)
      BY <1>1, <1>12, <3>1 DEF Takes
    <3>3. BoxInv'
      BY <1>1, <1>11, <3>1, <3>2, TakesBox
    <3>4. PosInv'
      BY <1>1, <1>11, <1>12, <1>13, <2>2, <2>3, <3>1, <3>2, TakesPos
    <3>5. at' = "client" /\ ReturnInv'
      BY <3>1 DEF Returns, ReturnInv
    <3>6. TypeInv'
      BY <1>1, <1>5, <1>11, <2>2, <2>4, <3>1, <3>2, <3>5, TakesTypes DEF TypeInv
    <3> QED BY <1>5, <3>3, <3>4, <3>5, <3>6 DEF IInv
  <2>6. CASE ~ event
    <3> DEFINE asked == RequestMoreInput(out)
    <3>1. SetsInput(asked) /\ AsksForMore /\ section + There - 1 < N
      BY <1>9, <1>15, <2>6
    <3> HIDE DEF out, upto
    <3>2. Good(asked, upto) /\ asked.unconsumed = 0 /\ asked.file_pos = End
             /\ (out.copy = <<>> => asked.pos = out.pos)
      BY <1>1, <1>11, <1>12, RequestIs
    <3> HIDE DEF asked
    <3>3. Takes(upto, asked)
      BY <1>1, <3>1, <3>2 DEF Takes
    <3>4. /\ at' \in {"client", "boxes"} /\ ReturnInv'
          /\ box_stage' \in {"header", "codestream"}
          /\ \/ box_stage' = box_stage
             \/ /\ box_stage' = "header" /\ at' # "codestream"
                /\ file_pos' = box_contents_end /\ ~ box_contents_unbounded
      BY <1>1, <1>11, <3>1, <3>2, <3>3, AskingEnds
    <3>5. BoxInv'
      BY <1>1, <1>11, <3>3, <3>4, TakesBox
    <3>6. Carried(End) < ItemEnd(item)
      BY <1>2, <1>3, <1>6, <1>10, <3>1
    <3>7. asked.copy = <<>> => asked.pos = 0
      <4>1. out.copy # <<>> => asked.copy = out.copy
        BY DEF asked, RequestMoreInput, AdvanceInput
      <4> QED BY <1>12, <3>2, <4>1
    <3>8. PosInv'
      BY <1>1, <1>11, <2>2, <2>3, <3>2, <3>3, <3>6, <3>7, TakesPos
    <3>9. TypeInv'
      BY <1>1, <1>5, <1>11, <2>2, <2>4, <3>3, <3>4, TakesTypes DEF TypeInv
    <3> QED BY <1>5, <3>4, <3>5, <3>8, <3>9 DEF IInv
  <2> QED BY <2>5, <2>6
<1> QED BY <1>14, <1>15

\* What GetCodestreamInput passes over first.
LEMMA SkippedIs ==
  ASSUME IInv, InCodestream, ~ Finished
  PROVE  LET skip == IF codestream_copy = <<>>
                       THEN Least(codestream_pos, AvailableCodestream(Input)) ELSE 0
             in == [AdvanceInput(Input, skip) EXCEPT !.pos = @ - skip]
         IN  /\ Good(in, Parsed)
             /\ in.copy = codestream_copy /\ in.unconsumed = codestream_unconsumed
             /\ in.pos <= codestream_pos /\ in.pos \in Nat
             /\ codestream_copy = <<>> => in.pos = 0 \/ AvailableCodestream(in) = 0
             /\ codestream_copy # <<>> => in.file_pos = file_pos /\ in.pos = codestream_pos
<1> DEFINE skip == IF codestream_copy = <<>>
                     THEN Least(codestream_pos, AvailableCodestream(Input)) ELSE 0
           in == [AdvanceInput(Input, skip) EXCEPT !.pos = @ - skip]
<1>1. TypeInv /\ BoxInv /\ PosInv /\ Good(Input, Parsed)
  BY InputIsGood DEF IInv
<1>2. /\ AvailableCodestream(Input) = End - file_pos /\ AvailableCodestream(Input) \in Nat
      /\ Parsed \in Nat /\ file_pos \in Nat /\ avail_in \in Nat /\ End \in Nat
      /\ codestream_pos \in Nat /\ codestream_unconsumed \in Nat
      /\ codestream_copy \in Seq(Int) /\ End <= Supplied
  <2>1. Parsed \in Nat
    BY <1>1, ParsedFacts
  <2>2. Input.file_pos = file_pos
    BY DEF Input
  <2>3. AvailableCodestream(Input) = End - file_pos /\ AvailableCodestream(Input) \in Nat
    BY <1>1, <2>1, <2>2, AvailableIs
  <2>4. End \in Nat /\ End <= Supplied
    BY <1>1, Inside DEF End, Supplied, TypeInv
  <2> QED BY <1>1, <2>1, <2>3, <2>4 DEF TypeInv
<1>3. /\ skip \in Nat /\ skip <= End - file_pos
      /\ codestream_copy = <<>> => skip <= codestream_pos
      /\ codestream_copy # <<>> => skip = 0
      /\ codestream_copy = <<>> => skip = codestream_pos \/ skip = End - file_pos
  BY <1>2 DEF Least
<1>4. in = [file_pos |-> file_pos + skip, avail_in |-> avail_in - skip, copy |-> codestream_copy,
            unconsumed |-> codestream_unconsumed, pos |-> codestream_pos - skip]
  <2> DEFINE c == codestream_copy
             u == codestream_unconsumed
  <2>1. Input = [file_pos |-> file_pos, avail_in |-> avail_in, copy |-> c, unconsumed |-> u,
                 pos |-> codestream_pos]
    BY DEF Input
  <2>2. in = [[Input EXCEPT !.file_pos = @ + skip, !.avail_in = @ - skip] EXCEPT !.pos = @ - skip]
    BY DEF AdvanceInput
  <2> HIDE DEF skip, in
  <2> QED BY <2>1, <2>2
<1> HIDE DEF skip, in
<1>5. /\ in.file_pos = file_pos + skip /\ in.avail_in = avail_in - skip
      /\ in.copy = codestream_copy /\ in.unconsumed = codestream_unconsumed
      /\ in.pos = codestream_pos - skip
  BY <1>4
<1>6. CASE codestream_copy = <<>>
  <2>1. /\ codestream_pos - skip \in Nat /\ avail_in - skip \in Nat /\ file_pos + skip \in Nat
        /\ file_pos + skip \in file_pos .. End
        /\ (file_pos + skip) + (avail_in - skip) = Supplied
        /\ codestream_pos - skip <= codestream_pos
    BY <1>2, <1>3, <1>6 DEF Supplied
  <2>2. in \in Inputs
    BY <1>2, <1>4, <2>1 DEF Inputs
  <2>3. /\ codestream_unconsumed = 0 /\ Carried(file_pos) + codestream_pos = Parsed
    BY <1>1, <1>6 DEF PosInv
  <2>4. file_pos \in file_pos .. End /\ file_pos + skip \in file_pos .. End
    BY <1>2, <2>1
  <2>5. Carried(file_pos + skip) = Carried(file_pos) + (file_pos + skip) - file_pos /\ Carried(file_pos) \in Nat
    BY <1>1, <2>4, InsideCarried DEF InCodestream
  <2>6. Carried(file_pos + skip) + (codestream_pos - skip) = Parsed
    BY <1>2, <1>3, <2>3, <2>5
  <2>7. 0 <= End - (file_pos + skip) /\ 0 <= Len(codestream_copy)
    BY <1>2, <1>3
  <2>8. Good(in, Parsed)
    BY <1>5, <1>6, <2>1, <2>2, <2>3, <2>6, <2>7 DEF Good
  <2>9. AvailableCodestream(in) = End - (file_pos + skip)
    BY <1>1, <1>2, <1>5, <2>8, AvailableIs
  <2>10. in.pos = 0 \/ AvailableCodestream(in) = 0
    BY <1>2, <1>3, <1>5, <1>6, <2>9
  <2> QED BY <1>5, <1>6, <2>1, <2>8, <2>10 DEF in, skip
<1>7. CASE codestream_copy # <<>>
  <2>1. file_pos + skip = file_pos /\ avail_in - skip = avail_in /\ codestream_pos - skip = codestream_pos
    BY <1>2, <1>3, <1>7
  <2>2. in = Input
    BY <1>4, <2>1 DEF Input
  <2>3. Good(in, Parsed) /\ in.pos <= codestream_pos /\ in.pos \in Nat
    BY <1>1, <1>2, <1>5, <2>1, <2>2
  <2> QED BY <1>5, <1>7, <2>1, <2>3 DEF in, skip
<1> QED BY <1>6, <1>7

LEMMA GetCodestreamInputStep ==
  ASSUME IInv, GetCodestreamInput
  PROVE  IInv'
<1> DEFINE skip == IF codestream_copy = <<>>
                     THEN Least(codestream_pos, AvailableCodestream(Input)) ELSE 0
           in == [AdvanceInput(Input, skip) EXCEPT !.pos = @ - skip]
<1>1. /\ TypeInv /\ BoxInv /\ PosInv /\ at = "codestream" /\ ~ Finished
      /\ Items[item].kind \in {"header", "sections"} /\ span = NoSpan
      /\ Items[item].kind = "sections" => section > 0
      /\ InCodestream /\ box_stage = "codestream" /\ header_size = 0
      /\ UNCHANGED <<file, input_closed, restOfBox, item, section, seen, paused>>
  BY DEF IInv, GetCodestreamInput, Wants, BoxInv, InCodestream
<1>2. /\ Good(in, Parsed)
      /\ in.copy = codestream_copy /\ in.unconsumed = codestream_unconsumed
      /\ in.pos <= codestream_pos /\ in.pos \in Nat
      /\ codestream_copy = <<>> => in.pos = 0 \/ AvailableCodestream(in) = 0
      /\ codestream_copy # <<>> => in.file_pos = file_pos /\ in.pos = codestream_pos
  BY <1>1, SkippedIs
<1>3. IF in.copy = <<>> /\ (in.pos > 0 \/ AvailableCodestream(in) = 0)
        THEN /\ SetsInput(RequestMoreInput(in))
             /\ AsksForMore
             /\ UNCHANGED span
        ELSE /\ IF in.copy = <<>>
                  THEN /\ SetsInput(in)
                       /\ span' = SubSeq(file.bytes, in.file_pos + 1,
                                         in.file_pos + AvailableCodestream(in))
                  ELSE /\ SetsInput(CopyForSpan(in))
                       /\ span' = SubSeq(CopyForSpan(in).copy, in.pos + 1, Len(CopyForSpan(in).copy))
             /\ UNCHANGED <<at, status, box_stage>>
  BY DEF GetCodestreamInput
<1> HIDE DEF skip, in
<1>4. /\ Parsed \in Nat /\ Len(Items) \in Nat /\ item \in 1 .. Len(Items) /\ section \in Nat
      /\ Items' = Items /\ file' = file /\ item' = item /\ section' = section
  BY <1>1, ParsedFacts, SameFile
<1>5. /\ ~ Finished' /\ Items'[item'] = Items[item] /\ Parsed' = Parsed
      /\ ItemEnd(item)' = ItemEnd(item) /\ item' \in 1 .. Len(Items') + 1 /\ section' \in Nat
      /\ section' > 0 => Items'[item'].kind = "sections" /\ section' <= Len(Items'[item'].ends)
  BY <1>1, <1>4 DEF Finished, Parsed, EndOf, ItemEnd, TypeInv
<1>6. AvailableCodestream(in) = End - in.file_pos /\ AvailableCodestream(in) \in Nat
  BY <1>1, <1>2, <1>4, AvailableIs
<1>7. End \in Nat /\ file_pos \in Nat /\ codestream_pos \in Nat /\ in.file_pos \in file_pos .. End
  BY <1>1, <1>2, Inside DEF TypeInv, Good
<1>8. codestream_copy = <<>> /\ codestream_pos > 0 => Items[item].kind = "header"
  BY <1>1 DEF PosInv
<1>9. codestream_copy # <<>> => Carried(file_pos) < ItemEnd(item)
  BY <1>1 DEF PosInv
<1>10. CASE in.copy = <<>> /\ (in.pos > 0 \/ AvailableCodestream(in) = 0)
  <2> DEFINE out == RequestMoreInput(in)
  <2>1. SetsInput(out) /\ AsksForMore /\ span' = NoSpan
    BY <1>1, <1>3, <1>10
  <2>2. AvailableCodestream(in) = 0
    BY <1>2, <1>10
  <2>3. /\ Good(out, Parsed) /\ out.unconsumed = 0 /\ out.file_pos = End
        /\ out.pos = in.pos /\ out.copy = <<>>
    BY <1>1, <1>2, <1>4, <1>10, <2>2, RequestIs
  <2> HIDE DEF out
  <2>4. Takes(Parsed, out)
    BY <1>1, <2>1, <2>3 DEF Takes
  <2>5. /\ at' \in {"client", "boxes"} /\ ReturnInv'
        /\ box_stage' \in {"header", "codestream"}
        /\ \/ box_stage' = box_stage
           \/ /\ box_stage' = "header" /\ at' # "codestream"
              /\ file_pos' = box_contents_end /\ ~ box_contents_unbounded
    BY <1>1, <1>4, <2>1, <2>3, <2>4, AskingEnds
  <2>6. BoxInv'
    BY <1>1, <1>4, <2>4, <2>5, TakesBox
  <2>7. out.pos > 0 => Items'[item'].kind = "header"
    BY <1>2, <1>5, <1>7, <1>8, <1>10, <2>3
  <2>8. PosInv'
    BY <1>1, <1>4, <1>5, <2>3, <2>4, <2>7, TakesPos
  <2>9. SpanInv' /\ span' \in Seq(Int)
    BY <2>1 DEF SpanInv, NoSpan
  <2>10. TypeInv'
    BY <1>1, <1>4, <1>5, <2>4, <2>5, <2>9, TakesTypes DEF TypeInv
  <2> QED BY <2>5, <2>6, <2>8, <2>9, <2>10 DEF IInv
<1>11. ASSUME ~ (in.copy = <<>> /\ (in.pos > 0 \/ AvailableCodestream(in) = 0)),
              NEW out, Good(out, Parsed), SetsInput(out), out.copy = in.copy \/ out.copy # <<>>,
              out.copy = <<>> => out.pos = 0,
              out.copy # <<>> => in.copy # <<>> /\ out.file_pos + out.unconsumed = End /\ out.file_pos = file_pos,
              span' \in Seq(Int), Len(span') = Carried(End) - Parsed,
              \A i \in 1 .. Len(span') : span'[i] = Parsed + i - 1
       PROVE  IInv'
  <2>1. at' = at /\ status' = status /\ box_stage' = box_stage
    BY <1>3, <1>11
  <2>2. Takes(Parsed, out)
    BY <1>1, <1>11 DEF Takes
  <2>3. BoxInv'
    BY <1>1, <1>4, <2>1, <2>2, TakesBox
  <2>4. PosInv'
    BY <1>1, <1>2, <1>4, <1>5, <1>9, <1>11, <2>1, <2>2, TakesPos
  <2>5. TypeInv'
    BY <1>1, <1>4, <1>5, <1>11, <2>1, <2>2, TakesTypes DEF TypeInv
  <2>6. SpanInv'
    <3>1. /\ file_pos' = out.file_pos /\ avail_in' = out.avail_in /\ codestream_copy' = out.copy
          /\ codestream_unconsumed' = out.unconsumed /\ codestream_pos' = out.pos
          /\ box_contents_end' = box_contents_end
          /\ box_contents_unbounded' = box_contents_unbounded
      BY <2>2 DEF Takes, SetsInput, restOfBox
    <3>2. Available' = End - out.file_pos
      <4>1. AvailableCodestream(out) = End - out.file_pos
        BY <1>1, <1>4, <1>11, AvailableIs
      <4>2. Available' = AvailableCodestream(out)
        BY <3>1 DEF Available, AvailableCodestream, Input, Least
      <4> QED BY <4>1, <4>2
    <3>3. out.file_pos \in Nat /\ out.unconsumed \in Nat
      BY <1>11 DEF Good, Inputs
    <3>4. file_pos' + Available' = End
      BY <1>7, <3>1, <3>2, <3>3
    <3>5. Carried(file_pos + Available)' = Carried(End)
      BY <1>4, <3>4 DEF Carried
    <3>6. codestream_copy' # <<>> => codestream_unconsumed' = Available'
      BY <1>7, <1>11, <3>1, <3>2, <3>3
    <3> QED BY <1>1, <1>5, <1>4, <1>11, <2>1, <3>1, <3>5, <3>6 DEF SpanInv
  <2>7. ReturnInv'
    BY <1>1, <2>1 DEF ReturnInv
  <2> QED BY <2>3, <2>4, <2>5, <2>6, <2>7 DEF IInv
<1>12. CASE in.copy = <<>> /\ ~ (in.pos > 0 \/ AvailableCodestream(in) = 0)
  <2>1. /\ SetsInput(in)
        /\ span' = SubSeq(file.bytes, in.file_pos + 1, in.file_pos + AvailableCodestream(in))
    BY <1>3, <1>12
  <2>2. in.pos = 0 /\ in.file_pos + AvailableCodestream(in) = End
    BY <1>2, <1>6, <1>7, <1>12
  <2>3. Carried(in.file_pos) = Parsed
    <3>1. Carried(in.file_pos) + in.pos = Parsed
      BY <1>2, <1>12 DEF Good
    <3>2. Carried(in.file_pos) \in Nat
      <4>1. in.file_pos \in Nat
        BY <1>7
      <4> QED BY <4>1, CarriedType
    <3> QED BY <2>2, <3>1, <3>2
  <2>4. /\ span' \in Seq(Int) /\ Len(span') = End - in.file_pos
        /\ \A i \in 1 .. End - in.file_pos : span'[i] = Carried(in.file_pos) + i - 1
        /\ Carried(End) = Carried(in.file_pos) + End - in.file_pos
    <3>1. End \in in.file_pos .. End /\ in.file_pos \in Nat
      BY <1>7
    <3>2. span' = SubSeq(file.bytes, in.file_pos + 1, End)
      BY <2>1, <2>2
    <3> QED BY <1>1, <1>7, <3>1, <3>2, PieceIs, InsideCarried
  <2>5. Len(span') = Carried(End) - Parsed /\ \A i \in 1 .. Len(span') : span'[i] = Parsed + i - 1
    BY <1>4, <1>7, <2>3, <2>4
  <2> QED BY <1>2, <1>11, <1>12, <2>1, <2>2, <2>4, <2>5
<1>13. CASE in.copy # <<>>
  <2> DEFINE out == CopyForSpan(in)
  <2>1. SetsInput(out) /\ span' = SubSeq(out.copy, in.pos + 1, Len(out.copy))
    BY <1>3, <1>13
  <2>2. /\ Good(out, Parsed) /\ out.copy # <<>> /\ out.file_pos = in.file_pos
        /\ out.file_pos + out.unconsumed = End /\ out.pos = in.pos
    BY <1>1, <1>2, <1>4, <1>13, CopyIs
  <2> HIDE DEF out
  <2>3. /\ out.copy \in Seq(Int) /\ Len(out.copy) \in Nat
        /\ Carried(End) = Parsed - in.pos + Len(out.copy)
        /\ \A i \in 1 .. Len(out.copy) : out.copy[i] = Parsed - in.pos + i - 1
        /\ in.pos <= Len(out.copy)
    BY <2>2 DEF Good, Inputs
  <2> DEFINE c == out.copy
             from == in.pos
             len == Len(out.copy)
  <2>4. /\ span' \in Seq(Int) /\ Len(span') = len - from
        /\ \A i \in 1 .. len - from : span'[i] = c[from + i]
    <3>1. c \in Seq(Int) /\ Len(c) = len /\ len \in Nat /\ from \in Nat /\ from <= len
      BY <1>2, <2>3
    <3>2. span' = SubSeq(c, from + 1, len)
      BY <2>1
    <3> HIDE DEF c, len, from
    <3> QED BY <3>1, <3>2, TailIs
  <2>5. \A i \in 1 .. len - from : span'[i] = Parsed + i - 1
    <3> SUFFICES ASSUME NEW i \in 1 .. len - from PROVE span'[i] = Parsed + i - 1
      OBVIOUS
    <3>1. len \in Nat /\ from \in Nat /\ span'[i] = c[from + i]
      BY <1>2, <2>3, <2>4
    <3>2. \A j \in 1 .. len : c[j] = Parsed - from + j - 1
      BY <2>3
    <3> HIDE DEF c, len, from
    <3>3. from + i \in 1 .. len
      BY <3>1
    <3>4. c[from + i] = Parsed - from + (from + i) - 1
      BY <3>2, <3>3
    <3> QED BY <1>4, <3>1, <3>4
  <2>6. Len(span') = Carried(End) - Parsed
    BY <1>2, <1>4, <2>3, <2>4
  <2> QED BY <1>2, <1>11, <1>13, <2>1, <2>2, <2>4, <2>5, <2>6
<1> QED BY <1>10, <1>12, <1>13

\* An item that is not read is passed over.
LEMMA PassedOver ==
  ASSUME IInv, InCodestream, ~ Finished, Items[item].kind # "header", span = NoSpan,
         SetsInput(AdvanceCodestream(Input, ItemEnd(item) - Parsed)),
         item' = item + 1, section' = 0, UNCHANGED <<file, restOfBox, box_stage, span>>,
         at' = at
  PROVE  TypeInv' /\ BoxInv' /\ PosInv' /\ SpanInv'
<1> DEFINE out == AdvanceCodestream(Input, ItemEnd(item) - Parsed)
<1>1. TypeInv /\ BoxInv /\ PosInv /\ (codestream_copy = <<>> => codestream_pos = 0)
  <2>1. TypeInv /\ BoxInv /\ PosInv /\ codestream_pos \in Nat
    BY DEF IInv, TypeInv
  <2> QED BY <2>1 DEF PosInv
<1>2. ItemEnd(item) \in Nat /\ Good(out, ItemEnd(item)) /\ out.copy = <<>>
  BY <1>1, WholeItem
<1> HIDE DEF out
<1>3. Takes(ItemEnd(item), out)
  BY <1>2 DEF Takes, out
<1>4. /\ item' \in 1 .. Len(Items') + 1 /\ section' \in Nat /\ Parsed' = ItemEnd(item)
      /\ ~ Finished' => Items'[item'].kind = "header"
  BY <1>1, NextItem
<1>5. BoxInv'
  BY <1>1, <1>2, <1>3, TakesBox
<1>6. PosInv'
  BY <1>1, <1>2, <1>3, <1>4, TakesPos
<1>7. SpanInv' /\ span' \in Seq(Int)
  BY DEF SpanInv, NoSpan
<1>8. TypeInv'
  BY <1>1, <1>2, <1>3, <1>4, <1>7, TakesTypes DEF TypeInv
<1> QED BY <1>5, <1>6, <1>7, <1>8

LEMMA SkipItemStep ==
  ASSUME IInv, SkipItem
  PROVE  IInv'
<1>1. /\ at = "codestream" /\ at' = at /\ status' = status /\ ~ Finished
      /\ Items[item].kind = "skip" /\ section' = section /\ item' = item + 1
      /\ SetsInput(AdvanceCodestream(Input, ItemEnd(item) - Parsed))
      /\ UNCHANGED <<file, restOfBox, box_stage, span>> /\ InCodestream /\ TypeInv
  BY DEF SkipItem, Wants, boxVars, restOfBox, IInv, BoxInv
<1>2. section' = 0
  BY <1>1, ParsedFacts
<1>3. span = NoSpan
  BY <1>1 DEF IInv, SpanInv
<1>4. TypeInv' /\ BoxInv' /\ PosInv' /\ SpanInv'
  BY <1>1, <1>2, <1>3, PassedOver
<1>5. ReturnInv'
  BY <1>1 DEF ReturnInv
<1> QED BY <1>4, <1>5 DEF IInv

LEMMA SkipCurrentFrameStep ==
  ASSUME IInv, SkipCurrentFrame, Skips \subseteq {"inside"}
  PROVE  IInv'
<1>1. PICK where \in Skips :
        /\ where = "inside" => box_stage = "codestream" /\ header_size = 0
        /\ SetsInput(AdvanceCodestream(
             [Input EXCEPT !.avail_in = IF where = "unset" THEN 0 ELSE @],
             ItemEnd(item) - Parsed))
  BY DEF SkipCurrentFrame
<1>2. where = "inside" /\ InCodestream
  BY <1>1 DEF InCodestream
<1>3. [Input EXCEPT !.avail_in = IF where = "unset" THEN 0 ELSE @] = Input
  BY <1>2 DEF Input
<1>4. SetsInput(AdvanceCodestream(Input, ItemEnd(item) - Parsed))
  BY <1>1, <1>3
<1>5. /\ at = "client" /\ at' = at /\ status' = "skipped" /\ section > 0
      /\ section' = 0 /\ item' = item + 1 /\ TypeInv
      /\ UNCHANGED <<file, restOfBox, box_stage, span>>
  BY DEF SkipCurrentFrame, boxVars, restOfBox, IInv
<1>6. ~ Finished /\ Items[item].kind # "header" /\ span = NoSpan
  BY <1>5 DEF TypeInv, IInv, SpanInv
<1>7. TypeInv' /\ BoxInv' /\ PosInv' /\ SpanInv'
  BY <1>2, <1>4, <1>5, <1>6, PassedOver
<1>8. ReturnInv'
  BY <1>5 DEF ReturnInv
<1> QED BY <1>7, <1>8 DEF IInv

-----------------------------------------------------------------------------
(* Steps that take no input, or take it outside the codestream.            *)

\* Nothing is moved, but the place of the program.
LEMMA StandsStill ==
  ASSUME IInv, UNCHANGED <<file, inputVars, boxVars, span, item, section>>,
         at' \in {"client", "boxes", "codestream"},
         at' = "codestream" => InCodestream,
         at' = at \/ span = NoSpan
  PROVE  TypeInv' /\ BoxInv' /\ PosInv' /\ SpanInv'
<1>1. /\ file' = file /\ file_pos' = file_pos /\ avail_in' = avail_in
      /\ codestream_copy' = codestream_copy /\ codestream_unconsumed' = codestream_unconsumed
      /\ codestream_pos' = codestream_pos /\ box_stage' = box_stage
      /\ header_size' = header_size /\ box_contents_end' = box_contents_end
      /\ box_contents_unbounded' = box_contents_unbounded
      /\ span' = span /\ item' = item /\ section' = section
  BY DEF inputVars, boxVars
<1>2. TypeInv'
  BY <1>1 DEF IInv, TypeInv, Supplied, Items, Finished
<1>3. BoxInv'
  <2>1. \A k : InBox(k)' <=> InBox(k)
    BY <1>1 DEF InBox, Finished, Items, StageOf, Carries, Before
  <2> QED BY <1>1, <2>1 DEF IInv, BoxInv, InCodestream
<1>4. Parsed' = Parsed /\ Available' = Available /\ Held' = Held /\ Finished' = Finished
      /\ Items' = Items /\ ItemEnd(item)' = ItemEnd(item) /\ \A n : Carried(n)' = Carried(n)
  <2>1. Items' = Items /\ ItemEnd(item)' = ItemEnd(item) /\ \A n : Carried(n)' = Carried(n)
    BY <1>1 DEF Items, ItemEnd, Carried
  <2>2. Parsed' = Parsed
    BY <1>1 DEF Parsed, EndOf, ItemEnd, Items
  <2>3. Available' = Available /\ Held' = Held
    BY <1>1 DEF Available, AvailableCodestream, Input, Held, Least
  <2>4. Finished' = Finished
    BY <1>1 DEF Finished, Items
  <2> QED BY <2>1, <2>2, <2>3, <2>4
<1>5. Carried(Held)' = Carried(Held) /\ Carried(file_pos)' = Carried(file_pos)
      /\ Carried(file_pos + Available)' = Carried(file_pos + Available)
  BY <1>1, <1>4 DEF Carried
<1>6. PosInv'
  BY <1>1, <1>4, <1>5 DEF IInv, PosInv, InCodestream
<1>7. SpanInv'
  BY <1>1, <1>4, <1>5 DEF IInv, SpanInv
<1> QED BY <1>2, <1>3, <1>6, <1>7

\* Input is taken that is no codestream.
LEMMA MovesOutside ==
  ASSUME IInv, ~ InCodestream, at # "codestream",
         NEW by \in Nat, by <= avail_in, file_pos' = file_pos + by, avail_in' = avail_in - by,
         UNCHANGED <<file, codestream_copy, codestream_unconsumed, codestream_pos, parserVars>>,
         ~ Finished => Carried(file_pos + by) = Carried(file_pos)
  PROVE  /\ PosInv' /\ SpanInv'
         /\ file' \in Files /\ file_pos' \in Nat /\ avail_in' \in Nat /\ Supplied' = Supplied
         /\ Supplied' <= Len(file'.bytes)
         /\ codestream_copy' \in Seq(Int) /\ codestream_unconsumed' \in Nat /\ codestream_pos' \in Nat
         /\ span' \in Seq(Int) /\ item' \in 1 .. Len(Items') + 1 /\ section' \in Nat
         /\ section' > 0 => /\ ~ Finished' /\ Items'[item'].kind = "sections"
                            /\ section' <= Len(Items'[item'].ends)
         /\ codestream_unconsumed' = 0
<1>1. /\ file' = file /\ codestream_copy' = codestream_copy
      /\ codestream_unconsumed' = codestream_unconsumed /\ codestream_pos' = codestream_pos
      /\ span' = span /\ item' = item /\ section' = section
  BY DEF parserVars
<1>2. TypeInv /\ BoxInv /\ PosInv /\ SpanInv
  BY DEF IInv
<1>3. file_pos \in Nat /\ avail_in \in Nat /\ codestream_unconsumed \in Nat
  BY <1>2 DEF TypeInv
<1>4. codestream_unconsumed = 0
  BY <1>2, <1>3 DEF PosInv
<1>5. Items' = Items /\ ItemEnd(item)' = ItemEnd(item) /\ Finished' = Finished /\ Parsed' = Parsed
  <2>1. Items' = Items
    BY <1>1 DEF Items
  <2> QED BY <1>1, <2>1 DEF ItemEnd, Finished, Parsed, EndOf
<1>6. Held = file_pos /\ Held' = file_pos'
  BY <1>1, <1>3, <1>4 DEF Held
<1>7. Carried(file_pos)' = Carried(file_pos + by) /\ Carried(Held)' = Carried(file_pos + by)
      /\ Carried(Held) = Carried(file_pos)
  BY <1>1, <1>6 DEF Carried
<1>8. PosInv'
  BY <1>1, <1>2, <1>4, <1>5, <1>7 DEF PosInv
<1>9. span = NoSpan /\ SpanInv'
  BY <1>1, <1>2 DEF SpanInv
<1>10. Supplied' = Supplied /\ avail_in' \in Nat /\ file_pos' \in Nat
  BY <1>3 DEF Supplied
<1> QED BY <1>1, <1>2, <1>4, <1>5, <1>8, <1>9, <1>10 DEF TypeInv

\* What is no codestream carries none.
LEMMA OutsideCarried ==
  ASSUME TypeInv, file.container, NEW k \in 1 .. Len(file.boxes),
         NEW by \in Nat, by <= avail_in,
         file.starts[k] <= file_pos, file_pos + by <= file.starts[k + 1],
         ~ Carries(file.boxes[k]) \/ file_pos + by <= file.starts[k] + Before(file.boxes[k])
  PROVE  Carried(file_pos + by) = Carried(file_pos)
<1> DEFINE from == file.starts[k]
           to == file.starts[k + 1]
           before == Before(file.boxes[k])
<1>1. /\ file \in Files /\ file_pos \in Nat /\ avail_in \in Nat
      /\ Supplied <= Len(file.bytes) /\ Len(file.bytes) \in Nat
      /\ from \in Nat /\ to \in Nat /\ before \in Nat
  BY BoxIs, FileFacts DEF TypeInv
<1>2. \A i \in Nat : from < i /\ i <= to /\ i <= Len(file.bytes) =>
        (file.bytes[i] # Other <=> Carries(file.boxes[k]) /\ i > from + before)
  BY <1>1, BoxBytes
<1> HIDE DEF from, to, before
<1>3. \A i \in file_pos + 1 .. file_pos + by : file.bytes[i] = Other
  <2> SUFFICES ASSUME NEW i \in file_pos + 1 .. file_pos + by PROVE file.bytes[i] = Other
    OBVIOUS
  <2>1. /\ i \in Nat /\ from < i /\ i <= to /\ i <= Len(file.bytes) /\ i <= file_pos + by
    <3>1. from <= file_pos /\ file_pos + by <= to
      BY DEF from, to
    <3>2. file_pos + avail_in <= Len(file.bytes)
      BY <1>1 DEF Supplied
    <3> QED BY ONLY <1>1, <3>1, <3>2, by \in Nat, by <= avail_in, i \in file_pos + 1 .. file_pos + by
  <2>2. ~ Carries(file.boxes[k]) \/ ~ (i > from + before)
    BY <1>1, <2>1 DEF from, before
  <2> QED BY <1>2, <2>1, <2>2
<1>4. file_pos + by \in Nat /\ file_pos <= file_pos + by
  BY <1>1
<1> QED BY <1>1, <1>3, <1>4, CarriedSkip

LEMMA EnterBoxStep ==
  ASSUME IInv, EnterBox
  PROVE  IInv'
<1>1. /\ TypeInv /\ BoxInv /\ at = "boxes" /\ at' = at /\ status' = status
      /\ box_stage # "header" /\ header_size > 0 /\ header_size' = 0
      /\ box_stage' = box_stage /\ box_contents_end' = box_contents_end
      /\ box_contents_unbounded' = box_contents_unbounded
      /\ UNCHANGED <<file, parserVars>> /\ file' = file /\ item' = item
      /\ HeaderSize \in Nat \ {0}
  BY InputAssumption DEF IInv, EnterBox, parserVars
<1>2. header_size = HeaderSize /\ file \in Files /\ file_pos \in Nat /\ avail_in \in Nat
      /\ box_stage \in {"header", "ftyp", "partial", "codestream", "skip"}
  BY <1>1 DEF TypeInv
<1>3. /\ file_pos' = file_pos + HeaderSize /\ avail_in' = avail_in - HeaderSize
      /\ UNCHANGED <<codestream_copy, codestream_unconsumed, codestream_pos>>
  BY <1>2 DEF EnterBox, SetsInput, AdvanceInput, Input
<1>4. file.container
  BY <1>1, <1>2, FileFacts DEF BoxInv
<1>5. PICK k \in 1 .. Len(file.boxes) : InBox(k)
  BY <1>1, <1>4 DEF BoxInv
<1> DEFINE box == file.boxes[k]
<1>6. /\ box_contents_unbounded = box.unbounded
      /\ box_contents_end = IF box.unbounded THEN 0 ELSE file.starts[k + 1]
      /\ file_pos = file.starts[k] /\ avail_in >= HeaderSize /\ box_stage = StageOf(box)
  BY <1>1, <1>5 DEF InBox
<1>7. /\ file.starts[k] \in Nat /\ file.starts[k + 1] \in Nat
      /\ Before(box) \in Nat /\ Before(box) >= HeaderSize
      /\ file.starts[k + 1] >= file.starts[k] + HeaderSize
      /\ Before(box) = IF box.type = "jxlp" THEN HeaderSize + 1 ELSE HeaderSize
  BY <1>2, <1>4, BoxIs
<1>8. Carried(file_pos + HeaderSize) = Carried(file_pos)
  <2> HIDE DEF box
  <2>1. /\ file.starts[k] <= file_pos /\ file_pos + HeaderSize <= file.starts[k + 1]
        /\ file_pos + HeaderSize <= file.starts[k] + Before(box) /\ HeaderSize <= avail_in
    BY <1>1, <1>2, <1>6, <1>7
  <2> QED BY <1>1, <1>4, <2>1, OutsideCarried DEF box
<1>9. /\ PosInv' /\ SpanInv'
      /\ file' \in Files /\ file_pos' \in Nat /\ avail_in' \in Nat
      /\ Supplied' <= Len(file'.bytes)
      /\ codestream_copy' \in Seq(Int) /\ codestream_unconsumed' \in Nat /\ codestream_pos' \in Nat
      /\ span' \in Seq(Int) /\ item' \in 1 .. Len(Items') + 1 /\ section' \in Nat
      /\ section' > 0 => /\ ~ Finished' /\ Items'[item'].kind = "sections"
                         /\ section' <= Len(Items'[item'].ends)
  <2>1. ~ InCodestream /\ at # "codestream" /\ HeaderSize \in Nat /\ HeaderSize <= avail_in
    BY <1>1, <1>2, <1>6 DEF InCodestream
  <2> QED BY <1>1, <1>3, <1>8, <2>1, MovesOutside
<1>10. TypeInv'
  BY <1>1, <1>2, <1>9 DEF TypeInv
<1>11. InBox(k)'
  <2>1. /\ box_contents_unbounded' = file'.boxes[k].unbounded
        /\ box_contents_end' = IF file'.boxes[k].unbounded THEN 0 ELSE file'.starts[k + 1]
        /\ header_size' = 0
        /\ file_pos' = file'.starts[k] + HeaderSize
        /\ box_stage' = StageOf(file'.boxes[k])
    BY <1>1, <1>3, <1>6
  <2>2. file_pos' >= file'.starts[k] + HeaderSize /\ file_pos' <= file'.starts[k + 1]
    BY <1>1, <1>7, <2>1
  <2>3. box_stage' = "codestream" =>
          Carries(file'.boxes[k]) /\ file_pos' >= file'.starts[k] + Before(file'.boxes[k])
    <3>1. box_stage' = "codestream" => box.type = "jxlc"
      BY <1>1, <1>6 DEF StageOf
    <3> QED BY <1>1, <1>7, <2>1, <2>2, <3>1 DEF Carries
  <2>4. box_stage' = "skip" => ~ Carries(file'.boxes[k])
    BY <2>1 DEF StageOf, Carries
  <2> QED BY <2>1, <2>2, <2>3, <2>4 DEF InBox
<1>12. BoxInv'
  <2>1. at' # "codestream" /\ box_stage' # "header" /\ file'.container /\ file'.boxes = file.boxes
    BY <1>1, <1>4
  <2> QED BY <1>1, <1>11, <2>1 DEF BoxInv
<1> QED BY <1>1, <1>9, <1>10, <1>12 DEF IInv, ReturnInv

LEMMA BareCodestreamStep ==
  ASSUME IInv, BareCodestream
  PROVE  IInv'
<1>1. /\ TypeInv /\ BoxInv /\ at = "boxes" /\ box_stage = "header" /\ header_size = 0
      /\ ~ file.container /\ header_size' = header_size /\ box_contents_end' = box_contents_end
      /\ UNCHANGED <<file, parserVars>> /\ file' = file
      /\ file_pos' = file_pos /\ avail_in' = avail_in
      /\ UNCHANGED <<codestream_copy, codestream_unconsumed, codestream_pos>>
  BY DEF IInv, BareCodestream, InStage, BoxInv, inputVars
<1>2. \/ Returns("success") /\ box_stage' = box_stage /\ box_contents_unbounded' = box_contents_unbounded
      \/ box_stage' = "codestream" /\ box_contents_unbounded' = TRUE /\ at' = at /\ status' = status
  BY DEF BareCodestream
<1>3. /\ PosInv' /\ SpanInv'
      /\ file' \in Files /\ file_pos' \in Nat /\ avail_in' \in Nat
      /\ Supplied' <= Len(file'.bytes)
      /\ codestream_copy' \in Seq(Int) /\ codestream_unconsumed' \in Nat /\ codestream_pos' \in Nat
      /\ span' \in Seq(Int) /\ item' \in 1 .. Len(Items') + 1 /\ section' \in Nat
      /\ section' > 0 => /\ ~ Finished' /\ Items'[item'].kind = "sections"
                         /\ section' <= Len(Items'[item'].ends)
  <2>1. ~ InCodestream /\ at # "codestream"
    BY <1>1 DEF InCodestream
  <2>2. file_pos \in Nat /\ avail_in \in Nat /\ 0 <= avail_in
    BY <1>1 DEF TypeInv
  <2>3. file_pos' = file_pos + 0 /\ avail_in' = avail_in - 0 /\ Carried(file_pos + 0) = Carried(file_pos)
    BY <1>1, <2>2
  <2> QED BY <1>1, <2>1, <2>2, <2>3, MovesOutside
<1>4. at' \in {"client", "boxes"} /\ box_stage' \in {"header", "codestream"}
  BY <1>1, <1>2 DEF Returns
<1>5. TypeInv'
  BY <1>1, <1>2, <1>3, <1>4 DEF TypeInv
<1>6. BoxInv'
  BY <1>1, <1>2, <1>4 DEF BoxInv
<1>7. ReturnInv'
  BY <1>1, <1>2 DEF Returns, ReturnInv
<1> QED BY <1>3, <1>5, <1>6, <1>7 DEF IInv

LEMMA NothingHeld ==
  ASSUME IInv, ~ InCodestream
  PROVE  codestream_unconsumed = 0
BY DEF IInv, TypeInv, PosInv

LEMMA EndOfBoxesStep ==
  ASSUME IInv, EndOfBoxes \/ HeaderIncomplete
  PROVE  IInv'
<1>1. /\ at = "boxes" /\ box_stage = "header" /\ avail_in < HeaderSize
      /\ UNCHANGED <<file, inputVars, boxVars, span, item, section>>
      /\ at' = "client" /\ status' # "event"
  <2>1. HeaderSize \in Nat \ {0} /\ avail_in \in Nat
    BY InputAssumption DEF IInv, TypeInv
  <2>2. CASE EndOfBoxes
    <3>1. at = "boxes" /\ box_stage = "header" /\ avail_in < HeaderSize
      <4>1. at = "boxes" /\ box_stage = "header" /\ avail_in = 0
        BY <2>2, Zenon DEF EndOfBoxes, InStage
      <4> QED BY <2>1, <4>1
    <3>2. UNCHANGED <<file, inputVars, boxVars, span, item, section>>
      BY <2>2 DEF EndOfBoxes, parserVars
    <3>3. at' = "client" /\ status' # "event"
      BY <2>2 DEF EndOfBoxes, Returns
    <3> QED BY <3>1, <3>2, <3>3
  <2>3. CASE HeaderIncomplete
    <3>1. at = "boxes" /\ box_stage = "header" /\ avail_in < HeaderSize
      <4>1. at = "boxes" /\ box_stage = "header" /\ avail_in \in 1 .. HeaderSize - 1
        BY <2>3, Zenon DEF HeaderIncomplete, InStage
      <4> QED BY <2>1, <4>1
    <3>2. UNCHANGED <<file, inputVars, boxVars, span, item, section>>
      BY <2>3 DEF HeaderIncomplete, parserVars
    <3>3. at' = "client" /\ status' # "event"
      BY <2>3 DEF HeaderIncomplete, Returns
    <3> QED BY <3>1, <3>2, <3>3
  <2> QED BY <2>2, <2>3
<1>2. span = NoSpan /\ ~ InCodestream
  BY <1>1 DEF IInv, SpanInv, InCodestream
<1>3. TypeInv' /\ BoxInv' /\ PosInv' /\ SpanInv'
  BY <1>1, <1>2, StandsStill
<1>4. codestream_unconsumed' = 0 /\ avail_in' = avail_in
  BY <1>1, <1>2, NothingHeld DEF inputVars
<1> QED BY <1>1, <1>2, <1>3, <1>4 DEF IInv, ReturnInv

LEMMA ReadBoxHeaderStep ==
  ASSUME IInv, ReadBoxHeader
  PROVE  IInv'
<1> DEFINE box == BoxAt(file_pos)
<1>1. /\ TypeInv /\ BoxInv /\ at = "boxes" /\ box_stage = "header" /\ header_size = 0
      /\ file.container /\ avail_in >= HeaderSize
      /\ box_contents_unbounded' = box.unbounded
      /\ box_contents_end' = IF box.unbounded THEN 0 ELSE file_pos + BoxLength(box)
      /\ box_stage' = StageOf(box) /\ header_size' = HeaderSize
      /\ UNCHANGED <<file, parserVars>> /\ file' = file
      /\ file_pos' = file_pos /\ avail_in' = avail_in
      /\ UNCHANGED <<codestream_copy, codestream_unconsumed, codestream_pos>>
      /\ Returns("box") \/ UNCHANGED <<at, status>>
  BY DEF IInv, ReadBoxHeader, InStage, BoxInv, inputVars
<1>2. /\ file \in Files /\ file_pos \in Nat /\ avail_in \in Nat /\ HeaderSize \in Nat \ {0}
      /\ Supplied <= Len(file.bytes) /\ Len(file.bytes) \in Nat
  BY <1>1, FileFacts, InputAssumption DEF TypeInv
<1>3. PICK k \in 1 .. Len(file.boxes) : box = file.boxes[k] /\ file.starts[k] = file_pos
  <2>1. PICK l \in 1 .. Len(file.starts) : file_pos = file.starts[l]
    BY <1>1 DEF BoxInv
  <2>2. l \in 1 .. Len(file.boxes)
    <3>1. file_pos < Len(file.bytes)
      BY <1>1, <1>2 DEF Supplied
    <3> QED BY <1>1, <1>2, <2>1, <3>1, BoxStartsHere
  <2>3. \E l0 \in 1 .. Len(file.boxes) : file.starts[l0] = file_pos
    BY <2>1, <2>2
  <2> QED BY <2>3 DEF BoxAt
<1>4. /\ file.starts[k + 1] = file_pos + BoxLength(box) /\ file.starts[k + 1] \in Nat
      /\ box.unbounded \in BOOLEAN
  <2>1. BoxesFit(file)
    BY <1>1, <1>2, FileFacts
  <2>2. file.starts[k + 1] = file.starts[k] + BoxLength(file.boxes[k])
    BY <2>1 DEF BoxesFit
  <2> QED BY <1>1, <1>2, <1>3, <2>2, BoxIs
<1> HIDE DEF box
<1>5. /\ PosInv' /\ SpanInv'
      /\ file' \in Files /\ file_pos' \in Nat /\ avail_in' \in Nat
      /\ Supplied' <= Len(file'.bytes)
      /\ codestream_copy' \in Seq(Int) /\ codestream_unconsumed' \in Nat /\ codestream_pos' \in Nat
      /\ span' \in Seq(Int) /\ item' \in 1 .. Len(Items') + 1 /\ section' \in Nat
      /\ section' > 0 => /\ ~ Finished' /\ Items'[item'].kind = "sections"
                         /\ section' <= Len(Items'[item'].ends)
  <2>1. ~ InCodestream /\ at # "codestream"
    BY <1>1 DEF InCodestream
  <2>2. 0 <= avail_in /\ file_pos' = file_pos + 0 /\ avail_in' = avail_in - 0
        /\ Carried(file_pos + 0) = Carried(file_pos)
    BY <1>1, <1>2
  <2> QED BY <1>1, <2>1, <2>2, MovesOutside
<1>6. box_stage' \in {"ftyp", "partial", "codestream", "skip"}
  BY <1>1 DEF StageOf
<1>7. at' \in {"client", "boxes"} /\ (at' = "client" => status' \in {"box", "error"})
  BY <1>1 DEF Returns
<1>8. TypeInv'
  BY <1>1, <1>2, <1>3, <1>4, <1>5, <1>6, <1>7 DEF TypeInv
<1>9. InBox(k)'
  <2>1. /\ box_contents_unbounded' = file'.boxes[k].unbounded
        /\ box_contents_end' = IF file'.boxes[k].unbounded THEN 0 ELSE file'.starts[k + 1]
        /\ header_size' > 0 /\ header_size' # 0 /\ file_pos' = file'.starts[k]
        /\ avail_in' >= HeaderSize /\ box_stage' = StageOf(file'.boxes[k])
    BY <1>1, <1>2, <1>3, <1>4
  <2> QED BY <2>1 DEF InBox
<1>10. BoxInv'
  <2>1. at' # "codestream" /\ box_stage' # "header" /\ file'.container /\ file'.boxes = file.boxes
    BY <1>1, <1>6, <1>7
  <2> QED BY <1>1, <1>9, <2>1 DEF BoxInv
<1>11. ReturnInv'
  BY <1>7 DEF ReturnInv
<1> QED BY <1>5, <1>8, <1>10, <1>11 DEF IInv

LEMMA ReadBoxStartStep ==
  ASSUME IInv, ReadBoxStart
  PROVE  IInv'
<1>1. /\ TypeInv /\ BoxInv /\ at = "boxes" /\ box_stage \in {"ftyp", "partial"}
      /\ header_size = 0 /\ header_size' = 0
      /\ box_contents_end' = box_contents_end
      /\ box_contents_unbounded' = box_contents_unbounded
      /\ UNCHANGED <<file, parserVars>> /\ file' = file /\ ~ InCodestream
  BY DEF IInv, ReadBoxStart, InCodestream, parserVars
<1>2. /\ file \in Files /\ file_pos \in Nat /\ avail_in \in Nat /\ HeaderSize \in Nat \ {0}
  BY <1>1, InputAssumption DEF TypeInv
<1>3. CASE avail_in = 0
  <2>1. Returns("need more") /\ UNCHANGED <<file, inputVars, boxVars, span, item, section>>
    BY <1>1, <1>3 DEF ReadBoxStart, boxVars, parserVars
  <2>2. at' = "client" /\ status' # "event" /\ span = NoSpan
    BY <1>1, <2>1 DEF Returns, IInv, SpanInv
  <2>3. TypeInv' /\ BoxInv' /\ PosInv' /\ SpanInv'
    BY <2>1, <2>2, StandsStill
  <2>4. codestream_unconsumed' = 0 /\ avail_in' < HeaderSize
    <3>1. codestream_unconsumed' = codestream_unconsumed /\ avail_in' = avail_in
      BY <2>1 DEF inputVars
    <3>2. codestream_unconsumed = 0
      BY <1>1, NothingHeld
    <3> QED BY <1>2, <1>3, <3>1, <3>2
  <2> QED BY <2>2, <2>3, <2>4 DEF IInv, ReturnInv
<1>4. CASE avail_in # 0
  <2>1. /\ box_stage' = IF box_stage = "ftyp" THEN "skip" ELSE "codestream"
        /\ SetsInput(AdvanceInput(Input, 1)) /\ at' = at /\ status' = status
    BY <1>4 DEF ReadBoxStart
  <2>2. /\ file_pos' = file_pos + 1 /\ avail_in' = avail_in - 1
        /\ UNCHANGED <<codestream_copy, codestream_unconsumed, codestream_pos>>
    BY <2>1 DEF SetsInput, AdvanceInput, Input
  <2>3. file.container
    BY <1>1, <1>2, FileFacts DEF BoxInv
  <2>4. PICK k \in 1 .. Len(file.boxes) : InBox(k)
    BY <1>1, <2>3 DEF BoxInv
  <2> DEFINE box == file.boxes[k]
  <2>5. /\ box_contents_unbounded = box.unbounded
        /\ box_contents_end = IF box.unbounded THEN 0 ELSE file.starts[k + 1]
        /\ file_pos = file.starts[k] + HeaderSize /\ box_stage = StageOf(box)
    BY <1>1, <2>4 DEF InBox
  <2>6. /\ file.starts[k] \in Nat /\ file.starts[k + 1] \in Nat
        /\ Before(box) = IF box.type = "jxlp" THEN HeaderSize + 1 ELSE HeaderSize
        /\ box.type \in {"ftyp", "jxlp"} => file.starts[k + 1] > file.starts[k] + HeaderSize
    BY <1>2, <2>3, BoxIs
  <2>7. /\ box_stage = "ftyp" => box.type = "ftyp"
        /\ box_stage = "partial" => box.type = "jxlp"
    BY <2>5 DEF StageOf
  <2> HIDE DEF box
  <2>8. /\ file_pos + 1 <= file.starts[k + 1]
        /\ box_stage = "ftyp" => ~ Carries(box)
        /\ box_stage = "partial" => Carries(box) /\ file_pos + 1 = file.starts[k] + Before(box)
    <3>1. box.type \in {"ftyp", "jxlp"}
      BY <1>1, <2>7
    <3>2. file_pos + 1 <= file.starts[k + 1]
      BY <1>2, <2>5, <2>6, <3>1
    <3>3. box_stage = "ftyp" => ~ Carries(box)
      BY <2>7 DEF Carries
    <3>4. box_stage = "partial" => Carries(box) /\ file_pos + 1 = file.starts[k] + Before(box)
      <4> SUFFICES ASSUME box_stage = "partial"
                   PROVE  Carries(box) /\ file_pos + 1 = file.starts[k] + Before(box)
        OBVIOUS
      <4>1. box.type = "jxlp"
        BY <2>7
      <4>2. Before(box) = HeaderSize + 1
        BY <2>6, <4>1
      <4>3. Carries(box)
        BY <4>1 DEF Carries
      <4>4. file_pos + 1 = file.starts[k] + Before(box)
        BY <1>2, <2>5, <2>6, <4>2
      <4> QED BY <4>3, <4>4
    <3> QED BY <3>2, <3>3, <3>4
  <2>9. Carried(file_pos + 1) = Carried(file_pos)
    <3>1. /\ file.starts[k] <= file_pos /\ 1 <= avail_in
          /\ ~ Carries(box) \/ file_pos + 1 <= file.starts[k] + Before(box)
      BY <1>1, <1>2, <1>4, <2>5, <2>6, <2>8
    <3> QED BY <1>1, <2>3, <2>8, <3>1, OutsideCarried DEF box
  <2>10. /\ PosInv' /\ SpanInv'
         /\ file' \in Files /\ file_pos' \in Nat /\ avail_in' \in Nat
         /\ Supplied' <= Len(file'.bytes)
         /\ codestream_copy' \in Seq(Int) /\ codestream_unconsumed' \in Nat /\ codestream_pos' \in Nat
         /\ span' \in Seq(Int) /\ item' \in 1 .. Len(Items') + 1 /\ section' \in Nat
         /\ section' > 0 => /\ ~ Finished' /\ Items'[item'].kind = "sections"
                            /\ section' <= Len(Items'[item'].ends)
    <3>1. 1 \in Nat /\ 1 <= avail_in /\ at # "codestream"
      BY <1>1, <1>2, <1>4
    <3> QED BY <1>1, <2>2, <2>9, <3>1, MovesOutside
  <2>11. TypeInv'
    BY <1>1, <2>1, <2>10 DEF TypeInv
  <2>12. InBox(k)'
    <3>1. /\ box_contents_unbounded' = file'.boxes[k].unbounded
          /\ box_contents_end' = IF file'.boxes[k].unbounded THEN 0 ELSE file'.starts[k + 1]
          /\ ~ (header_size' > 0)
          /\ file_pos' >= file'.starts[k] + HeaderSize /\ file_pos' <= file'.starts[k + 1]
      BY <1>1, <1>2, <2>2, <2>5, <2>6, <2>8 DEF box
    <3>2. /\ box_stage' \in {"skip", "codestream"}
          /\ box_stage' = "codestream" =>
               Carries(file'.boxes[k]) /\ file_pos' >= file'.starts[k] + Before(file'.boxes[k])
          /\ box_stage' = "skip" => ~ Carries(file'.boxes[k])
      BY <1>1, <1>2, <2>1, <2>2, <2>8 DEF box
    <3> QED BY <3>1, <3>2 DEF InBox
  <2>13. BoxInv'
    <3>1. at' # "codestream" /\ box_stage' # "header" /\ file'.container /\ file'.boxes = file.boxes
      BY <1>1, <2>1, <2>3
    <3> QED BY <1>1, <2>12, <3>1 DEF BoxInv
  <2> QED BY <1>1, <2>1, <2>10, <2>11, <2>13 DEF IInv, ReturnInv
<1> QED BY <1>3, <1>4

LEMMA SkipBoxStep ==
  ASSUME IInv, SkipBox
  PROVE  IInv'
<1>1. /\ TypeInv /\ BoxInv /\ at = "boxes" /\ box_stage = "skip" /\ header_size = 0
      /\ header_size' = 0 /\ box_contents_end' = box_contents_end
      /\ box_contents_unbounded' = box_contents_unbounded
      /\ UNCHANGED <<file, parserVars>> /\ file' = file /\ ~ InCodestream /\ item' = item
  BY DEF IInv, SkipBox, InStage, InCodestream, parserVars
<1>2. /\ file \in Files /\ file_pos \in Nat /\ avail_in \in Nat /\ HeaderSize \in Nat \ {0}
      /\ Supplied <= Len(file.bytes) /\ box_contents_unbounded \in BOOLEAN
  BY <1>1, InputAssumption DEF TypeInv
<1>3. CASE box_contents_unbounded
  <2>1. Returns("success") /\ UNCHANGED <<file, inputVars, boxVars, span, item, section>>
    BY <1>1, <1>3 DEF SkipBox, boxVars, parserVars
  <2>2. at' = "client" /\ status' \notin {"event", "need more"} /\ span = NoSpan
    BY <1>1, <2>1 DEF Returns, IInv, SpanInv
  <2>3. TypeInv' /\ BoxInv' /\ PosInv' /\ SpanInv'
    BY <2>1, <2>2, StandsStill
  <2> QED BY <2>2, <2>3 DEF IInv, ReturnInv
<1>4. CASE ~ box_contents_unbounded
  <2> DEFINE remaining == box_contents_end - file_pos
             by == Least(avail_in, remaining)
  <2>1. /\ SetsInput(AdvanceInput(Input, by))
        /\ IF avail_in < remaining THEN Returns("need more") /\ UNCHANGED box_stage
           ELSE box_stage' = "header" /\ UNCHANGED <<at, status>>
    BY <1>4 DEF SkipBox
  <2>2. /\ file_pos' = file_pos + by /\ avail_in' = avail_in - by
        /\ UNCHANGED <<codestream_copy, codestream_unconsumed, codestream_pos>>
    <3> HIDE DEF by
    <3> QED BY <2>1 DEF SetsInput, AdvanceInput, Input
  <2>3. file.container
    BY <1>1, <1>2, FileFacts DEF BoxInv
  <2>4. PICK k \in 1 .. Len(file.boxes) : InBox(k)
    BY <1>1, <2>3 DEF BoxInv
  <2> DEFINE box == file.boxes[k]
  <2>5. /\ ~ box.unbounded /\ box_contents_end = file.starts[k + 1]
        /\ file_pos >= file.starts[k] + HeaderSize /\ file_pos <= file.starts[k + 1]
        /\ ~ Carries(box) \/ Finished
    <3>1. box_contents_unbounded = box.unbounded
      BY <2>4 DEF InBox
    <3> QED BY <1>1, <1>4, <2>4, <3>1 DEF InBox
  <2>6. file.starts[k] \in Nat /\ file.starts[k + 1] \in Nat
    BY <1>2, <2>3, BoxIs
  <2> HIDE DEF box
  <2>7. /\ by \in Nat /\ by <= avail_in /\ file_pos + by <= file.starts[k + 1]
        /\ avail_in < remaining => by = avail_in
        /\ ~ (avail_in < remaining) => file_pos + by = file.starts[k + 1]
    <3>1. remaining \in Nat /\ file_pos + remaining = file.starts[k + 1]
      BY <1>2, <2>5, <2>6
    <3> HIDE DEF remaining
    <3>2. by = IF avail_in < remaining THEN avail_in ELSE remaining
      BY DEF Least
    <3> HIDE DEF by
    <3> QED BY <1>2, <2>6, <3>1, <3>2
  <2> HIDE DEF by
  <2>8. ~ Finished => Carried(file_pos + by) = Carried(file_pos)
    <3> SUFFICES ASSUME ~ Finished PROVE Carried(file_pos + by) = Carried(file_pos)
      OBVIOUS
    <3>1. file.starts[k] <= file_pos /\ ~ Carries(file.boxes[k])
      BY <1>2, <2>5, <2>6 DEF box
    <3> QED BY <1>1, <2>3, <2>7, <3>1, OutsideCarried
  <2>9. /\ PosInv' /\ SpanInv'
        /\ file' \in Files /\ file_pos' \in Nat /\ avail_in' \in Nat
        /\ Supplied' <= Len(file'.bytes)
        /\ codestream_copy' \in Seq(Int) /\ codestream_unconsumed' \in Nat /\ codestream_pos' \in Nat
        /\ span' \in Seq(Int) /\ item' \in 1 .. Len(Items') + 1 /\ section' \in Nat
        /\ section' > 0 => /\ ~ Finished' /\ Items'[item'].kind = "sections"
                           /\ section' <= Len(Items'[item'].ends)
        /\ codestream_unconsumed' = 0
    BY <1>1, <2>2, <2>7, <2>8, MovesOutside
  <2>10. CASE avail_in < remaining
    <3>1. Returns("need more") /\ box_stage' = box_stage
      BY <2>1, <2>10
    <3>2. at' = "client" /\ status' # "event"
      BY <3>1 DEF Returns
    <3>3. avail_in' < HeaderSize
      BY <1>2, <2>2, <2>7, <2>10
    <3>4. TypeInv'
      BY <1>1, <2>9, <3>1, <3>2 DEF TypeInv
    <3>5. InBox(k)'
      <4>1. /\ box_contents_unbounded' = file'.boxes[k].unbounded
            /\ box_contents_end' = IF file'.boxes[k].unbounded THEN 0 ELSE file'.starts[k + 1]
        BY <1>1, <1>4, <2>4, <2>5 DEF InBox, box
      <4>2. /\ ~ (header_size' > 0)
            /\ file_pos' >= file'.starts[k] + HeaderSize /\ file_pos' <= file'.starts[k + 1]
        BY <1>1, <1>2, <2>2, <2>5, <2>6, <2>7
      <4>3. box_stage' = "skip" /\ (~ Carries(file'.boxes[k]) \/ Finished')
        BY <1>1, <2>5, <3>1 DEF box, Finished, Items
      <4> QED BY <4>1, <4>2, <4>3 DEF InBox
    <3>6. BoxInv'
      <4>1. at' # "codestream" /\ box_stage' # "header" /\ file'.container /\ file'.boxes = file.boxes
        BY <1>1, <2>3, <3>1, <3>2
      <4> QED BY <1>1, <3>5, <4>1 DEF BoxInv
    <3> QED BY <2>9, <3>2, <3>3, <3>4, <3>6 DEF IInv, ReturnInv
  <2>11. CASE ~ (avail_in < remaining)
    <3>1. box_stage' = "header" /\ at' = at /\ status' = status
      BY <2>1, <2>11
    <3>2. TypeInv'
      BY <1>1, <2>9, <3>1 DEF TypeInv
    <3>3. file_pos' = file'.starts[k + 1] /\ k + 1 \in 1 .. Len(file'.starts)
      BY <1>1, <1>2, <2>2, <2>3, <2>7, <2>11, BoxFacts
    <3>4. BoxInv'
      BY <1>1, <2>3, <3>1, <3>3 DEF BoxInv
    <3> QED BY <1>1, <2>9, <3>1, <3>2, <3>4 DEF IInv, ReturnInv
  <2> QED BY <2>10, <2>11
<1> QED BY <1>2, <1>3, <1>4

LEMMA EnterCodestreamStep ==
  ASSUME IInv, EnterCodestream
  PROVE  IInv'
<1>1. /\ at = "boxes" /\ InCodestream /\ at' = "codestream" /\ status' = status
      /\ UNCHANGED <<file, inputVars, boxVars, span, item, section>>
  BY DEF EnterCodestream, InStage, InCodestream, parserVars
<1>2. span = NoSpan
  BY <1>1 DEF IInv, SpanInv
<1>3. TypeInv' /\ BoxInv' /\ PosInv' /\ SpanInv'
  BY <1>1, <1>2, StandsStill
<1> QED BY <1>1, <1>3 DEF IInv, ReturnInv

LEMMA ProcessInputStep ==
  ASSUME IInv, ProcessInput \/ CloseInput
  PROVE  IInv'
<1>1. /\ at = "client" /\ at' \in {"boxes", "client"} /\ status' = status
      /\ UNCHANGED <<file, inputVars, boxVars, span, item, section>>
  BY DEF ProcessInput, CloseInput, parserVars
<1>2. span = NoSpan
  BY <1>1 DEF IInv, SpanInv
<1>3. TypeInv' /\ BoxInv' /\ PosInv' /\ SpanInv'
  BY <1>1, <1>2, StandsStill
<1>4. ReturnInv'
  <2>1. /\ avail_in' = avail_in /\ codestream_unconsumed' = codestream_unconsumed
        /\ codestream_copy' = codestream_copy /\ codestream_pos' = codestream_pos
        /\ Carried(file_pos)' = Carried(file_pos) /\ Parsed' = Parsed
    BY <1>1 DEF inputVars, Carried, Parsed, EndOf, ItemEnd, Items
  <2> QED BY <1>1, <2>1 DEF IInv, ReturnInv
<1> QED BY <1>3, <1>4 DEF IInv

LEMMA EndCodestreamStep ==
  ASSUME IInv, EndCodestream
  PROVE  IInv'
<1>1. /\ TypeInv /\ BoxInv /\ PosInv /\ at = "codestream" /\ Finished
      /\ InCodestream /\ box_stage = "codestream" /\ header_size = 0
      /\ UNCHANGED <<file, inputVars, restOfBox, span, item, section>>
      /\ \/ at' = "boxes" /\ box_stage' = "skip" /\ status' = status /\ ~ box_contents_unbounded
         \/ Returns("success") /\ box_stage' = box_stage
  BY DEF IInv, EndCodestream, BoxInv, InCodestream, parserVars
<1>2. span = NoSpan
  BY <1>1 DEF IInv, SpanInv
<1>3. CASE box_stage' = box_stage
  <2>1. UNCHANGED boxVars /\ at' = "client" /\ status' \notin {"event", "need more"}
    BY <1>1, <1>3 DEF boxVars, restOfBox, Returns
  <2>2. TypeInv' /\ BoxInv' /\ PosInv' /\ SpanInv'
    BY <1>1, <1>2, <2>1, StandsStill
  <2> QED BY <2>1, <2>2 DEF IInv, ReturnInv
<1>4. CASE box_stage' # box_stage
  <2>1. /\ at' = "boxes" /\ box_stage' = "skip" /\ status' = status /\ ~ box_contents_unbounded
        /\ file' = file /\ file_pos' = file_pos /\ avail_in' = avail_in
        /\ codestream_copy' = codestream_copy /\ codestream_unconsumed' = codestream_unconsumed
        /\ codestream_pos' = codestream_pos
        /\ header_size' = header_size /\ box_contents_end' = box_contents_end
        /\ box_contents_unbounded' = box_contents_unbounded
        /\ span' = span /\ item' = item /\ section' = section
    BY <1>1, <1>4 DEF restOfBox, inputVars
  <2>2. TypeInv'
    BY <1>1, <2>1 DEF TypeInv, Supplied, Items, Finished
  <2>3. file.container
    BY <1>1, <2>1, FileFacts DEF BoxInv, TypeInv
  <2>4. PICK k \in 1 .. Len(file.boxes) : InBox(k)
    BY <1>1, <2>3 DEF BoxInv
  <2>5. Finished'
    BY <1>1, <2>1 DEF Finished, Items
  <2>6. InBox(k)'
    <3>1. /\ box_contents_unbounded' = file'.boxes[k].unbounded
          /\ box_contents_end' = IF file'.boxes[k].unbounded THEN 0 ELSE file'.starts[k + 1]
          /\ header_size' = 0 /\ ~ (header_size' > 0)
          /\ file_pos' >= file'.starts[k] + HeaderSize /\ file_pos' <= file'.starts[k + 1]
      BY <1>1, <2>1, <2>4 DEF InBox
    <3> QED BY <2>1, <2>5, <3>1 DEF InBox
  <2>7. BoxInv'
    <3>1. at' # "codestream" /\ box_stage' # "header" /\ file'.container /\ file'.boxes = file.boxes
      BY <2>1, <2>3
    <3> QED BY <1>1, <2>1, <2>6, <3>1 DEF BoxInv
  <2>8. codestream_copy = <<>> /\ codestream_unconsumed = 0
    BY <1>1 DEF PosInv
  <2>9. PosInv'
    BY <2>1, <2>5, <2>8 DEF PosInv
  <2>10. SpanInv'
    BY <1>2, <2>1 DEF SpanInv
  <2> QED BY <2>1, <2>2, <2>7, <2>9, <2>10 DEF IInv, ReturnInv
<1> QED BY <1>3, <1>4

LEMMA EnterFrameStep ==
  ASSUME IInv, EnterFrame
  PROVE  IInv'
<1>1. /\ TypeInv /\ BoxInv /\ PosInv /\ at = "codestream" /\ ~ Finished
      /\ Items[item].kind = "sections" /\ section = 0 /\ section' = 1 /\ GoesOn
      /\ UNCHANGED <<file, inputVars, boxVars, span, item>>
  BY DEF IInv, EnterFrame, Wants
<1>2. /\ file' = file /\ file_pos' = file_pos /\ avail_in' = avail_in
      /\ codestream_copy' = codestream_copy /\ codestream_unconsumed' = codestream_unconsumed
      /\ codestream_pos' = codestream_pos /\ box_stage' = box_stage
      /\ header_size' = header_size /\ box_contents_end' = box_contents_end
      /\ box_contents_unbounded' = box_contents_unbounded
      /\ span' = span /\ item' = item
  BY <1>1 DEF inputVars, boxVars
<1>3. /\ codestream_copy = <<>> /\ codestream_pos = 0 /\ codestream_unconsumed = 0
      /\ span = NoSpan /\ Carried(file_pos) = Parsed
  <2>1. codestream_copy = <<>>
    BY <1>1 DEF PosInv
  <2>2. codestream_pos = 0 /\ codestream_unconsumed = 0
    BY <1>1, <2>1 DEF PosInv, TypeInv
  <2>3. Carried(file_pos) + codestream_pos = Parsed
    BY <1>1, <2>1 DEF PosInv
  <2>4. Carried(file_pos) \in Nat
    BY <1>1, CarriedType DEF TypeInv
  <2>5. span = NoSpan
    BY <1>1 DEF IInv, SpanInv
  <2> QED BY <2>1, <2>2, <2>3, <2>4, <2>5
<1>4. /\ item \in 1 .. Len(Items) /\ Items' = Items /\ Len(Items) \in Nat
      /\ Len(Items[item].ends) \in Nat \ {0}
  <2>1. item \in 1 .. Len(Items) /\ Items' = Items /\ Len(Items) \in Nat /\ file \in Files
    BY <1>1, <1>2, ParsedFacts, SameFile DEF TypeInv
  <2> QED BY <2>1, EndsAre
<1>5. ~ Finished' /\ Parsed' = Parsed
  <2>1. ~ (section - 1 > 0) /\ ~ (section' - 1 > 0)
    BY <1>1
  <2> QED BY <1>1, <1>2, <1>4, <2>1 DEF Finished, Parsed, EndOf, ItemEnd
<1>6. at' \in {"client", "codestream"} /\ (at' = "client" => status' # "need more")
  BY <1>1 DEF GoesOn, Returns
<1>7. TypeInv'
  <2>1. section' \in Nat /\ Items'[item'].kind = "sections" /\ section' <= Len(Items'[item'].ends)
    BY <1>1, <1>2, <1>4
  <2>2. Supplied' = Supplied
    BY <1>2 DEF Supplied
  <2> QED BY <1>1, <1>2, <1>4, <1>5, <1>6, <2>1, <2>2 DEF TypeInv
<1>8. BoxInv'
  <2>1. \A k : InBox(k)' <=> InBox(k)
    BY <1>2, <1>4 DEF InBox, Finished, StageOf, Carries, Before
  <2> QED BY <1>1, <1>2, <2>1 DEF BoxInv, InCodestream
<1>9. Carried(file_pos)' = Parsed'
  BY <1>2, <1>3, <1>5 DEF Carried
<1>10. PosInv'
  <2>1. Parsed' = Carried(file_pos)' + codestream_pos'
    <3>1. Carried(file_pos)' \in Nat
      BY <1>1, <1>2, CarriedType DEF TypeInv, Carried
    <3> QED BY <1>2, <1>3, <1>9, <3>1
  <2> QED BY <1>2, <1>3, <2>1 DEF PosInv
<1>11. SpanInv'
  BY <1>2, <1>3 DEF SpanInv
<1>12. ReturnInv'
  BY <1>2, <1>3, <1>6, <1>9 DEF ReturnInv
<1> QED BY <1>7, <1>8, <1>10, <1>11, <1>12 DEF IInv

LEMMA SetInputStep ==
  ASSUME IInv, SetInput
  PROVE  IInv'
<1>1. /\ TypeInv /\ BoxInv /\ PosInv /\ at = "client" /\ at' = at /\ Supplied < Len(file.bytes)
      /\ status' = IF status = "need more" THEN "fed" ELSE status
      /\ file' = file /\ file_pos' = file_pos
      /\ codestream_copy' = codestream_copy /\ codestream_unconsumed' = codestream_unconsumed
      /\ codestream_pos' = codestream_pos /\ box_stage' = box_stage
      /\ header_size' = header_size /\ box_contents_end' = box_contents_end
      /\ box_contents_unbounded' = box_contents_unbounded
      /\ span' = span /\ item' = item /\ section' = section
  BY DEF IInv, SetInput, boxVars, parserVars
<1>2. PICK more \in Pieces : avail_in' = Least(Len(file.bytes), Supplied + more) - file_pos
  BY DEF SetInput
<1>3. /\ file \in Files /\ file_pos \in Nat /\ avail_in \in Nat /\ more \in Nat
      /\ Len(file.bytes) \in Nat /\ codestream_unconsumed \in Nat /\ box_contents_end \in Nat
  BY <1>1, FileFacts, InputAssumption DEF TypeInv
<1>4. avail_in' \in Nat /\ avail_in' >= avail_in /\ Supplied' <= Len(file.bytes)
  <2> DEFINE len == Len(file.bytes)
             supplied == file_pos + avail_in
  <2>1. /\ len \in Nat /\ supplied < len /\ avail_in' = Least(len, supplied + more) - file_pos
        /\ Supplied' = file_pos + avail_in'
    BY <1>1, <1>2, <1>3 DEF Supplied
  <2> HIDE DEF len
  <2>2. Least(len, supplied + more) \in Nat /\ Least(len, supplied + more) >= supplied
          /\ Least(len, supplied + more) <= len
    BY <1>3, <2>1 DEF Least
  <2> QED BY <1>3, <2>1, <2>2 DEF len
<1>5. Items' = Items /\ Finished' = Finished /\ Parsed' = Parsed /\ ItemEnd(item)' = ItemEnd(item)
      /\ Held' = Held /\ Carried(Held)' = Carried(Held) /\ Carried(file_pos)' = Carried(file_pos)
  <2>1. Items' = Items /\ Held' = Held
    BY <1>1 DEF Items, Held
  <2> QED BY <1>1, <2>1 DEF Finished, Parsed, EndOf, ItemEnd, Carried
<1>6. span = NoSpan /\ SpanInv'
  BY <1>1 DEF IInv, SpanInv
<1>7. TypeInv'
  BY <1>1, <1>4, <1>5 DEF TypeInv
<1>8. BoxInv'
  <2>1. ASSUME NEW k \in 1 .. Len(file.boxes), InBox(k)
        PROVE  InBox(k)'
    <3>1. avail_in >= HeaderSize => avail_in' >= HeaderSize
      BY <1>3, <1>4, InputAssumption
    <3> QED BY <1>1, <1>5, <2>1, <3>1 DEF InBox, StageOf, Carries, Before
  <2> QED BY <1>1, <2>1 DEF BoxInv, InCodestream
<1>9. Available' >= Available /\ Available \in Int /\ Available' \in Int
  <2>1. CASE box_contents_unbounded
    <3>1. Available = avail_in /\ Available' = avail_in'
      BY <1>1, <2>1 DEF Available, AvailableCodestream, Input
    <3> QED BY <1>3, <1>4, <3>1
  <2>2. CASE ~ box_contents_unbounded
    <3>1. /\ Available = Least(avail_in, box_contents_end - file_pos)
          /\ Available' = Least(avail_in', box_contents_end - file_pos)
      BY <1>1, <2>2 DEF Available, AvailableCodestream, Input, Least
    <3> QED BY <1>3, <1>4, <3>1 DEF Least
  <2> QED BY <2>1, <2>2
<1>10. PosInv'
  <2>1. codestream_unconsumed' > 0 => InCodestream' /\ codestream_unconsumed' <= Available'
    <3>1. codestream_unconsumed > 0 => InCodestream /\ codestream_unconsumed <= Available
      BY <1>1 DEF PosInv
    <3>2. InCodestream => InCodestream'
      BY <1>1 DEF InCodestream
    <3>3. codestream_unconsumed <= Available => codestream_unconsumed <= Available'
      BY <1>3, <1>9
    <3>4. codestream_unconsumed' = codestream_unconsumed
      BY <1>1
    <3> QED BY <3>1, <3>2, <3>3, <3>4
  <2> QED BY <1>1, <1>5, <2>1 DEF PosInv
<1>11. ReturnInv'
  BY <1>1, <1>5 DEF IInv, ReturnInv
<1> QED BY <1>6, <1>7, <1>8, <1>10, <1>11 DEF IInv

-----------------------------------------------------------------------------
(* The invariant.                                                          *)

LEMMA InitHolds == Init => IInv
<1> SUFFICES ASSUME Init PROVE IInv
  OBVIOUS
<1>1. /\ file \in Files /\ at = "client" /\ status = "none"
      /\ file_pos = 0 /\ avail_in = 0 /\ box_stage = "header" /\ header_size = 0
      /\ box_contents_end = 0 /\ box_contents_unbounded = FALSE
      /\ codestream_copy = <<>> /\ codestream_unconsumed = 0 /\ codestream_pos = 0
      /\ span = NoSpan /\ item = 1 /\ section = 0
  BY DEF Init
<1>2. Len(file.bytes) \in Nat /\ Len(Items) \in Nat /\ Supplied = 0
  BY <1>1, FileFacts DEF Supplied
<1>3. TypeInv
  <2>1. /\ span \in Seq(Int) /\ codestream_copy \in Seq(Int)
        /\ item \in 1 .. Len(Items) + 1 /\ section \in Nat /\ ~ (section > 0)
    BY <1>1, <1>2 DEF NoSpan
  <2>2. Supplied <= Len(file.bytes)
    BY <1>2
  <2> QED BY <1>1, <2>1, <2>2 DEF TypeInv
<1>4. BoxInv
  <2>1. file.container => 1 \in 1 .. Len(file.starts) /\ file_pos = file.starts[1]
    BY <1>1, BoxFacts
  <2> QED BY <1>1, <2>1 DEF BoxInv
<1>5. Carried(file_pos) = 0 /\ Parsed = 0
  <2>1. ~ (section - 1 > 0) /\ item - 1 = 0
    BY <1>1
  <2> QED BY <1>1, <2>1, CarriedNothing DEF Parsed, EndOf, ItemEnd
<1>6. PosInv
  BY <1>1, <1>5 DEF PosInv
<1> QED BY <1>1, <1>3, <1>4, <1>6 DEF IInv, SpanInv, ReturnInv

LEMMA StepHolds ==
  ASSUME Skips \subseteq {"inside"}
  PROVE  IInv /\ [Next]_vars => IInv'
<1> SUFFICES ASSUME IInv, [Next]_vars PROVE IInv'
  OBVIOUS
<1>1. CASE SetInput
  BY <1>1, SetInputStep
<1>2. CASE CloseInput \/ ProcessInput
  BY <1>2, ProcessInputStep
<1>3. CASE SkipCurrentFrame
  BY <1>3, SkipCurrentFrameStep
<1>4. CASE CallStep
  <2>1. CASE EnterBox
    BY <2>1, EnterBoxStep
  <2>2. CASE BareCodestream
    BY <2>2, BareCodestreamStep
  <2>3. CASE EndOfBoxes \/ HeaderIncomplete
    BY <2>3, EndOfBoxesStep
  <2>4. CASE ReadBoxHeader
    BY <2>4, ReadBoxHeaderStep
  <2>5. CASE ReadBoxStart
    BY <2>5, ReadBoxStartStep
  <2>6. CASE EnterCodestream
    BY <2>6, EnterCodestreamStep
  <2>7. CASE SkipBox
    BY <2>7, SkipBoxStep
  <2>8. CASE EnterFrame
    BY <2>8, EnterFrameStep
  <2>9. CASE GetCodestreamInput
    BY <2>9, GetCodestreamInputStep
  <2>10. CASE ReadHeader
    BY <2>10, ReadHeaderStep
  <2>11. CASE ReadSections
    BY <2>11, ReadSectionsStep
  <2>12. CASE SkipItem
    BY <2>12, SkipItemStep
  <2>13. CASE EndCodestream
    BY <2>13, EndCodestreamStep
  <2> QED
    BY <1>4, <2>1, <2>2, <2>3, <2>4, <2>5, <2>6, <2>7, <2>8, <2>9, <2>10, <2>11, <2>12, <2>13
    DEF CallStep
<1>5. CASE UNCHANGED vars
  <2>1. /\ UNCHANGED <<file, inputVars, boxVars, span, item, section>>
        /\ at' = at /\ status' = status
    BY <1>5 DEF vars, parserVars
  <2>2. at' \in {"client", "boxes", "codestream"} /\ (at' = "codestream" => InCodestream)
    BY <2>1 DEF IInv, TypeInv, BoxInv
  <2>3. TypeInv' /\ BoxInv' /\ PosInv' /\ SpanInv'
    BY <2>1, <2>2, StandsStill
  <2>4. ReturnInv'
    <3>1. /\ avail_in' = avail_in /\ codestream_unconsumed' = codestream_unconsumed
          /\ codestream_copy' = codestream_copy /\ codestream_pos' = codestream_pos
          /\ Carried(file_pos)' = Carried(file_pos) /\ Parsed' = Parsed
      BY <2>1 DEF inputVars, Carried, Parsed, EndOf, ItemEnd, Items
    <3> QED BY <2>1, <3>1 DEF IInv, ReturnInv
  <2> QED BY <2>3, <2>4 DEF IInv
<1> QED BY <1>1, <1>2, <1>3, <1>4, <1>5 DEF Next

\* The invariant, for clients that skip frames inside boxes of the codestream.
LEMMA InputInvariant ==
  ASSUME Skips \subseteq {"inside"}
  PROVE  Spec => []IInv
<1>1. IInv /\ [Next]_vars => IInv'
  BY StepHolds
<1> QED BY InitHolds, <1>1, PTL DEF Spec

\* The parser is given every byte of the codestream once, in order and as soon
\* as it is there, for files, boxes and pieces of input of any size and clients
\* that skip frames inside the boxes of the codestream (GetCodestreamInput,
\* AdvanceCodestream, RequestMoreInput).
THEOREM SpansAreTheCodestream ==
  ASSUME Skips \subseteq {"inside"}
  PROVE  Spec => []SpanContinuesCodestream
<1>1. IInv => SpanContinuesCodestream
  <2> SUFFICES ASSUME IInv, span # NoSpan
               PROVE  /\ Len(span) = Carried(UsableUpTo) - Parsed
                      /\ \A i \in 1 .. Len(span) : span[i] = Parsed + i - 1
    BY DEF SpanContinuesCodestream
  <2>1. /\ TypeInv /\ BoxInv /\ InCodestream
        /\ Len(span) = Carried(End) - Parsed
        /\ \A i \in 1 .. Len(span) : span[i] = Parsed + i - 1
    BY DEF IInv, SpanInv, BoxInv, End
  <2>2. End = UsableUpTo
    BY <2>1, Inside
  <2> QED BY <2>1, <2>2
<1> QED BY <1>1, InputInvariant, PTL

\* What a client is told of its input is where the decoder is: nothing is taken
\* that is not there, all of it is when more is asked for, and an event leaves
\* what is parsed next (JxlDecoderReleaseInput, AdvanceInput).
THEOREM ReleaseTellsThePlace ==
  ASSUME Skips \subseteq {"inside"}
  PROVE  Spec => []ReleaseIsExact
<1>1. IInv => ReleaseIsExact
  <2> SUFFICES ASSUME IInv PROVE ReleaseIsExact
    OBVIOUS
  <2>1. /\ TypeInv /\ BoxInv /\ avail_in \in Nat /\ codestream_unconsumed \in Nat
        /\ codestream_copy \in Seq(Int) /\ Len(codestream_copy) \in Nat
    BY DEF IInv, TypeInv
  <2>2. codestream_unconsumed <= avail_in
    <3>1. CASE codestream_unconsumed = 0
      BY <2>1, <3>1
    <3>2. CASE codestream_unconsumed > 0
      <4>1. InCodestream /\ codestream_unconsumed <= Available
        BY <3>2 DEF IInv, PosInv
      <4>2. Available \in Nat /\ Available <= avail_in
        BY <2>1, <4>1, Inside
      <4> QED BY <2>1, <4>1, <4>2
    <3> QED BY <2>1, <3>1, <3>2
  <2>3. /\ codestream_unconsumed <= Len(codestream_copy)
        /\ codestream_copy # <<>> => codestream_pos <= Len(codestream_copy)
    BY DEF IInv, PosInv
  <2>4. codestream_unconsumed <= Least(avail_in, Len(codestream_copy))
    BY <2>1, <2>2, <2>3 DEF Least
  <2>5. avail_in >= 0
    BY <2>1
  <2> QED BY <2>3, <2>4, <2>5 DEF ReleaseIsExact, IInv, ReturnInv
<1> QED BY <1>1, InputInvariant, PTL
==============================================================================
