------------------------------ MODULE OutputProofs ------------------------------
(***************************************************************************)
(* Proofs about FileWriter and OutputProcessor, for every client, every    *)
(* file it encodes and every way it cuts its buffers.                      *)
(***************************************************************************)
EXTENDS FileWriter, TLAPS, FiniteSetTheorems, SequenceTheorems, WellFoundedInduction

-----------------------------------------------------------------------------
(* Data, orders and places.                                                *)

\* What names a byte: what it belongs to; what a box header or a counter says.
Labels ==
  STRING \union {"JXL ftyp", "jxll", "header", "jbrd", "index", "jxlc", "jxlp", "jxli",
                 "frame", "toc", "dc global", "group 1", "group 2"}
Names == Labels \union (Labels \X Labels) \union (Labels \X Nat) \union (Nat \X BOOLEAN)
Data == Seq(Names \X Nat)

WriteOps == {"append", "exact", "packed"}

OrderSet ==
  [op : WriteOps, data : Data] \union [op : {"hole"}, size : Nat \ {0}]
  \union [op : {"back"}, header : {"none"}] \union [op : {"back"}, header : {"box"}, type : Labels]
  \union [op : {"back"}, header : {"frame"}, number : Nat, last : BOOLEAN]
  \union [op : {"end", "finalize"}]

Holes == [start : Nat, after : Nat, end : Nat]

\* Where the encoder is in the file.
Places == [position : Nat, holes : Seq(Holes)]
Here == [position |-> position, holes |-> holes]

\* It writes the header of the innermost hole, and not behind it.
InHeader(a) == a.holes # <<>> /\ a.holes[1].end # 0

\* Holes are not empty and nest; what a header is of ends behind the header's room.
GoodPlace(a) ==
  /\ a \in Places
  /\ \A i \in 1 .. Len(a.holes) : a.holes[i].start < a.holes[i].after
  /\ \A i, j \in 1 .. Len(a.holes) :
       i < j => a.holes[j].after <= a.holes[i].start /\ a.holes[j].end = 0
  /\ a.holes # <<>> =>
       IF InHeader(a)
       THEN /\ a.holes[1].start <= a.position /\ a.position <= a.holes[1].after
            /\ a.holes[1].after <= a.holes[1].end
       ELSE a.holes[1].after <= a.position

\* How far it has come, and which bytes up to there it has left out.
Frontier(a) == IF InHeader(a) THEN a.holes[1].end ELSE a.position
GapStart(a, i) == IF i = 1 /\ InHeader(a) THEN a.position ELSE a.holes[i].start
InGap(a, i, q) == GapStart(a, i) <= q /\ q < a.holes[i].after
WrittenAt(a) == {q \in 0 .. Frontier(a) - 1 : \A i \in 1 .. Len(a.holes) : ~InGap(a, i, q)}
Written == WrittenAt(Here)

\* The file has `data` from byte `at` on.
Matches(data, at) ==
  /\ at + Len(data) <= Len(WholeFile)
  /\ \A k \in 1 .. Len(data) : WholeFile[at + k] = data[k]

HeaderData(order, size) ==
  IF HeaderOrders(order, size) = <<>> THEN <<>> ELSE HeaderOrders(order, size)[1].data

\* Carried out at place `a`, the order does what the file needs and leads to `b`.
FitsWrite(order, a, b) ==
  /\ order.op \in WriteOps
  /\ Matches(order.data, a.position)
  /\ InHeader(a) => order.op # "packed" /\ a.position + Len(order.data) <= a.holes[1].after
  /\ b = [position |-> a.position + Len(order.data), holes |-> a.holes]

FitsHole(order, a, b) ==
  /\ order.op = "hole"
  /\ ~InHeader(a)
  /\ b = [position |-> a.position + order.size,
          holes |-> <<[start |-> a.position, after |-> a.position + order.size, end |-> 0]>> \o a.holes]

FitsBack(order, a, b) ==
  LET header == HeaderData(order, a.position - a.holes[1].after)
  IN /\ order.op = "back"
     /\ a.holes # <<>> /\ ~InHeader(a)
     /\ Matches(header, a.holes[1].start)
     /\ a.holes[1].start + Len(header) <= a.holes[1].after
     /\ b = [position |-> a.holes[1].start + Len(header),
             holes |-> [a.holes EXCEPT ![1].end = a.position]]

FitsEnd(order, a, b) ==
  /\ order.op = "end"
  /\ InHeader(a) /\ a.position = a.holes[1].after
  /\ b = [position |-> a.holes[1].end, holes |-> Tail(a.holes)]

FitsFinalize(order, a, b) ==
  order.op = "finalize" /\ a.holes = <<>> /\ b = a

Fits(order, a, b) ==
  \/ FitsWrite(order, a, b) \/ FitsHole(order, a, b) \/ FitsBack(order, a, b)
  \/ FitsEnd(order, a, b) \/ FitsFinalize(order, a, b)

\* The orders lead from `a` to `b`.
Leads(orders, a, b, trace) ==
  /\ trace[0] = a /\ trace[Len(orders)] = b
  /\ \A k \in 1 .. Len(orders) : Fits(orders[k], trace[k - 1], trace[k])

Plan(orders, a, b) == \E trace \in [0 .. Len(orders) -> Places] : Leads(orders, a, b, trace)

Goal == [position |-> Len(UpTo[processed]), holes |-> <<>>]

-----------------------------------------------------------------------------
(* The invariant.                                                          *)

ChunkSet == UNION {[D -> [written : Nat, data : Data]] : D \in SUBSET Nat}
Memory == UNION {[D -> Names \X Nat] : D \in SUBSET Nat}

TypeInv ==
  /\ job \in Jobs
  /\ added \in 0 .. Len(job.inputs) /\ processed \in 0 .. added
  /\ jxlp_counter \in Nat
  /\ todo \in Seq(OrderSet)
  /\ holes \in Seq(Holes)
  /\ status \in {"SUCCESS", "MORE", "RUNNING", "ERROR"}
  /\ processor \in {"window", "stream", "seek"}
  /\ avail_out \in Nat
  /\ internal_buffers \in ChunkSet
  /\ position \in Nat /\ finalized_position \in Nat /\ output_position \in Nat
  /\ stop_requested \in BOOLEAN
  /\ buffer \in [size : Nat, owned : BOOLEAN, at : Nat]
  /\ task \in {"none", "append", "flush", "settle"}
  /\ error \in {"none", "stopped", "ensure"}
  /\ client \in [position : Nat, finalized : Nat, bytes : Memory]

\* The counter of a jxlp box is right while there is a frame to come.
JxlpInv ==
  /\ processed = 0 => jxlp_counter = 0
  /\ (/\ processed > 0 /\ job.container
      /\ \E k \in processed + 1 .. Len(job.inputs) : IsFrame(job.inputs[k]))
     => jxlp_counter = PartsBefore(processed + 1)

PlanInv ==
  /\ GoodPlace(Here)
  /\ Plan(todo, Here, Goal)
  /\ todo # <<>> => todo[Len(todo)].op = "finalize"

Lent == buffer # NoBuffer

ControlInv ==
  /\ error # "ensure"
  /\ status \in {"SUCCESS", "MORE"} => todo = <<>> /\ task = "none" /\ error = "none"
  /\ Lent => /\ task = "none" /\ error = "none" /\ ~stop_requested
             /\ todo # <<>> /\ Order.op \in WriteOps /\ Order.data # <<>>
             /\ buffer.size > 0 /\ position \in DOMAIN internal_buffers
  /\ task = "append" => Seeks /\ ~stop_requested
  /\ task = "settle" => processor = "stream"
  /\ task \in {"append", "settle"} => todo # <<>>
  /\ task = "flush" => finalized_position = position /\ holes = <<>>
  /\ todo = <<>> /\ task = "none" =>
       /\ finalized_position = position
       /\ IF External THEN stop_requested \/ output_position = finalized_position
          ELSE output_position = finalized_position \/ avail_out = 0
  /\ status = "SUCCESS" /\ ~External => output_position = finalized_position

Chunk(p) == internal_buffers[p]
Covers(p, q) == p <= q /\ q < p + Chunk(p).written
Covered(q) == \E p \in DOMAIN internal_buffers : Covers(p, q)
Right(q) == q \in DOMAIN client.bytes /\ client.bytes[q] = WholeFile[q + 1]

\* What the wrapper holds is written, is the file's, and does not overlap.
ChunkInv ==
  /\ \A q \in Written : q < Len(WholeFile)
  /\ \A q \in 0 .. finalized_position - 1 : q \in Written
  /\ finalized_position <= position
  /\ \A p \in DOMAIN internal_buffers :
       /\ Chunk(p).written = 0 => Lent /\ p = position
       /\ Chunk(p).data = <<>> \/ Len(Chunk(p).data) = Chunk(p).written
       /\ \A q \in p .. p + Chunk(p).written - 1 : q \in Written
       /\ \A k \in 1 .. Len(Chunk(p).data) : Chunk(p).data[k] = WholeFile[p + k]
  /\ \A p, q \in DOMAIN internal_buffers : p < q => p + Chunk(p).written <= q

\* A client that takes the bytes in their order.
DirectInv ==
  ~Seeks =>
    /\ output_position <= finalized_position
    /\ \A p \in DOMAIN internal_buffers :
         Chunk(p).written > 0 => p + Chunk(p).written > output_position
    /\ \A q \in Written : q >= output_position => Covered(q)
    /\ \A q \in 0 .. output_position - 1 : Right(q)
    /\ DOMAIN client.bytes \subseteq Written

InPlace(p) == Chunk(p).data = <<>> /\ Chunk(p).written > 0

WindowInv ==
  ~External =>
    /\ client.position = output_position
    /\ Lent /\ ~buffer.owned =>
         buffer.at = position /\ position + buffer.size <= output_position + avail_out
    /\ \A p \in DOMAIN internal_buffers :
         InPlace(p) => /\ p + Chunk(p).written <= output_position + avail_out
                       /\ \A q \in p .. p + Chunk(p).written - 1 : Right(q)

StreamInv ==
  processor = "stream" =>
    /\ client.finalized = output_position
    /\ Lent /\ ~buffer.owned => buffer.at = position /\ position = output_position
    /\ \A p \in DOMAIN internal_buffers :
         InPlace(p) => task = "settle" /\ p = output_position /\ p + Chunk(p).written = position
    /\ task # "settle" => client.position = output_position
    /\ task = "settle" =>
         /\ client.position = position /\ finalized_position = position
         /\ \/ output_position = position
            \/ output_position \in DOMAIN internal_buffers /\ InPlace(output_position)
         /\ \A q \in 0 .. position - 1 : Right(q)

SeekInv ==
  Seeks =>
    /\ client.finalized = finalized_position
    /\ Lent => output_position = position /\ (~buffer.owned => buffer.at = position)
    /\ \A q \in Written : Covered(q) \/ \A p \in DOMAIN internal_buffers : q < p
    /\ output_position # position =>
         /\ output_position < position
         /\ \E p \in DOMAIN internal_buffers : p <= output_position
         /\ \A p \in DOMAIN internal_buffers :
              Chunk(p).data # <<>> => p + Chunk(p).written = position
    /\ ~stop_requested =>
         /\ client.position = output_position
         /\ finalized_position <= output_position
         /\ task = "append" =>
              /\ output_position < position
              /\ \E p \in DOMAIN internal_buffers :
                   /\ p <= output_position /\ p + Chunk(p).written = position
                   /\ Chunk(p).data # <<>>
         /\ task # "append" =>
              /\ output_position = position
              /\ \A p \in DOMAIN internal_buffers : Chunk(p).data = <<>>
         /\ \A q \in Written : (q < output_position \/ q >= position) => Right(q)
         /\ \A q \in Written : Covered(q)
         /\ DOMAIN client.bytes \subseteq Written

Inv ==
  /\ TypeInv /\ JxlpInv /\ PlanInv /\ ControlInv /\ ChunkInv
  /\ DirectInv /\ WindowInv /\ StreamInv /\ SeekInv

LEMMA LeastNumber ==
  ASSUME NEW S \in SUBSET Nat, S # {}
  PROVE  \E n \in S : \A m \in S : n <= m
<1>1. PICK n \in S : \A m \in S : ~ (<<m, n>> \in OpToRel(<, Nat))
  BY NatLessThanWellFounded, WFMin, Zenon
<1>2. \A m \in S : ~ (m < n)
  BY <1>1 DEF OpToRel
<1> QED BY <1>2

LEMMA LowestIs ==
  ASSUME NEW S \in SUBSET Nat, S # {}
  PROVE  Lowest(S) \in S /\ \A m \in S : Lowest(S) <= m
<1>1. \E n \in S : \A m \in S : n <= m
  BY LeastNumber
<1> QED BY <1>1 DEF Lowest

LEMMA BytesAreData ==
  ASSUME NEW name \in Names, NEW n \in Nat
  PROVE  Bytes(name, n) \in Data /\ Len(Bytes(name, n)) = n
BY DEF Bytes, Data

LEMMA ConcatIsData ==
  ASSUME NEW s \in Data, NEW t \in Data
  PROVE  /\ s \o t \in Data /\ Len(s \o t) = Len(s) + Len(t)
         /\ \A k \in 1 .. Len(s) : (s \o t)[k] = s[k]
         /\ \A k \in 1 .. Len(t) : (s \o t)[Len(s) + k] = t[k]
BY DEF Data

LEMMA LenData ==
  ASSUME NEW s \in Data
  PROVE  Len(s) \in Nat /\ DOMAIN s = 1 .. Len(s) /\ (s = <<>> <=> Len(s) = 0)
BY DEF Data

LEMMA EmptyData == <<>> \in Data /\ Len(<<>>) = 0
BY DEF Data

-----------------------------------------------------------------------------
(* Jobs.                                                                   *)

LEMMA JobFacts ==
  ASSUME job \in Jobs
  PROVE  /\ job.container \in BOOLEAN /\ job.level10 \in BOOLEAN
         /\ job.store_jpeg_metadata \in BOOLEAN /\ job.jbrd \in Nat /\ job.index \in Nat
         /\ job.inputs \in Seq(FrameInputs \union BoxInputs) /\ Len(job.inputs) \in Nat
         /\ \A n \in 1 .. Len(job.inputs) :
              /\ job.inputs[n].name \in Labels /\ job.inputs[n].size \in Nat
              /\ IsFrame(job.inputs[n]) => job.inputs[n] \in FrameInputs
<1>1. job \in [container : BOOLEAN, level10 : BOOLEAN, store_jpeg_metadata : BOOLEAN,
               jbrd : Nat, index : Nat, inputs : Seq(FrameInputs \union BoxInputs)]
  BY JobsAssumption
<1>2. \A n \in 1 .. Len(job.inputs) : job.inputs[n] \in FrameInputs \union BoxInputs
  BY <1>1
<1>3. \A x \in FrameInputs \union BoxInputs :
        /\ x.name \in Labels /\ x.size \in Nat
        /\ IsFrame(x) => x \in FrameInputs
  BY DEF Labels, FrameInputs, BoxInputs, IsFrame
<1> QED BY <1>1, <1>2, <1>3

LEMMA BoxHeaderData ==
  ASSUME NEW type \in Labels, NEW n \in Nat
  PROVE  BoxHeader(type, n) \in Data /\ Len(BoxHeader(type, n)) = HeaderSize
<1>1. <<type, n>> \in Names
  BY DEF Names
<1> QED BY <1>1, BytesAreData, WriterAssumption DEF BoxHeader

LEMMA CounterData ==
  ASSUME NEW n \in Nat, NEW last \in BOOLEAN
  PROVE  Counter(n, last) \in Data /\ Len(Counter(n, last)) = 1
<1>1. <<n, last>> \in Names
  BY DEF Names
<1> QED BY <1>1, BytesAreData DEF Counter

LEMMA BoxedData ==
  ASSUME NEW type \in Labels, NEW s \in Data
  PROVE  Boxed(type, s) \in Data /\ Len(Boxed(type, s)) = HeaderSize + Len(s)
<1>1. Len(s) \in Nat
  BY LenData
<1>2. BoxHeader(type, Len(s)) \in Data /\ Len(BoxHeader(type, Len(s))) = HeaderSize
  BY <1>1, BoxHeaderData
<1> QED BY <1>2, ConcatIsData DEF Boxed

LEMMA PartData ==
  ASSUME NEW x \in FrameInputs, NEW part \in Labels
  PROVE  Part(x, part) \in Data /\ Len(Part(x, part)) = x.size
<1>1. <<x.name, part>> \in Names /\ x.size \in Nat
  BY DEF Names, Labels, FrameInputs
<1> QED BY <1>1, BytesAreData DEF Part

LEMMA FixedData ==
  /\ Signature \in Data /\ LevelBox \in Data /\ CodestreamHeader \in Data
  /\ \A n \in Nat : Bytes("jbrd", n) \in Data /\ Bytes("index", n) \in Data
<1>1. /\ "JXL ftyp" \in Names /\ "jxll" \in Names /\ "header" \in Names
      /\ "jbrd" \in Names /\ "index" \in Names
  BY DEF Names, Labels
<1>2. Signature \in Data /\ LevelBox \in Data /\ CodestreamHeader \in Data
  BY <1>1, BytesAreData DEF Signature, LevelBox, CodestreamHeader
<1> QED BY <1>1, <1>2, BytesAreData

LEMMA BodyData ==
  ASSUME NEW x \in FrameInputs
  PROVE  WholeBody(x) \in Data
<1>1. \A part \in Labels : Part(x, part) \in Data
  BY PartData
<1>2. /\ Part(x, "frame") \in Data /\ Part(x, "toc") \in Data /\ Part(x, "dc global") \in Data
      /\ Part(x, "group 1") \in Data /\ Part(x, "group 2") \in Data
  BY <1>1 DEF Labels
<1>3. Part(x, "toc") \o Part(x, "dc global") \in Data
  BY <1>2, ConcatIsData
<1>4. (Part(x, "toc") \o Part(x, "dc global")) \o Part(x, "group 1") \in Data
  BY <1>2, <1>3, ConcatIsData
<1>5. ((Part(x, "toc") \o Part(x, "dc global")) \o Part(x, "group 1")) \o Part(x, "group 2") \in Data
  BY <1>2, <1>4, ConcatIsData
<1> QED BY <1>2, <1>5 DEF WholeBody

LEMMA HeaderOfData ==
  ASSUME NEW n PROVE HeaderOf(n) \in Data
BY FixedData, EmptyData DEF HeaderOf

LEMMA PartsBeforeNat ==
  ASSUME job \in Jobs, NEW n \in Nat
  PROVE  PartsBefore(n) \in Nat
<1> DEFINE S == {k \in 1 .. n - 1 : IsFrame(job.inputs[k])}
<1>1. IsFiniteSet(S)
  <2>1. IsFiniteSet(1 .. n - 1)
    BY FS_Interval
  <2> QED BY <2>1, FS_Subset
<1>2. Cardinality(S) \in Nat
  BY <1>1, FS_CardinalityType
<1> QED BY <1>2 DEF PartsBefore

LEMMA WholeInputData ==
  ASSUME job \in Jobs, NEW n \in 1 .. Len(job.inputs)
  PROVE  WholeInput(n) \in Data
<1> DEFINE x == job.inputs[n]
           last == IsFrame(x) /\ LastFrame(n)
           stream == HeaderOf(n) \o WholeBody(x)
           index == IF last /\ job.index > 0 THEN Boxed("jxli", Bytes("index", job.index)) ELSE <<>>
<1>1. x.name \in Labels /\ x.size \in Nat /\ (IsFrame(x) => x \in FrameInputs) /\ job.index \in Nat
  BY JobFacts
<1>2. index \in Data
  <2>1. Bytes("index", job.index) \in Data
    BY <1>1, FixedData
  <2>2. Boxed("jxli", Bytes("index", job.index)) \in Data
    BY <2>1, BoxedData DEF Labels
  <2> QED BY <2>2, EmptyData
<1>3. CASE ~IsFrame(x)
  <2>1. x.name \in Names
    BY <1>1 DEF Names
  <2>2. Boxed(x.name, Bytes(x.name, x.size)) \in Data
    BY <1>1, <2>1, BytesAreData, BoxedData
  <2> QED BY <1>3, <2>2 DEF WholeInput
<1>4. CASE IsFrame(x)
  <2>1. stream \in Data
    BY <1>1, <1>4, HeaderOfData, BodyData, ConcatIsData
  <2>2. PartsBefore(n) \in Nat /\ last \in BOOLEAN
    BY PartsBeforeNat
  <2>3. Counter(PartsBefore(n), last) \o stream \in Data
    BY <2>1, <2>2, CounterData, ConcatIsData
  <2>4. /\ stream \o index \in Data
        /\ Boxed("jxlc", stream) \o index \in Data
        /\ Boxed("jxlp", Counter(PartsBefore(n), last) \o stream) \o index \in Data
    <3>1. Boxed("jxlc", stream) \in Data
      BY <2>1, BoxedData DEF Labels
    <3>2. Boxed("jxlp", Counter(PartsBefore(n), last) \o stream) \in Data
      BY <2>3, BoxedData DEF Labels
    <3> HIDE DEF index, stream
    <3> QED BY <1>2, <2>1, <3>1, <3>2, ConcatIsData
  <2> QED BY <1>4, <2>4 DEF WholeInput
<1> QED BY <1>3, <1>4

LEMMA WholeHeaderData ==
  ASSUME job \in Jobs
  PROVE  WholeHeader \in Data
<1>1. Counter(0, FALSE) \o CodestreamHeader \in Data
  BY CounterData, FixedData, ConcatIsData
<1>2. job.jbrd \in Nat
  BY JobFacts
<1>3. /\ Boxed("jxlp", Counter(0, FALSE) \o CodestreamHeader) \in Data
      /\ Boxed("jbrd", Bytes("jbrd", job.jbrd)) \in Data
  <2>1. Bytes("jbrd", job.jbrd) \in Data
    BY <1>2, FixedData
  <2> QED BY <1>1, <2>1, BoxedData DEF Labels
<1>4. Signature \in Data /\ LevelBox \in Data /\ <<>> \in Data
  BY FixedData, EmptyData
<1> HIDE DEF Data
<1> QED BY <1>3, <1>4, ConcatIsData DEF WholeHeader

-----------------------------------------------------------------------------
(* The file.                                                               *)

\* `s` and what the n-th input adds.
Extends(n, s) == s \o (IF n = 1 THEN WholeHeader ELSE <<>>) \o WholeInput(n)

\* The recursive definition of UpTo has a solution.
UpToSolves(m, f) ==
  f = [n \in 0 .. m |-> IF n = 0 THEN <<>>
                        ELSE f[n - 1] \o (IF n = 1 THEN WholeHeader ELSE <<>>) \o WholeInput(n)]

LEMMA SolutionSteps ==
  ASSUME NEW N \in Nat, NEW f, UpToSolves(N, f), NEW n \in 0 .. N
  PROVE  f[n] = IF n = 0 THEN <<>> ELSE Extends(n, f[n - 1])
BY DEF UpToSolves, Extends

LEMMA UpToExists ==
  ASSUME NEW N \in Nat
  PROVE  \E f : UpToSolves(N, f)
<1> DEFINE S == {m \in Nat : ~ \E f : UpToSolves(m, f)}
<1> SUFFICES ASSUME S # {} PROVE FALSE
  OBVIOUS
<1>1. PICK m \in S : \A k \in S : m <= k
  BY LeastNumber
<1>2. CASE m = 0
  <2> DEFINE g == [n \in 0 .. 0 |-> <<>>]
  <2>1. UpToSolves(0, g)
    BY DEF UpToSolves
  <2> QED BY <1>1, <1>2, <2>1
<1>3. CASE m # 0
  <2>1. m - 1 \in Nat /\ ~ (m <= m - 1) /\ m \in Nat
    BY <1>1, <1>3
  <2>2. PICK f : UpToSolves(m - 1, f)
    BY <1>1, <2>1
  <2> DEFINE g == [n \in 0 .. m |-> IF n < m THEN f[n] ELSE Extends(m, f[m - 1])]
             rhs(n) == IF n = 0 THEN <<>>
                        ELSE g[n - 1] \o (IF n = 1 THEN WholeHeader ELSE <<>>) \o WholeInput(n)
  <2>3. \A n \in 0 .. m : g[n] = rhs(n)
    <3> SUFFICES ASSUME NEW n \in 0 .. m PROVE g[n] = rhs(n)
      OBVIOUS
    <3>1. CASE n < m
      <4>1. f[n] = IF n = 0 THEN <<>> ELSE Extends(n, f[n - 1])
        BY <2>1, <2>2, <3>1, SolutionSteps
      <4>2. n # 0 => g[n - 1] = f[n - 1]
        BY <2>1, <3>1
      <4>3. g[n] = f[n]
        BY <2>1, <3>1
      <4> QED BY <4>1, <4>2, <4>3 DEF Extends
    <3>2. CASE n = m
      <4>1. g[n] = Extends(m, f[m - 1]) /\ g[n - 1] = f[m - 1]
        BY <2>1, <3>2
      <4> QED BY <1>3, <3>2, <4>1 DEF Extends
    <3> QED BY <2>1, <3>1, <3>2
  <2>4. UpToSolves(m, g)
    <3>1. g = [n \in 0 .. m |-> rhs(n)]
      BY <2>3
    <3> QED BY <3>1 DEF UpToSolves
  <2> QED BY <1>1, <2>1, <2>4
<1> QED BY <1>2, <1>3

LEMMA UpToIs ==
  ASSUME job \in Jobs
  PROVE  /\ UpTo[0] = <<>>
         /\ \A n \in 1 .. Len(job.inputs) : UpTo[n] = Extends(n, UpTo[n - 1])
<1> DEFINE N == Len(job.inputs)
<1>1. N \in Nat
  BY JobFacts
<1>2. \E f : UpToSolves(N, f)
  BY <1>1, UpToExists
<1>3. UpToSolves(N, UpTo)
  BY <1>2, Zenon DEF UpTo, UpToSolves
<1>4. \A n \in 0 .. N : UpTo[n] = IF n = 0 THEN <<>> ELSE Extends(n, UpTo[n - 1])
  BY <1>1, <1>3, SolutionSteps
<1> QED BY <1>1, <1>4

LEMMA UpToData ==
  ASSUME job \in Jobs, NEW n \in 0 .. Len(job.inputs)
  PROVE  UpTo[n] \in Data
<1> DEFINE S == {m \in Nat : m <= Len(job.inputs) /\ ~ (UpTo[m] \in Data)}
<1>1. Len(job.inputs) \in Nat
  BY JobFacts
<1> SUFFICES ASSUME S # {} PROVE FALSE
  BY <1>1
<1>2. PICK m \in S : \A k \in S : m <= k
  BY LeastNumber
<1>3. m # 0
  BY <1>2, UpToIs, EmptyData
<1>4. m - 1 \in Nat /\ m - 1 <= Len(job.inputs) /\ ~ (m <= m - 1) /\ m \in 1 .. Len(job.inputs)
  BY <1>1, <1>2, <1>3
<1>5. UpTo[m - 1] \in Data
  BY <1>2, <1>4
<1>6. WholeHeader \in Data /\ WholeInput(m) \in Data
  BY <1>4, WholeHeaderData, WholeInputData
<1>7. UpTo[m - 1] \o (IF m = 1 THEN WholeHeader ELSE <<>>) \in Data
  BY <1>5, <1>6, EmptyData, ConcatIsData
<1>8. Extends(m, UpTo[m - 1]) \in Data
  BY <1>6, <1>7, ConcatIsData DEF Extends
<1>9. UpTo[m] = Extends(m, UpTo[m - 1])
  BY <1>4, UpToIs
<1> QED BY <1>2, <1>8, <1>9

\* `u` begins `s`.
Begins(u, s) == Len(u) <= Len(s) /\ \A k \in 1 .. Len(u) : s[k] = u[k]

LEMMA BeginsConcat ==
  ASSUME NEW u \in Data, NEW s \in Data, NEW t \in Data, Begins(u, s)
  PROVE  Begins(u, s \o t)
<1>1. Len(u) \in Nat /\ Len(s) \in Nat /\ Len(t) \in Nat
  BY LenData
<1>2. Len(s \o t) = Len(s) + Len(t) /\ \A k \in 1 .. Len(s) : (s \o t)[k] = s[k]
  BY ConcatIsData
<1> QED BY <1>1, <1>2 DEF Begins

LEMMA UpToBegins ==
  ASSUME job \in Jobs, NEW n \in 0 .. Len(job.inputs)
  PROVE  Begins(UpTo[n], WholeFile)
<1> DEFINE S == {m \in Nat : n <= m /\ m <= Len(job.inputs) /\ ~ Begins(UpTo[n], UpTo[m])}
<1>1. Len(job.inputs) \in Nat
  BY JobFacts
<1> SUFFICES ASSUME S # {} PROVE FALSE
  BY <1>1 DEF WholeFile
<1>2. PICK m \in S : \A k \in S : m <= k
  BY LeastNumber
<1>0. UpTo[n] \in Data /\ Begins(UpTo[n], UpTo[n])
  <2>1. UpTo[n] \in Data
    BY UpToData
  <2>2. Len(UpTo[n]) \in Nat
    BY <2>1, LenData
  <2> QED BY <2>1, <2>2 DEF Begins
<1>3. m # n
  BY <1>0, <1>2
<1>4. m - 1 \in Nat /\ n <= m - 1 /\ m - 1 <= Len(job.inputs) /\ ~ (m <= m - 1) /\ m \in 1 .. Len(job.inputs)
  BY <1>1, <1>2, <1>3
<1>5. UpTo[m - 1] \in Data /\ Begins(UpTo[n], UpTo[m - 1])
  BY <1>2, <1>4, UpToData
<1>6. WholeHeader \in Data /\ WholeInput(m) \in Data
  BY <1>4, WholeHeaderData, WholeInputData
<1> DEFINE h == IF m = 1 THEN WholeHeader ELSE <<>>
<1>7. h \in Data
  BY <1>6, EmptyData
<1> HIDE DEF h
<1>8. UpTo[m - 1] \o h \in Data /\ Begins(UpTo[n], UpTo[m - 1] \o h)
  BY <1>0, <1>5, <1>7, ConcatIsData, BeginsConcat
<1>9. Begins(UpTo[n], (UpTo[m - 1] \o h) \o WholeInput(m))
  BY <1>0, <1>6, <1>8, BeginsConcat
<1>10. UpTo[m] = (UpTo[m - 1] \o h) \o WholeInput(m)
  BY <1>4, UpToIs DEF h, Extends
<1> QED BY <1>2, <1>9, <1>10

LEMMA WholeFileData ==
  ASSUME job \in Jobs
  PROVE  WholeFile \in Data /\ Len(WholeFile) \in Nat
<1>1. Len(job.inputs) \in Nat
  BY JobFacts
<1>2. WholeFile \in Data
  BY <1>1, UpToData DEF WholeFile
<1> QED BY <1>2, LenData

LEMMA MatchesConcat ==
  ASSUME NEW s \in Data, NEW t \in Data, NEW at \in Nat, job \in Jobs
  PROVE  Matches(s \o t, at) <=> Matches(s, at) /\ Matches(t, at + Len(s))
<1>1. Len(s) \in Nat /\ Len(t) \in Nat /\ Len(WholeFile) \in Nat
  BY LenData, WholeFileData
<1>2. /\ Len(s \o t) = Len(s) + Len(t)
      /\ \A k \in 1 .. Len(s) : (s \o t)[k] = s[k]
      /\ \A k \in 1 .. Len(t) : (s \o t)[Len(s) + k] = t[k]
  BY ConcatIsData
<1>3. ASSUME Matches(s \o t, at)
      PROVE  Matches(s, at) /\ Matches(t, at + Len(s))
  <2>1. Matches(s, at)
    BY <1>1, <1>2, <1>3 DEF Matches
  <2>2. \A k \in 1 .. Len(t) : WholeFile[(at + Len(s)) + k] = t[k]
    <3> TAKE k \in 1 .. Len(t)
    <3>1. Len(s) + k \in 1 .. Len(s \o t) /\ (at + Len(s)) + k = at + (Len(s) + k)
      BY <1>1, <1>2
    <3> QED BY <1>2, <1>3, <3>1 DEF Matches
  <2> QED BY <1>1, <1>2, <1>3, <2>1, <2>2 DEF Matches
<1>4. ASSUME Matches(s, at), Matches(t, at + Len(s))
      PROVE  Matches(s \o t, at)
  <2>1. at + Len(s \o t) <= Len(WholeFile)
    BY <1>1, <1>2, <1>4 DEF Matches
  <2>2. ASSUME NEW k \in 1 .. Len(s \o t) PROVE WholeFile[at + k] = (s \o t)[k]
    <3>1. CASE k <= Len(s)
      BY <1>1, <1>2, <1>4, <3>1 DEF Matches
    <3>2. CASE k > Len(s)
      <4>1. k - Len(s) \in 1 .. Len(t) /\ Len(s) + (k - Len(s)) = k
            /\ (at + Len(s)) + (k - Len(s)) = at + k
        BY <1>1, <1>2, <3>2
      <4>2. (s \o t)[Len(s) + (k - Len(s))] = t[k - Len(s)]
        BY <1>2, <4>1
      <4> QED BY <1>4, <4>1, <4>2 DEF Matches
    <3> QED BY <1>1, <1>2, <3>1, <3>2
  <2> QED BY <2>1, <2>2 DEF Matches
<1> QED BY <1>3, <1>4

\* Where an input and what precedes the first stand in the file.
LEMMA InputPlace ==
  ASSUME job \in Jobs, NEW n \in 1 .. Len(job.inputs)
  PROVE  LET at == Len(UpTo[n - 1])
             header == IF n = 1 THEN WholeHeader ELSE <<>>
         IN /\ at \in Nat /\ header \in Data /\ Len(header) \in Nat
            /\ Matches(header, at) /\ Matches(WholeInput(n), at + Len(header))
            /\ Len(UpTo[n]) = (at + Len(header)) + Len(WholeInput(n))
<1> DEFINE at == Len(UpTo[n - 1])
           header == IF n = 1 THEN WholeHeader ELSE <<>>
<1>1. UpTo[n - 1] \in Data /\ UpTo[n] \in Data /\ Begins(UpTo[n], WholeFile)
  <2>1. n - 1 \in 0 .. Len(job.inputs) /\ n \in 0 .. Len(job.inputs)
    BY JobFacts
  <2> QED BY <2>1, UpToData, UpToBegins
<1>2. header \in Data /\ WholeInput(n) \in Data
  BY WholeHeaderData, WholeInputData, EmptyData
<1>3. UpTo[n] = (UpTo[n - 1] \o header) \o WholeInput(n)
  BY UpToIs DEF Extends
<1> HIDE DEF header
<1>4. UpTo[n - 1] \o header \in Data /\ Len(UpTo[n - 1] \o header) = at + Len(header)
  BY <1>1, <1>2, ConcatIsData
<1>5. Len(UpTo[n]) = (at + Len(header)) + Len(WholeInput(n))
  BY <1>2, <1>3, <1>4, ConcatIsData
<1>6. at \in Nat /\ Len(header) \in Nat /\ Len(UpTo[n]) \in Nat
  BY <1>1, <1>2, LenData
<1>7. Matches(UpTo[n], 0)
  BY <1>1, <1>6 DEF Begins, Matches
<1>8. Matches(UpTo[n - 1] \o header, 0) /\ Matches(WholeInput(n), 0 + (at + Len(header)))
  BY <1>2, <1>3, <1>4, <1>7, MatchesConcat
<1>9. Matches(header, 0 + at)
  BY <1>1, <1>2, <1>8, MatchesConcat
<1>10. 0 + at = at /\ 0 + (at + Len(header)) = at + Len(header)
  BY <1>6
<1> QED BY <1>2, <1>5, <1>6, <1>8, <1>9, <1>10 DEF header

-----------------------------------------------------------------------------
(* Plans.                                                                  *)

LEMMA PlanNothing ==
  ASSUME NEW a \in Places
  PROVE  Plan(<<>>, a, a)
<1> DEFINE trace == [k \in 0 .. 0 |-> a]
<1>1. Len(<<>>) = 0
  OBVIOUS
<1>2. trace \in [0 .. 0 -> Places] /\ Leads(<<>>, a, a, trace)
  BY <1>1 DEF Leads
<1> QED BY <1>1, <1>2 DEF Plan

LEMMA PlanDone ==
  ASSUME NEW a, NEW b, Plan(<<>>, a, b)
  PROVE  a = b
<1>1. Len(<<>>) = 0
  OBVIOUS
<1> QED BY <1>1 DEF Plan, Leads

LEMMA PlanOne ==
  ASSUME NEW order, NEW a \in Places, NEW b \in Places, Fits(order, a, b)
  PROVE  Plan(<<order>>, a, b)
<1> DEFINE trace == [k \in 0 .. 1 |-> IF k = 0 THEN a ELSE b]
<1>1. Len(<<order>>) = 1 /\ <<order>>[1] = order
  OBVIOUS
<1>2. trace \in [0 .. 1 -> Places] /\ trace[0] = a /\ trace[1] = b
  OBVIOUS
<1> HIDE DEF trace
<1>3. \A k \in 1 .. 1 : k = 1 /\ k - 1 = 0
  OBVIOUS
<1>4. Leads(<<order>>, a, b, trace)
  BY <1>1, <1>2, <1>3 DEF Leads
<1> QED BY <1>1, <1>2, <1>4 DEF Plan

LEMMA PlanJoin ==
  ASSUME NEW S, NEW first \in Seq(S), NEW second \in Seq(S), NEW a, NEW b, NEW c,
         Plan(first, a, b), Plan(second, b, c)
  PROVE  Plan(first \o second, a, c)
<1> DEFINE m == Len(first)
           n == Len(second)
<1>1. m \in Nat /\ n \in Nat /\ Len(first \o second) = m + n
  OBVIOUS
<1>2. /\ \A k \in 1 .. m : (first \o second)[k] = first[k]
      /\ \A k \in m + 1 .. m + n : (first \o second)[k] = second[k - m]
  OBVIOUS
<1>3. PICK f \in [0 .. m -> Places] : Leads(first, a, b, f)
  BY DEF Plan
<1>4. PICK g \in [0 .. n -> Places] : Leads(second, b, c, g)
  BY DEF Plan
<1> HIDE DEF m, n
<1>5. /\ f[0] = a /\ f[m] = b /\ \A k \in 1 .. m : Fits(first[k], f[k - 1], f[k])
      /\ g[0] = b /\ g[n] = c /\ \A k \in 1 .. n : Fits(second[k], g[k - 1], g[k])
  BY <1>3, <1>4 DEF Leads, m, n
<1> DEFINE trace == [k \in 0 .. m + n |-> IF k <= m THEN f[k] ELSE g[k - m]]
<1>6. trace \in [0 .. m + n -> Places]
  <2> SUFFICES ASSUME NEW k \in 0 .. m + n
               PROVE  (IF k <= m THEN f[k] ELSE g[k - m]) \in Places
    OBVIOUS
  <2>1. CASE k <= m
    BY <1>1, <1>3, <2>1
  <2>2. CASE ~ (k <= m)
    <3>1. k - m \in 0 .. n
      BY <1>1, <2>2
    <3> QED BY <1>4, <2>2, <3>1
  <2> QED BY <2>1, <2>2
<1>7. /\ \A k \in 0 .. m : trace[k] = f[k]
      /\ \A k \in m .. m + n : trace[k] = g[k - m]
  <2>1. \A k \in 0 .. m : k \in 0 .. m + n /\ k <= m
    BY <1>1
  <2>2. \A k \in m .. m + n : k \in 0 .. m + n /\ (k = m \/ ~ (k <= m)) /\ m - m = 0
    BY <1>1
  <2>3. m \in 0 .. m + n /\ m <= m
    BY <1>1
  <2>4. ASSUME NEW k \in m .. m + n PROVE trace[k] = g[k - m]
    <3>1. CASE k = m
      BY <1>5, <2>2, <2>3, <3>1
    <3>2. CASE k # m
      BY <2>2, <3>2
    <3> QED BY <3>1, <3>2
  <2> QED BY <2>1, <2>4
<1> HIDE DEF trace
<1>8. trace[0] = a /\ trace[m + n] = c
  <2>1. 0 \in 0 .. m /\ m + n \in m .. m + n /\ (m + n) - m = n
    BY <1>1
  <2> QED BY <1>5, <1>7, <2>1
<1>9. ASSUME NEW k \in 1 .. m + n
      PROVE  Fits((first \o second)[k], trace[k - 1], trace[k])
  <2>1. CASE k <= m
    <3>1. k \in 1 .. m /\ k \in 0 .. m /\ k - 1 \in 0 .. m
      BY <1>1, <2>1
    <3> QED BY <1>2, <1>5, <1>7, <3>1
  <2>2. CASE ~ (k <= m)
    <3>1. /\ k \in m + 1 .. m + n /\ k - m \in 1 .. n
          /\ k \in m .. m + n /\ k - 1 \in m .. m + n /\ (k - 1) - m = (k - m) - 1
      BY <1>1, <2>2
    <3>2. Fits(second[k - m], g[(k - m) - 1], g[k - m])
      BY <1>5, <3>1
    <3>3. trace[k] = g[k - m] /\ trace[k - 1] = g[(k - m) - 1]
      BY <1>7, <3>1
    <3> QED BY <1>2, <3>1, <3>2, <3>3
  <2> QED BY <2>1, <2>2
<1>10. Leads(first \o second, a, c, trace)
  BY <1>1, <1>8, <1>9 DEF Leads
<1> QED BY <1>1, <1>6, <1>10 DEF Plan

LEMMA PlanFirst ==
  ASSUME NEW S, NEW orders \in Seq(S), orders # <<>>, NEW a, NEW c, Plan(orders, a, c)
  PROVE  \E b \in Places : Fits(Head(orders), a, b) /\ Plan(Tail(orders), b, c)
<1> DEFINE m == Len(orders)
<1>1. /\ m \in Nat \ {0} /\ Len(Tail(orders)) = m - 1 /\ Head(orders) = orders[1]
      /\ \A k \in 1 .. m - 1 : Tail(orders)[k] = orders[k + 1]
  OBVIOUS
<1>2. PICK f \in [0 .. m -> Places] : Leads(orders, a, c, f)
  BY DEF Plan
<1> HIDE DEF m
<1>3. f[0] = a /\ f[m] = c /\ \A k \in 1 .. m : Fits(orders[k], f[k - 1], f[k])
  BY <1>2 DEF Leads, m
<1>4. 1 \in 0 .. m /\ 1 \in 1 .. m /\ 1 - 1 = 0 /\ f[1] \in Places
  BY <1>1, <1>2
<1>5. Fits(Head(orders), a, f[1])
  BY <1>1, <1>3, <1>4
<1> DEFINE trace == [k \in 0 .. m - 1 |-> f[k + 1]]
<1>6. trace \in [0 .. m - 1 -> Places]
  <2>1. \A k \in 0 .. m - 1 : k + 1 \in 0 .. m
    BY <1>1
  <2> QED BY <1>2, <2>1
<1>7. \A k \in 0 .. m - 1 : trace[k] = f[k + 1]
  OBVIOUS
<1> HIDE DEF trace
<1>8. trace[0] = f[1] /\ trace[m - 1] = c
  <2>1. 0 \in 0 .. m - 1 /\ m - 1 \in 0 .. m - 1 /\ 0 + 1 = 1 /\ (m - 1) + 1 = m
    BY <1>1
  <2> QED BY <1>3, <1>7, <2>1
<1>9. ASSUME NEW k \in 1 .. m - 1
      PROVE  Fits(Tail(orders)[k], trace[k - 1], trace[k])
  <2>1. k + 1 \in 1 .. m /\ (k + 1) - 1 = k /\ k - 1 \in 0 .. m - 1 /\ (k - 1) + 1 = k /\ k \in 0 .. m - 1
    BY <1>1
  <2>2. Fits(orders[k + 1], f[k], f[k + 1])
    BY <1>3, <2>1
  <2>3. trace[k] = f[k + 1] /\ trace[k - 1] = f[k]
    BY <1>7, <2>1
  <2> QED BY <1>1, <2>2, <2>3
<1>10. Leads(Tail(orders), f[1], c, trace)
  BY <1>1, <1>8, <1>9 DEF Leads
<1>11. Plan(Tail(orders), f[1], c)
  BY <1>1, <1>6, <1>10 DEF Plan
<1> QED BY <1>4, <1>5, <1>11

-----------------------------------------------------------------------------
(* What is written for an input leads to the end of it in the file.        *)

At(p, h) == [position |-> p, holes |-> h]
Open(start, after) == [start |-> start, after |-> after, end |-> 0]
Room(start, after, end) == [start |-> start, after |-> after, end |-> end]

Closed(h, p) == [h EXCEPT ![1].end = p]

Route(orders, a, b) ==
  orders \in Seq(OrderSet) /\ a \in Places /\ b \in Places /\ Plan(orders, a, b)

LEMMA RouteNothing ==
  ASSUME NEW a \in Places
  PROVE  Route(<<>>, a, a)
BY PlanNothing DEF Route

LEMMA RouteJoin ==
  ASSUME NEW first, NEW second, NEW a, NEW b, NEW c,
         Route(first, a, b), Route(second, b, c)
  PROVE  Route(first \o second, a, c)
<1>1. first \in Seq(OrderSet) /\ second \in Seq(OrderSet)
  BY DEF Route
<1>2. first \o second \in Seq(OrderSet)
  BY <1>1
<1>3. Plan(first \o second, a, c)
  BY <1>1, PlanJoin DEF Route
<1> QED BY <1>2, <1>3 DEF Route

LEMMA RouteOne ==
  ASSUME NEW order \in OrderSet, NEW a \in Places, NEW b \in Places, Fits(order, a, b)
  PROVE  Route(<<order>>, a, b)
<1>1. <<order>> \in Seq(OrderSet)
  OBVIOUS
<1> QED BY <1>1, PlanOne DEF Route

LEMMA AtPlace ==
  ASSUME NEW p \in Nat, NEW h \in Seq(Holes)
  PROVE  At(p, h) \in Places /\ At(p, h).position = p /\ At(p, h).holes = h
BY DEF At, Places

LEMMA InnerRoom ==
  ASSUME NEW r \in Holes, NEW h \in Seq(Holes)
  PROVE  /\ <<r>> \o h \in Seq(Holes) /\ <<r>> \o h # <<>>
         /\ (<<r>> \o h)[1] = r /\ Tail(<<r>> \o h) = h
         /\ Len(<<r>> \o h) = Len(h) + 1
         /\ \A k \in 2 .. Len(h) + 1 : (<<r>> \o h)[k] = h[k - 1]
<1>1. Tail(<<r>> \o h) = h
  <2>1. Tail(<<r>> \o h) \in Seq(Holes) /\ Len(Tail(<<r>> \o h)) = Len(h)
    OBVIOUS
  <2>2. \A k \in 1 .. Len(h) : Tail(<<r>> \o h)[k] = h[k]
    OBVIOUS
  <2> QED BY <2>1, <2>2, SeqEqual
<1> QED BY <1>1

LEMMA RoomsAre ==
  ASSUME NEW s \in Nat, NEW f \in Nat
  PROVE  /\ Open(s, f) \in Holes
         /\ Open(s, f).start = s /\ Open(s, f).after = f /\ Open(s, f).end = 0
         /\ \A e \in Nat : /\ Room(s, f, e) \in Holes
                          /\ Room(s, f, e).start = s /\ Room(s, f, e).after = f
                          /\ Room(s, f, e).end = e
                          /\ [Open(s, f) EXCEPT !.end = e] = Room(s, f, e)
BY DEF Open, Room, Holes

LEMMA RoomCloses ==
  ASSUME NEW r \in Holes, NEW p \in Nat, NEW h \in Seq(Holes)
  PROVE  Closed(<<r>> \o h, p) = <<[r EXCEPT !.end = p]>> \o h
<1> DEFINE n == [r EXCEPT !.end = p]
           old == <<r>> \o h
           new == <<n>> \o h
<1>1. n \in Holes
  BY DEF Holes
<1> HIDE DEF n
<1>2. /\ old \in Seq(Holes) /\ Len(old) = Len(h) + 1 /\ old[1] = r
      /\ \A k \in 2 .. Len(h) + 1 : old[k] = h[k - 1]
  BY InnerRoom
<1>3. /\ new \in Seq(Holes) /\ Len(new) = Len(h) + 1 /\ new[1] = n
      /\ \A k \in 2 .. Len(h) + 1 : new[k] = h[k - 1]
  BY <1>1, InnerRoom
<1> HIDE DEF old, new
<1> DEFINE changed == [old EXCEPT ![1] = n]
<1>4. [old EXCEPT ![1].end = p] = changed
  BY <1>2 DEF n
<1>5. changed \in Seq(Holes) /\ Len(changed) = Len(h) + 1
  BY <1>1, <1>2, ExceptSeq
<1>6. \A k \in 1 .. Len(h) + 1 : changed[k] = new[k]
  BY <1>2, <1>3
<1> HIDE DEF changed
<1>7. changed = new
  BY <1>3, <1>5, <1>6, SeqEqual
<1> QED BY <1>4, <1>7 DEF old, new, n, Closed

LEMMA RouteWrite ==
  ASSUME NEW op \in WriteOps, NEW data \in Data, NEW p \in Nat, NEW h \in Seq(Holes),
         Matches(data, p),
         InHeader(At(p, h)) => op # "packed" /\ p + Len(data) <= h[1].after
  PROVE  Route(<<[op |-> op, data |-> data]>>, At(p, h), At(p + Len(data), h))
<1> DEFINE order == [op |-> op, data |-> data]
<1>1. Len(data) \in Nat
  BY LenData
<1>2. order \in OrderSet /\ order.op = op /\ order.data = data
  BY DEF OrderSet
<1> HIDE DEF order
<1>3. /\ At(p, h) \in Places /\ At(p, h).position = p /\ At(p, h).holes = h
      /\ At(p + Len(data), h) \in Places
  BY <1>1, AtPlace
<1>4. FitsWrite(order, At(p, h), At(p + Len(data), h))
  BY <1>2, <1>3 DEF FitsWrite, At
<1>5. Route(<<order>>, At(p, h), At(p + Len(data), h))
  BY <1>2, <1>3, <1>4, RouteOne DEF Fits
<1> QED BY <1>5 DEF order

LEMMA RouteHole ==
  ASSUME NEW size \in Nat \ {0}, NEW p \in Nat, NEW h \in Seq(Holes), ~ InHeader(At(p, h))
  PROVE  Route(<<Hole(size)>>, At(p, h), At(p + size, <<Open(p, p + size)>> \o h))
<1>1. Hole(size) \in OrderSet /\ Hole(size).op = "hole" /\ Hole(size).size = size
  BY DEF Hole, OrderSet
<1>2. p + size \in Nat
  OBVIOUS
<1>5. <<Open(p, p + size)>> \o h \in Seq(Holes)
  BY <1>2, RoomsAre, InnerRoom
<1>3. /\ At(p, h) \in Places /\ At(p, h).position = p /\ At(p, h).holes = h
      /\ At(p + size, <<Open(p, p + size)>> \o h) \in Places
  BY <1>2, <1>5, AtPlace
<1>4. FitsHole(Hole(size), At(p, h), At(p + size, <<Open(p, p + size)>> \o h))
  BY <1>1, <1>3 DEF FitsHole, At, Open
<1> QED BY <1>1, <1>3, <1>4, RouteOne DEF Fits

LEMMA RouteBack ==
  ASSUME NEW order \in OrderSet, order.op = "back",
         NEW p \in Nat, NEW s \in Nat, NEW f \in Nat, NEW h \in Seq(Holes),
         NEW header \in Data, HeaderData(order, p - f) = header,
         Matches(header, s), s + Len(header) <= f
  PROVE  Route(<<order>>, At(p, <<Open(s, f)>> \o h),
               At(s + Len(header), <<Room(s, f, p)>> \o h))
<1> DEFINE a == At(p, <<Open(s, f)>> \o h)
           b == At(s + Len(header), <<Room(s, f, p)>> \o h)
<1>1. Len(header) \in Nat
  BY LenData
<1>2. /\ <<Open(s, f)>> \o h \in Seq(Holes) /\ <<Open(s, f)>> \o h # <<>>
      /\ (<<Open(s, f)>> \o h)[1] = Open(s, f)
      /\ <<Room(s, f, p)>> \o h \in Seq(Holes)
      /\ Closed(<<Open(s, f)>> \o h, p) = <<Room(s, f, p)>> \o h
  <2>1. Open(s, f) \in Holes /\ Room(s, f, p) \in Holes /\ [Open(s, f) EXCEPT !.end = p] = Room(s, f, p)
    BY RoomsAre
  <2>2. Closed(<<Open(s, f)>> \o h, p) = <<[Open(s, f) EXCEPT !.end = p]>> \o h
    BY <2>1, RoomCloses
  <2> QED BY <2>1, <2>2, InnerRoom
<1>3. a \in Places /\ a.position = p /\ a.holes = <<Open(s, f)>> \o h /\ b \in Places
  <2>1. s + Len(header) \in Nat
    BY <1>1
  <2> QED BY <1>2, <2>1, AtPlace
<1>4. Open(s, f).start = s /\ Open(s, f).after = f /\ Open(s, f).end = 0
  BY RoomsAre
<1>5. b = [position |-> s + Len(header), holes |-> [a.holes EXCEPT ![1].end = p]]
  BY <1>2, <1>3 DEF At, Closed
<1> HIDE DEF a, b
<1>6. ~ InHeader(a)
  BY <1>2, <1>3, <1>4 DEF InHeader
<1>7. FitsBack(order, a, b)
  BY <1>2, <1>3, <1>4, <1>5, <1>6 DEF FitsBack
<1>8. Route(<<order>>, a, b)
  BY <1>3, <1>7, RouteOne DEF Fits
<1> QED BY <1>8 DEF a, b

LEMMA RouteEnd ==
  ASSUME NEW s \in Nat, NEW f \in Nat, NEW e \in Nat \ {0}, NEW h \in Seq(Holes)
  PROVE  Route(<<End>>, At(f, <<Room(s, f, e)>> \o h), At(e, h))
<1> DEFINE a == At(f, <<Room(s, f, e)>> \o h)
<1>1. End \in OrderSet /\ End.op = "end"
  BY DEF End, OrderSet
<1>2. /\ <<Room(s, f, e)>> \o h \in Seq(Holes) /\ <<Room(s, f, e)>> \o h # <<>>
      /\ (<<Room(s, f, e)>> \o h)[1] = Room(s, f, e)
      /\ Tail(<<Room(s, f, e)>> \o h) = h
  <2>1. Room(s, f, e) \in Holes
    BY RoomsAre
  <2> QED BY <2>1, InnerRoom
<1>3. a \in Places /\ a.position = f /\ a.holes = <<Room(s, f, e)>> \o h /\ At(e, h) \in Places
  BY <1>2, AtPlace
<1> HIDE DEF a
<1>6. Room(s, f, e).after = f /\ Room(s, f, e).end = e
  BY RoomsAre
<1>4. FitsEnd(End, a, At(e, h))
  BY <1>1, <1>2, <1>3, <1>6 DEF FitsEnd, InHeader, At
<1>5. Route(<<End>>, a, At(e, h))
  BY <1>1, <1>3, <1>4, RouteOne DEF Fits
<1> QED BY <1>5 DEF a

LEMMA RouteFinalize ==
  ASSUME NEW p \in Nat
  PROVE  Route(<<Finalize>>, At(p, <<>>), At(p, <<>>))
<1>1. Finalize \in OrderSet /\ Finalize.op = "finalize"
  BY DEF Finalize, OrderSet
<1>2. At(p, <<>>) \in Places /\ At(p, <<>>).holes = <<>>
  <2>1. <<>> \in Seq(Holes)
    OBVIOUS
  <2> QED BY <2>1, AtPlace
<1>3. FitsFinalize(Finalize, At(p, <<>>), At(p, <<>>))
  BY <1>1, <1>2 DEF FitsFinalize
<1> QED BY <1>1, <1>2, <1>3, RouteOne DEF Fits

LEMMA FiveInARow ==
  ASSUME NEW a, NEW b, NEW c, NEW d, NEW e
  PROVE  (((<<a>> \o <<b>>) \o <<c>>) \o <<d>>) \o <<e>> = <<a, b, c, d, e>>
<1> DEFINE S == {a, b, c, d, e}
           l == (((<<a>> \o <<b>>) \o <<c>>) \o <<d>>) \o <<e>>
           r == <<a, b, c, d, e>>
<1>1. l \in Seq(S) /\ Len(l) = 5 /\ r \in Seq(S) /\ Len(r) = 5
  OBVIOUS
<1>2. \A k \in 1 .. 5 : l[k] = r[k]
  <2>1. l[1] = r[1] /\ l[2] = r[2] /\ l[3] = r[3] /\ l[4] = r[4] /\ l[5] = r[5]
    OBVIOUS
  <2> QED BY <2>1
<1> HIDE DEF l, r
<1>3. l = r
  BY <1>1, <1>2, SeqEqual
<1> QED BY <1>3 DEF l, r

LEMMA NoHoles ==
  ASSUME NEW p \in Nat
  PROVE  /\ <<>> \in Seq(Holes) /\ At(p, <<>>) \in Places /\ ~ InHeader(At(p, <<>>))
<1>1. <<>> \in Seq(Holes)
  OBVIOUS
<1>2. At(p, <<>>) \in Places /\ At(p, <<>>).holes = <<>>
  BY <1>1, AtPlace
<1> QED BY <1>1, <1>2 DEF InHeader

LEMMA InRoom ==
  ASSUME NEW p \in Nat, NEW s \in Nat, NEW f \in Nat, NEW e \in Nat \ {0}, NEW h \in Seq(Holes)
  PROVE  /\ <<Open(s, f)>> \o h \in Seq(Holes) /\ ~ InHeader(At(p, <<Open(s, f)>> \o h))
         /\ <<Room(s, f, e)>> \o h \in Seq(Holes) /\ (<<Room(s, f, e)>> \o h)[1].after = f
<1>1. /\ Open(s, f) \in Holes /\ Room(s, f, e) \in Holes
      /\ Open(s, f).end = 0 /\ Room(s, f, e).after = f
  BY RoomsAre
<1>2. /\ <<Open(s, f)>> \o h \in Seq(Holes) /\ (<<Open(s, f)>> \o h)[1] = Open(s, f)
      /\ <<Room(s, f, e)>> \o h \in Seq(Holes) /\ (<<Room(s, f, e)>> \o h)[1] = Room(s, f, e)
  BY <1>1, InnerRoom
<1>3. At(p, <<Open(s, f)>> \o h).holes = <<Open(s, f)>> \o h
  BY <1>2, AtPlace
<1> QED BY <1>1, <1>2, <1>3 DEF InHeader

\* Something behind the room for its header, and the header written into it.
LEMMA RouteBox ==
  ASSUME NEW p \in Nat, NEW h \in Seq(Holes), ~ InHeader(At(p, h)),
         NEW size \in Nat \ {0}, NEW e \in Nat \ {0},
         NEW inner, Route(inner, At(p + size, <<Open(p, p + size)>> \o h), At(e, <<Open(p, p + size)>> \o h)),
         NEW back \in OrderSet, back.op = "back",
         NEW header \in Data, HeaderData(back, e - (p + size)) = header,
         Len(header) = size, Matches(header, p)
  PROVE  Route(((<<Hole(size)>> \o inner) \o <<back>>) \o <<End>>, At(p, h), At(e, h))
<1> DEFINE f == p + size
<1>1. f \in Nat /\ p + Len(header) = f
  OBVIOUS
<1> DEFINE open == <<Open(p, f)>> \o h
           closed == <<Room(p, f, e)>> \o h
<1>2. Route(<<Hole(size)>>, At(p, h), At(f, open))
  BY RouteHole
<1>3. Route(inner, At(f, open), At(e, open))
  OBVIOUS
<1>4. HeaderData(back, e - f) = header
  OBVIOUS
<1> HIDE DEF f
<1>5. Route(<<back>>, At(e, open), At(p + Len(header), closed))
  <2>1. p + Len(header) <= f
    BY <1>1
  <2> QED BY <1>1, <1>4, <2>1, RouteBack
<1>6. Route(<<back>>, At(e, open), At(f, closed))
  BY <1>1, <1>5
<1>7. Route(<<End>>, At(f, closed), At(e, h))
  BY <1>1, RouteEnd
<1> HIDE DEF open, closed
<1>8. Route(<<Hole(size)>> \o inner, At(p, h), At(e, open))
  BY <1>2, <1>3, RouteJoin
<1>9. Route((<<Hole(size)>> \o inner) \o <<back>>, At(p, h), At(f, closed))
  BY <1>6, <1>8, RouteJoin
<1> QED BY <1>7, <1>9, RouteJoin

LEMMA BoxBack ==
  ASSUME NEW type \in Labels, NEW n \in Nat
  PROVE  /\ BackToBox(type) \in OrderSet /\ BackToBox(type).op = "back"
         /\ HeaderData(BackToBox(type), n) = BoxHeader(type, n)
<1> DEFINE back == BackToBox(type)
<1>1. back \in OrderSet /\ back.op = "back" /\ back.header = "box" /\ back.type = type
  BY DEF BackToBox, OrderSet
<1> HIDE DEF back
<1>2. HeaderOrders(back, n) = <<InOneBuffer(BoxHeader(type, n))>>
  BY <1>1 DEF HeaderOrders
<1>3. HeaderData(back, n) = BoxHeader(type, n)
  BY <1>2 DEF HeaderData, InOneBuffer
<1> QED BY <1>1, <1>3 DEF back

LEMMA RouteAppendBox ==
  ASSUME job \in Jobs, NEW type \in Labels, NEW op \in {"append", "exact"}, NEW c \in Data, NEW p \in Nat,
         Matches(Boxed(type, c), p)
  PROVE  Route(AppendBox(type, [op |-> op, data |-> c]), At(p, <<>>), At(p + Len(Boxed(type, c)), <<>>))
<1> DEFINE f == p + HeaderSize
           e == f + Len(c)
           header == BoxHeader(type, Len(c))
           contents == [op |-> op, data |-> c]
           back == BackToBox(type)
<1>1. /\ Len(c) \in Nat /\ HeaderSize \in Nat \ {0} /\ f \in Nat /\ e \in Nat \ {0} /\ e - f = Len(c)
      /\ op \in WriteOps /\ op # "packed"
  BY LenData, WriterAssumption DEF WriteOps
<1>2. header \in Data /\ Len(header) = HeaderSize /\ Len(Boxed(type, c)) = HeaderSize + Len(c)
  BY <1>1, BoxHeaderData, BoxedData
<1>3. Matches(header, p) /\ Matches(c, f)
  BY <1>2, MatchesConcat DEF Boxed
<1>4. PICK h \in Seq(Holes) : h = <<>> /\ ~ InHeader(At(p, h))
  BY NoHoles
<1> DEFINE open == <<Open(p, f)>> \o h
<1>5. open \in Seq(Holes) /\ ~ InHeader(At(f, open))
  <2> HIDE DEF f, e
  <2> QED BY <1>1, InRoom
<1>6. Route(<<contents>>, At(f, open), At(e, open))
  <2> HIDE DEF open, f
  <2> QED BY <1>1, <1>3, <1>5, RouteWrite
<1>7. back \in OrderSet /\ back.op = "back" /\ HeaderData(back, e - f) = header
  BY <1>1, BoxBack
<1> HIDE DEF contents, back, header, e
<1>8. Route(((<<Hole(HeaderSize)>> \o <<contents>>) \o <<back>>) \o <<End>>, At(p, h), At(e, h))
  BY <1>1, <1>2, <1>3, <1>4, <1>6, <1>7, RouteBox
<1>9. Route(<<Finalize>>, At(e, h), At(e, h))
  BY <1>1, <1>4, RouteFinalize
<1>10. Route((((<<Hole(HeaderSize)>> \o <<contents>>) \o <<back>>) \o <<End>>) \o <<Finalize>>,
             At(p, h), At(e, h))
  BY <1>8, <1>9, RouteJoin
<1>11. (((<<Hole(HeaderSize)>> \o <<contents>>) \o <<back>>) \o <<End>>) \o <<Finalize>>
         = AppendBox(type, contents)
  BY FiveInARow, Zenon DEF AppendBox, back
<1>12. p + Len(Boxed(type, c)) = e
  BY <1>1, <1>2 DEF e, f
<1> QED BY <1>4, <1>10, <1>11, <1>12 DEF contents

\* The sections of a frame as they come, behind a hole for what precedes them.
Sections(op, toc, dc, g1, g2, size) ==
  <<Hole(2 * size), [op |-> op, data |-> g1], [op |-> op, data |-> g2],
    Back, AppendData(toc), AppendData(dc), End>>

LEMMA RouteSections ==
  ASSUME job \in Jobs, NEW op \in {"append", "packed"}, NEW size \in Nat \ {0}, NEW p \in Nat, NEW h \in Seq(Holes),
         ~ InHeader(At(p, h)),
         NEW toc \in Data, NEW dc \in Data, NEW g1 \in Data, NEW g2 \in Data,
         Len(toc) = size, Len(dc) = size, Len(g1) = size, Len(g2) = size,
         Matches(((toc \o dc) \o g1) \o g2, p)
  PROVE  Route(Sections(op, toc, dc, g1, g2, size), At(p, h), At(p + 4 * size, h))
<1> DEFINE f == p + 2 * size
           m == f + size
           e == m + size
           d == p + size
<1>1. f \in Nat /\ m \in Nat /\ e \in Nat \ {0} /\ d \in Nat /\ 2 * size \in Nat \ {0} /\ op \in WriteOps
  BY DEF WriteOps
<1>2. Matches(toc, p) /\ Matches(dc, d) /\ Matches(g1, f) /\ Matches(g2, m)
  <2>0. size + size = 2 * size
    OBVIOUS
  <2>1. toc \o dc \in Data /\ Len(toc \o dc) = 2 * size
    <3>1. toc \o dc \in Data /\ Len(toc \o dc) = Len(toc) + Len(dc)
      BY ConcatIsData
    <3> QED BY <2>0, <3>1
  <2>2. (toc \o dc) \o g1 \in Data /\ Len((toc \o dc) \o g1) = 2 * size + size
    BY <2>1, ConcatIsData
  <2>3. Matches((toc \o dc) \o g1, p) /\ Matches(g2, p + (2 * size + size))
    BY <2>2, MatchesConcat
  <2>4. Matches(toc \o dc, p) /\ Matches(g1, p + 2 * size)
    BY <2>1, <2>3, MatchesConcat
  <2>5. Matches(toc, p) /\ Matches(dc, p + size)
    BY <2>4, MatchesConcat
  <2>6. p + (2 * size + size) = m
    OBVIOUS
  <2> QED BY <2>3, <2>4, <2>5, <2>6
<1> DEFINE open == <<Open(p, f)>> \o h
           closed == <<Room(p, f, e)>> \o h
<1>3. /\ open \in Seq(Holes) /\ ~ InHeader(At(f, open)) /\ ~ InHeader(At(m, open))
      /\ closed \in Seq(Holes) /\ closed[1].after = f
  <2> HIDE DEF f, m, e
  <2> QED BY <1>1, InRoom
<1>4. Route(<<Hole(2 * size)>>, At(p, h), At(f, open))
  <2> HIDE DEF open
  <2>1. Route(<<Hole(2 * size)>>, At(p, h), At(p + 2 * size, <<Open(p, p + 2 * size)>> \o h))
    BY <1>1, RouteHole
  <2> QED BY <2>1 DEF open
<1>5. Route(<<[op |-> op, data |-> g1]>>, At(f, open), At(m, open))
  <2> HIDE DEF open, f
  <2> QED BY <1>1, <1>2, <1>3, RouteWrite
<1>6. Route(<<[op |-> op, data |-> g2]>>, At(m, open), At(e, open))
  <2> HIDE DEF open, m
  <2> QED BY <1>1, <1>2, <1>3, RouteWrite
<1>7. Back \in OrderSet /\ Back.op = "back" /\ HeaderData(Back, e - f) = <<>> /\ <<>> \in Data
  <2>1. Back \in OrderSet /\ Back.op = "back" /\ Back.header = "none"
    BY DEF Back, OrderSet
  <2> HIDE DEF e, f
  <2>2. HeaderOrders(Back, e - f) = <<>>
    BY <2>1 DEF HeaderOrders
  <2> QED BY <2>1, <2>2, EmptyData DEF HeaderData
<1>8. Route(<<Back>>, At(e, open), At(p, closed))
  <2>1. Matches(<<>>, p)
    BY <1>2, EmptyData, WholeFileData DEF Matches
  <2>2. p + Len(<<>>) = p /\ p <= f
    BY EmptyData
  <2> HIDE DEF e, f
  <2>3. Route(<<Back>>, At(e, <<Open(p, f)>> \o h), At(p + Len(<<>>), <<Room(p, f, e)>> \o h))
    BY <1>1, <1>7, <2>1, <2>2, RouteBack
  <2> QED BY <2>2, <2>3
<1>9. Route(<<AppendData(toc)>>, At(p, closed), At(d, closed))
  <2>1. p + Len(toc) <= closed[1].after /\ "append" \in WriteOps /\ "append" # "packed"
    BY <1>3 DEF WriteOps
  <2> HIDE DEF closed
  <2> QED BY <1>1, <1>2, <1>3, <2>1, RouteWrite DEF AppendData
<1>10. Route(<<AppendData(dc)>>, At(d, closed), At(f, closed))
  <2>1. d + Len(dc) <= closed[1].after /\ "append" \in WriteOps /\ "append" # "packed" /\ d + Len(dc) = f
    BY <1>3 DEF WriteOps
  <2> HIDE DEF closed, d, f
  <2> QED BY <1>1, <1>2, <1>3, <2>1, RouteWrite DEF AppendData
<1>11. Route(<<End>>, At(f, closed), At(e, h))
  <2> HIDE DEF f, e
  <2> QED BY <1>1, RouteEnd
<1> HIDE DEF f, m, e, d, open, closed
<1> DEFINE o1 == [op |-> op, data |-> g1]
           o2 == [op |-> op, data |-> g2]
<1> HIDE DEF o1, o2
<1>12. Route(<<Hole(2 * size)>> \o <<o1>>, At(p, h), At(m, open))
  BY <1>4, <1>5, RouteJoin DEF o1
<1>13. Route((<<Hole(2 * size)>> \o <<o1>>) \o <<o2>>, At(p, h), At(e, open))
  BY <1>6, <1>12, RouteJoin DEF o2
<1>14. Route(((<<Hole(2 * size)>> \o <<o1>>) \o <<o2>>) \o <<Back>>, At(p, h), At(p, closed))
  BY <1>8, <1>13, RouteJoin
<1>15. Route((((<<Hole(2 * size)>> \o <<o1>>) \o <<o2>>) \o <<Back>>) \o <<AppendData(toc)>>,
             At(p, h), At(d, closed))
  BY <1>9, <1>14, RouteJoin
<1>16. Route(((((<<Hole(2 * size)>> \o <<o1>>) \o <<o2>>) \o <<Back>>) \o <<AppendData(toc)>>)
               \o <<AppendData(dc)>>, At(p, h), At(f, closed))
  BY <1>10, <1>15, RouteJoin
<1>17. Route((((((<<Hole(2 * size)>> \o <<o1>>) \o <<o2>>) \o <<Back>>) \o <<AppendData(toc)>>)
               \o <<AppendData(dc)>>) \o <<End>>, At(p, h), At(e, h))
  BY <1>11, <1>16, RouteJoin
<1>18. (((((<<Hole(2 * size)>> \o <<o1>>) \o <<o2>>) \o <<Back>>) \o <<AppendData(toc)>>)
          \o <<AppendData(dc)>>) \o <<End>> = Sections(op, toc, dc, g1, g2, size)
  <2>1. (((((<<Hole(2 * size)>> \o <<o1>>) \o <<o2>>) \o <<Back>>) \o <<AppendData(toc)>>)
          \o <<AppendData(dc)>>) \o <<End>>
        = <<Hole(2 * size), o1, o2, Back, AppendData(toc), AppendData(dc), End>>
    <3> DEFINE a == Hole(2 * size)
               b == Back
               y == AppendData(toc)
               z == AppendData(dc)
               w == End
    <3> HIDE DEF a, b, y, z, w
    <3> DEFINE S == {a, o1, o2, b, y, z, w}
               l == (((((<<a>> \o <<o1>>) \o <<o2>>) \o <<b>>) \o <<y>>) \o <<z>>) \o <<w>>
               t == <<a, o1, o2, b, y, z, w>>
    <3>1. l \in Seq(S) /\ Len(l) = 7 /\ t \in Seq(S) /\ Len(t) = 7
      OBVIOUS
    <3>2. \A k \in 1 .. 7 : l[k] = t[k]
      <4>1. /\ l[1] = t[1] /\ l[2] = t[2] /\ l[3] = t[3] /\ l[4] = t[4]
            /\ l[5] = t[5] /\ l[6] = t[6] /\ l[7] = t[7]
        OBVIOUS
      <4> QED BY <4>1
    <3> HIDE DEF l, t, S
    <3>4. Len(l) = Len(t) /\ \A k \in 1 .. Len(l) : l[k] = t[k]
      BY <3>1, <3>2
    <3>3. l = t
      BY ONLY <3>1, <3>4, SeqEqual
    <3> QED BY <3>3 DEF l, t, a, b, y, z, w
  <2> QED BY <2>1, Zenon DEF Sections, o1, o2
<1>19. e = p + 4 * size
  BY DEF e, m, f
<1> QED BY <1>17, <1>18, <1>19

LEMMA RouteFrameBody ==
  ASSUME job \in Jobs, NEW x \in FrameInputs, NEW p \in Nat, NEW h \in Seq(Holes), ~ InHeader(At(p, h)),
         Matches(WholeBody(x), p)
  PROVE  Route(FrameBody(x), At(p, h), At(p + Len(WholeBody(x)), h))
<1>1. /\ Part(x, "frame") \in Data
      /\ Part(x, "toc") \in Data /\ Len(Part(x, "toc")) = x.size
      /\ Part(x, "dc global") \in Data /\ Len(Part(x, "dc global")) = x.size
      /\ Part(x, "group 1") \in Data /\ Len(Part(x, "group 1")) = x.size
      /\ Part(x, "group 2") \in Data /\ Len(Part(x, "group 2")) = x.size
  BY PartData DEF Labels
<1>2. x.size \in Nat \ {0} /\ x.body \in {"oneshot", "streaming", "fast", "fast streaming"}
  BY DEF FrameInputs
<1>3. ASSUME NEW op \in {"append", "packed"}, x.body \in {"oneshot", "fast"},
             FrameBody(x) = <<[op |-> op, data |-> Part(x, "frame")]>>
      PROVE  Route(FrameBody(x), At(p, h), At(p + Len(WholeBody(x)), h))
  <2>1. WholeBody(x) = Part(x, "frame")
    BY <1>3 DEF WholeBody
  <2>2. op \in WriteOps
    BY DEF WriteOps
  <2> QED BY <1>1, <1>3, <2>1, <2>2, RouteWrite
<1>4. ASSUME NEW op \in {"append", "packed"}, x.body \in {"streaming", "fast streaming"},
             FrameBody(x) = Sections(op, Part(x, "toc"), Part(x, "dc global"),
                                     Part(x, "group 1"), Part(x, "group 2"), x.size)
      PROVE  Route(FrameBody(x), At(p, h), At(p + Len(WholeBody(x)), h))
  <2> DEFINE a == Part(x, "toc")
             b == Part(x, "dc global")
             c == Part(x, "group 1")
             d == Part(x, "group 2")
             n == x.size
  <2>1. WholeBody(x) = ((a \o b) \o c) \o d
    BY <1>4 DEF WholeBody
  <2>2. FrameBody(x) = Sections(op, a, b, c, d, n)
    BY <1>4
  <2>3. a \in Data /\ b \in Data /\ c \in Data /\ d \in Data /\ n \in Nat \ {0}
        /\ Len(a) = n /\ Len(b) = n /\ Len(c) = n /\ Len(d) = n
    BY <1>1, <1>2
  <2> HIDE DEF a, b, c, d, n
  <2>4. Matches(((a \o b) \o c) \o d, p)
    BY <2>1
  <2>5. Route(Sections(op, a, b, c, d, n), At(p, h), At(p + 4 * n, h))
    BY <2>3, <2>4, RouteSections
  <2>6. Len(((a \o b) \o c) \o d) = 4 * n
    <3>1. a \o b \in Data /\ Len(a \o b) = Len(a) + Len(b)
      BY <2>3, ConcatIsData
    <3>2. (a \o b) \o c \in Data /\ Len((a \o b) \o c) = Len(a \o b) + Len(c)
      BY <2>3, <3>1, ConcatIsData
    <3>3. Len(((a \o b) \o c) \o d) = Len((a \o b) \o c) + Len(d)
      BY <2>3, <3>2, ConcatIsData
    <3> QED BY <2>3, <3>1, <3>2, <3>3
  <2> QED BY <2>1, <2>2, <2>5, <2>6
<1>5. CASE x.body = "oneshot"
  <2>1. FrameBody(x) = <<[op |-> "append", data |-> Part(x, "frame")]>>
    BY <1>5 DEF FrameBody, AppendData
  <2> QED BY <1>3, <1>5, <2>1
<1>6. CASE x.body = "fast"
  <2>1. FrameBody(x) = <<[op |-> "packed", data |-> Part(x, "frame")]>>
    BY <1>6 DEF FrameBody, Packed
  <2> QED BY <1>3, <1>6, <2>1
<1>7. CASE x.body = "streaming"
  <2>1. FrameBody(x) = Sections("append", Part(x, "toc"), Part(x, "dc global"),
                                Part(x, "group 1"), Part(x, "group 2"), x.size)
    BY <1>7 DEF FrameBody, AppendData, Sections
  <2> QED BY <1>4, <1>7, <2>1
<1>8. CASE x.body = "fast streaming"
  <2>1. FrameBody(x) = Sections("packed", Part(x, "toc"), Part(x, "dc global"),
                                Part(x, "group 1"), Part(x, "group 2"), x.size)
    BY <1>8 DEF FrameBody, Packed, Sections
  <2> QED BY <1>4, <1>8, <2>1
<1> QED BY <1>2, <1>5, <1>6, <1>7, <1>8

\* The codestream of a frame, with what goes ahead of it.
Stream(n) == HeaderOf(n) \o WholeBody(job.inputs[n])
StreamOrders(n) == <<AppendData(HeaderOf(n))>> \o FrameBody(job.inputs[n])

LEMMA StreamData ==
  ASSUME job \in Jobs, NEW n \in 1 .. Len(job.inputs), IsFrame(job.inputs[n])
  PROVE  Stream(n) \in Data /\ Len(Stream(n)) \in Nat
<1>1. HeaderOf(n) \in Data /\ WholeBody(job.inputs[n]) \in Data
  BY HeaderOfData, JobFacts, BodyData
<1>2. Stream(n) \in Data
  BY <1>1, ConcatIsData DEF Stream
<1> QED BY <1>2, LenData

LEMMA RouteStream ==
  ASSUME job \in Jobs, NEW n \in 1 .. Len(job.inputs), IsFrame(job.inputs[n]),
         NEW p \in Nat, NEW h \in Seq(Holes), ~ InHeader(At(p, h)), \A q \in Nat : ~ InHeader(At(q, h)),
         Matches(Stream(n), p)
  PROVE  Route(StreamOrders(n), At(p, h), At(p + Len(Stream(n)), h))
<1> DEFINE x == job.inputs[n]
           m == p + Len(HeaderOf(n))
<1>1. x \in FrameInputs /\ HeaderOf(n) \in Data
  BY JobFacts, HeaderOfData
<1>2. WholeBody(x) \in Data /\ Len(HeaderOf(n)) \in Nat /\ Len(WholeBody(x)) \in Nat
  BY <1>1, BodyData, LenData
<1>3. Matches(HeaderOf(n), p) /\ Matches(WholeBody(x), m)
  BY <1>1, <1>2, MatchesConcat DEF Stream
<1>4. Len(Stream(n)) = Len(HeaderOf(n)) + Len(WholeBody(x))
  BY <1>1, <1>2, ConcatIsData DEF Stream
<1>5. Route(<<AppendData(HeaderOf(n))>>, At(p, h), At(m, h))
  <2>1. "append" \in WriteOps
    BY DEF WriteOps
  <2>2. Route(<<[op |-> "append", data |-> HeaderOf(n)]>>, At(p, h), At(m, h))
    BY <1>1, <1>3, <2>1, RouteWrite
  <2> QED BY <2>2 DEF AppendData
<1>6. Route(FrameBody(x), At(m, h), At(m + Len(WholeBody(x)), h))
  <2>1. m \in Nat
    BY <1>2
  <2> HIDE DEF m, x
  <2> QED BY <1>1, <1>3, <2>1, RouteFrameBody
<1>7. m + Len(WholeBody(x)) = p + Len(Stream(n))
  BY <1>2, <1>4
<1>8. Route(<<AppendData(HeaderOf(n))>> \o FrameBody(x), At(p, h), At(m + Len(WholeBody(x)), h))
  <2> HIDE DEF m
  <2> QED BY <1>5, <1>6, RouteJoin
<1> QED BY <1>7, <1>8 DEF StreamOrders

FrameHeader(number, last, size) ==
  IF last /\ number = 0 THEN BoxHeader("jxlc", size)
  ELSE BoxHeader("jxlp", size + 1) \o Counter(number, last)

LEMMA FrameBack ==
  ASSUME NEW number \in Nat, NEW last \in BOOLEAN, NEW n \in Nat
  PROVE  /\ BackToFrame(number, last) \in OrderSet /\ BackToFrame(number, last).op = "back"
         /\ HeaderData(BackToFrame(number, last), n) = FrameHeader(number, last, n)
         /\ FrameHeader(number, last, n) \in Data
         /\ Len(FrameHeader(number, last, n)) = HeaderSize + (IF last /\ number = 0 THEN 0 ELSE 1)
<1> DEFINE back == BackToFrame(number, last)
<1>1. /\ back \in OrderSet /\ back.op = "back" /\ back.header = "frame"
      /\ back.number = number /\ back.last = last
  BY DEF BackToFrame, OrderSet
<1> HIDE DEF back
<1>2. HeaderOrders(back, n) = <<AppendData(FrameHeader(number, last, n))>>
  BY <1>1 DEF HeaderOrders, FrameHeader
<1>3. HeaderData(back, n) = FrameHeader(number, last, n)
  BY <1>2 DEF HeaderData, AppendData
<1>4. /\ FrameHeader(number, last, n) \in Data
      /\ Len(FrameHeader(number, last, n)) = HeaderSize + (IF last /\ number = 0 THEN 0 ELSE 1)
  <2>1. "jxlc" \in Labels /\ "jxlp" \in Labels /\ n + 1 \in Nat /\ HeaderSize \in Nat
    BY WriterAssumption DEF Labels
  <2>2. /\ BoxHeader("jxlc", n) \in Data /\ Len(BoxHeader("jxlc", n)) = HeaderSize
        /\ BoxHeader("jxlp", n + 1) \in Data /\ Len(BoxHeader("jxlp", n + 1)) = HeaderSize
    BY <2>1, BoxHeaderData
  <2>3. Counter(number, last) \in Data /\ Len(Counter(number, last)) = 1
    BY CounterData
  <2>4. /\ BoxHeader("jxlp", n + 1) \o Counter(number, last) \in Data
        /\ Len(BoxHeader("jxlp", n + 1) \o Counter(number, last)) = HeaderSize + 1
    <3> DEFINE b == BoxHeader("jxlp", n + 1)
               c == Counter(number, last)
    <3> HIDE DEF b, c
    <3>1. b \in Data /\ c \in Data /\ Len(b) = HeaderSize /\ Len(c) = 1
      BY <2>2, <2>3 DEF b, c
    <3>2. b \o c \in Data /\ Len(b \o c) = Len(b) + Len(c)
      BY <3>1, ConcatIsData
    <3> QED BY <3>1, <3>2 DEF b, c
  <2> QED BY <2>1, <2>2, <2>4 DEF FrameHeader
<1> QED BY <1>1, <1>3, <1>4 DEF back

\* In its box the frame follows the header the box ends with having.
LEMMA FrameInBox ==
  ASSUME job \in Jobs, NEW n \in 1 .. Len(job.inputs), IsFrame(job.inputs[n]),
         NEW number \in Nat, NEW last \in BOOLEAN, NEW p \in Nat
  PROVE  LET header == FrameHeader(number, last, Len(Stream(n)))
             boxed == IF last /\ number = 0 THEN Boxed("jxlc", Stream(n))
                      ELSE Boxed("jxlp", Counter(number, last) \o Stream(n))
         IN /\ boxed \in Data /\ Len(boxed) = Len(header) + Len(Stream(n))
            /\ Matches(boxed, p) => Matches(header, p) /\ Matches(Stream(n), p + Len(header))
<1> DEFINE s == Stream(n)
           L == Len(s)
           c == Counter(number, last)
<1>1. s \in Data /\ L \in Nat /\ L + 1 \in Nat /\ HeaderSize \in Nat
  BY StreamData, WriterAssumption
<1>2. "jxlc" \in Labels /\ "jxlp" \in Labels
  BY DEF Labels
<1>3. c \in Data /\ Len(c) = 1
  BY CounterData
<1> HIDE DEF s, L, c
<1>4. CASE last /\ number = 0
  <2> DEFINE b == BoxHeader("jxlc", L)
  <2>1. b \in Data /\ Len(b) = HeaderSize
    BY <1>1, <1>2, BoxHeaderData
  <2>2. Boxed("jxlc", s) = b \o s
    BY DEF Boxed, L
  <2> HIDE DEF b
  <2>3. b \o s \in Data /\ Len(b \o s) = Len(b) + Len(s)
    BY <1>1, <2>1, ConcatIsData
  <2>4. Matches(b \o s, p) => Matches(b, p) /\ Matches(s, p + Len(b))
    BY <1>1, <2>1, MatchesConcat
  <2>5. FrameHeader(number, last, L) = b
    BY <1>4 DEF FrameHeader, b
  <2> QED BY <1>4, <2>2, <2>3, <2>4, <2>5 DEF s, L
<1>5. CASE ~ (last /\ number = 0)
  <2> DEFINE b == BoxHeader("jxlp", L + 1)
  <2>1. b \in Data /\ Len(b) = HeaderSize
    BY <1>1, <1>2, BoxHeaderData
  <2>2. c \o s \in Data /\ Len(c \o s) = L + 1
    <3>1. c \o s \in Data /\ Len(c \o s) = Len(c) + Len(s)
      BY <1>1, <1>3, ConcatIsData
    <3> QED BY <1>1, <1>3, <3>1 DEF L
  <2>3. Boxed("jxlp", c \o s) = b \o (c \o s)
    BY <2>2 DEF Boxed
  <2> HIDE DEF b
  <2>4. b \o (c \o s) \in Data /\ Len(b \o (c \o s)) = Len(b) + Len(c \o s)
    BY <2>1, <2>2, ConcatIsData
  <2>5. b \o c \in Data /\ Len(b \o c) = Len(b) + Len(c)
    BY <1>3, <2>1, ConcatIsData
  <2>6. ASSUME Matches(b \o (c \o s), p)
        PROVE  Matches(b \o c, p) /\ Matches(s, p + Len(b \o c))
    <3>1. Matches(b, p) /\ Matches(c \o s, p + Len(b))
      BY <2>1, <2>2, <2>6, MatchesConcat
    <3>2. Matches(c, p + Len(b)) /\ Matches(s, (p + Len(b)) + Len(c))
      <4>1. p + Len(b) \in Nat
        BY <1>1, <2>1
      <4> QED BY <1>1, <1>3, <3>1, <4>1, MatchesConcat
    <3>3. (p + Len(b)) + Len(c) = p + Len(b \o c)
      BY <1>1, <1>3, <2>1, <2>5
    <3> QED BY <1>3, <2>1, <3>1, <3>2, <3>3, MatchesConcat
  <2>7. FrameHeader(number, last, L) = b \o c
    BY <1>5 DEF FrameHeader, b, c
  <2>8. Len(b \o (c \o s)) = Len(b \o c) + L
    BY <1>1, <1>3, <2>1, <2>2, <2>4, <2>5
  <2> QED BY <1>5, <2>3, <2>4, <2>6, <2>7, <2>8 DEF s, L, c
<1> QED BY <1>4, <1>5

LEMMA NoneHere ==
  ASSUME NEW p \in Nat, NEW h \in Seq(Holes)
  PROVE  h = <<>> => ~ InHeader(At(p, h))
<1>1. At(p, h).holes = h
  BY AtPlace
<1> QED BY <1>1 DEF InHeader

LEMMA RouteFrameBoxed ==
  ASSUME job \in Jobs, NEW n \in 1 .. Len(job.inputs), IsFrame(job.inputs[n]),
         NEW number \in Nat, NEW last \in BOOLEAN, NEW p \in Nat,
         Matches(FrameHeader(number, last, Len(Stream(n))), p),
         Matches(Stream(n), p + Len(FrameHeader(number, last, Len(Stream(n)))))
  PROVE  LET header == FrameHeader(number, last, Len(Stream(n)))
             size == HeaderSize + (IF last /\ number = 0 THEN 0 ELSE 1)
         IN Route((<<Hole(size)>> \o StreamOrders(n)) \o <<BackToFrame(number, last), End>>,
                  At(p, <<>>), At(p + (Len(header) + Len(Stream(n))), <<>>))
<1> DEFINE L == Len(Stream(n))
           header == FrameHeader(number, last, L)
           size == HeaderSize + (IF last /\ number = 0 THEN 0 ELSE 1)
           f == p + size
           e == f + L
           back == BackToFrame(number, last)
           inner == StreamOrders(n)
<1>1. L \in Nat /\ size \in Nat \ {0} /\ f \in Nat /\ e \in Nat \ {0} /\ e - f = L
  BY StreamData, WriterAssumption
<1>2. /\ back \in OrderSet /\ back.op = "back" /\ HeaderData(back, L) = header
      /\ header \in Data /\ Len(header) = size
  <2> HIDE DEF L
  <2> QED BY <1>1, FrameBack
<1>3. Matches(header, p) /\ Matches(Stream(n), f)
  BY <1>2
<1>4. PICK h \in Seq(Holes) : h = <<>> /\ ~ InHeader(At(p, h))
  BY NoHoles
<1> DEFINE open == <<Open(p, f)>> \o h
<1> HIDE DEF header, L, size, f, e, back, inner
<1>5. open \in Seq(Holes) /\ \A q \in Nat : ~ InHeader(At(q, open))
  BY <1>1, InRoom
<1>6. Route(inner, At(f, open), At(e, open))
  <2> HIDE DEF open
  <2>1. Route(StreamOrders(n), At(f, open), At(f + Len(Stream(n)), open))
    BY <1>1, <1>3, <1>5, RouteStream
  <2> QED BY <2>1 DEF inner, e, L
<1>7. Route(((<<Hole(size)>> \o inner) \o <<back>>) \o <<End>>, At(p, h), At(e, h))
  <2>1. Route(inner, At(p + size, <<Open(p, p + size)>> \o h), At(e, <<Open(p, p + size)>> \o h))
    BY <1>6 DEF f
  <2>2. HeaderData(back, e - (p + size)) = header
    BY <1>1, <1>2 DEF f
  <2> QED BY <1>1, <1>2, <1>3, <1>4, <2>1, <2>2, RouteBox
<1>8. ((<<Hole(size)>> \o inner) \o <<back>>) \o <<End>> = (<<Hole(size)>> \o inner) \o <<back, End>>
  <2> DEFINE s == <<Hole(size)>> \o inner
             z == End
             T == {back, z}
             l == (s \o <<back>>) \o <<z>>
             r == s \o <<back, z>>
  <2>1. inner \in Seq(OrderSet) /\ Hole(size) \in OrderSet /\ z \in OrderSet
    BY <1>1, <1>6 DEF Route, Hole, OrderSet, End
  <2>2. s \in Seq(OrderSet)
    BY <2>1
  <2> HIDE DEF s, z
  <2>3. l \in Seq(OrderSet) /\ r \in Seq(OrderSet) /\ Len(l) = Len(s) + 2 /\ Len(r) = Len(s) + 2
    BY <1>2, <2>1, <2>2
  <2>4. \A k \in 1 .. Len(s) + 2 : l[k] = r[k]
    <3> TAKE k \in 1 .. Len(s) + 2
    <3>1. CASE k <= Len(s)
      BY <1>2, <2>1, <2>2, <3>1
    <3>2. CASE k = Len(s) + 1
      BY <1>2, <2>1, <2>2, <3>2
    <3>3. CASE k = Len(s) + 2
      BY <1>2, <2>1, <2>2, <3>3
    <3>4. Len(s) \in Nat
      BY <2>2
    <3> QED BY <3>1, <3>2, <3>3, <3>4
  <2> HIDE DEF l, r
  <2>5. l = r
    BY <2>3, <2>4, SeqEqual
  <2> QED BY <2>5 DEF l, r, s, z
<1>9. e = p + (Len(header) + Len(Stream(n)))
  BY <1>1, <1>2 DEF e, f, L
<1> QED BY <1>4, <1>7, <1>8, <1>9 DEF header, L, size, back, inner

\* What a frame adds to the file ahead of an index.
FrameBytes(n) ==
  LET last == LastFrame(n)
  IN IF ~ job.container THEN Stream(n)
     ELSE IF last /\ PartsBefore(n) = 0 THEN Boxed("jxlc", Stream(n))
     ELSE Boxed("jxlp", Counter(PartsBefore(n), last) \o Stream(n))

FrameWrites(n, number) ==
  LET counter == IF LastFrame(n) /\ number = 0 THEN 0 ELSE 1
  IN IF job.container
     THEN (<<Hole(HeaderSize + counter)>> \o StreamOrders(n)) \o <<BackToFrame(number, LastFrame(n)), End>>
     ELSE StreamOrders(n)

LEMMA RouteFrameWrites ==
  ASSUME job \in Jobs, NEW n \in 1 .. Len(job.inputs), IsFrame(job.inputs[n]),
         NEW number \in Nat, job.container => number = PartsBefore(n), NEW p \in Nat,
         Matches(FrameBytes(n), p)
  PROVE  /\ FrameBytes(n) \in Data
         /\ Route(FrameWrites(n, number), At(p, <<>>), At(p + Len(FrameBytes(n)), <<>>))
<1> DEFINE last == LastFrame(n)
<1>1. last \in BOOLEAN /\ job.container \in BOOLEAN
  BY JobFacts DEF LastFrame
<1>2. CASE ~ job.container
  <2>1. FrameBytes(n) = Stream(n) /\ FrameWrites(n, number) = StreamOrders(n)
    BY <1>2 DEF FrameBytes, FrameWrites
  <2>2. Stream(n) \in Data
    BY StreamData
  <2>3. PICK h \in Seq(Holes) : h = <<>>
    BY NoHoles
  <2>4. \A q \in Nat : ~ InHeader(At(q, h))
    BY <2>3, NoneHere
  <2>5. Route(StreamOrders(n), At(p, h), At(p + Len(Stream(n)), h))
    BY <2>1, <2>2, <2>4, RouteStream
  <2> QED BY <2>1, <2>2, <2>3, <2>5
<1>3. CASE job.container
  <2> DEFINE header == FrameHeader(number, last, Len(Stream(n)))
             boxed == IF last /\ number = 0 THEN Boxed("jxlc", Stream(n))
                      ELSE Boxed("jxlp", Counter(number, last) \o Stream(n))
  <2>1. FrameBytes(n) = boxed
    BY <1>3 DEF FrameBytes
  <2>2. /\ boxed \in Data /\ Len(boxed) = Len(header) + Len(Stream(n))
        /\ Matches(boxed, p) => Matches(header, p) /\ Matches(Stream(n), p + Len(header))
    BY <1>1, FrameInBox
  <2>3. Matches(header, p) /\ Matches(Stream(n), p + Len(header))
    BY <2>1, <2>2
  <2>4. Route((<<Hole(HeaderSize + (IF last /\ number = 0 THEN 0 ELSE 1))>> \o StreamOrders(n))
                \o <<BackToFrame(number, last), End>>,
              At(p, <<>>), At(p + (Len(header) + Len(Stream(n))), <<>>))
    BY <1>1, <2>3, RouteFrameBoxed
  <2>5. FrameWrites(n, number) = (<<Hole(HeaderSize + (IF last /\ number = 0 THEN 0 ELSE 1))>> \o StreamOrders(n))
                \o <<BackToFrame(number, last), End>>
    BY <1>3 DEF FrameWrites
  <2> HIDE DEF header, boxed
  <2> QED BY <2>1, <2>2, <2>4, <2>5
<1> QED BY <1>1, <1>2, <1>3

LEMMA RouteExact ==
  ASSUME job \in Jobs, NEW data \in Data, NEW p \in Nat, Matches(data, p)
  PROVE  Route(<<InOneBuffer(data)>>, At(p, <<>>), At(p + Len(data), <<>>))
<1>1. PICK h \in Seq(Holes) : h = <<>> /\ ~ InHeader(At(p, h))
  BY NoHoles
<1>2. "exact" \in WriteOps
  BY DEF WriteOps
<1>3. Route(<<[op |-> "exact", data |-> data]>>, At(p, h), At(p + Len(data), h))
  BY <1>1, <1>2, RouteWrite
<1> QED BY <1>1, <1>3 DEF InOneBuffer

LEMMA RouteHeaderBoxes ==
  ASSUME job \in Jobs, NEW p \in Nat, Matches(WholeHeader, p)
  PROVE  Route(HeaderBoxes, At(p, <<>>), At(p + Len(WholeHeader), <<>>))
<1> DEFINE a == IF job.container THEN Signature ELSE <<>>
           b == IF job.container /\ job.level10 THEN LevelBox ELSE <<>>
           cc == Counter(0, FALSE) \o CodestreamHeader
           c == IF PartialHeader THEN Boxed("jxlp", cc) ELSE <<>>
           dd == Bytes("jbrd", job.jbrd)
           d == IF job.container /\ HasReconstruction THEN Boxed("jbrd", dd) ELSE <<>>
<1>1. /\ Signature \in Data /\ LevelBox \in Data /\ cc \in Data /\ dd \in Data /\ <<>> \in Data
      /\ "jxlp" \in Labels /\ "jbrd" \in Labels /\ Len(<<>>) = 0
  <2>1. Counter(0, FALSE) \in Data /\ CodestreamHeader \in Data
    BY CounterData, FixedData
  <2>2. cc \in Data
    BY <2>1, ConcatIsData
  <2>3. dd \in Data
    BY FixedData, JobFacts
  <2> QED BY <2>2, <2>3, FixedData, EmptyData DEF Labels
<1>2. Boxed("jxlp", cc) \in Data /\ Boxed("jbrd", dd) \in Data
  <2> HIDE DEF cc, dd
  <2> QED BY <1>1, BoxedData
<1>3. a \in Data /\ b \in Data /\ c \in Data /\ d \in Data
  <2> HIDE DEF cc, dd
  <2> QED BY <1>1, <1>2
<1>4. WholeHeader = ((a \o b) \o c) \o d
  BY DEF WholeHeader
<1>5. job.container \in BOOLEAN /\ job.level10 \in BOOLEAN /\ PartialHeader \in BOOLEAN
      /\ (PartialHeader => job.container)
  BY JobFacts DEF PartialHeader, IsFrame
<1> DEFINE oc == AppendBox("jxlp", InOneBuffer(cc))
           od == AppendBox("jbrd", AppendData(dd))
           pb == p + Len(a)
           pc == pb + Len(b)
           pd == pc + Len(c)
           pe == pd + Len(d)
<1>6. Len(a) \in Nat /\ Len(b) \in Nat /\ Len(c) \in Nat /\ Len(d) \in Nat
      /\ pb \in Nat /\ pc \in Nat /\ pd \in Nat /\ pe \in Nat
  <2> HIDE DEF a, b, c, d
  <2> QED BY <1>3, LenData
<1>7. p + Len(WholeHeader) = pe /\ Matches(a, p) /\ Matches(b, pb) /\ Matches(c, pc) /\ Matches(d, pd)
  <2> HIDE DEF a, b, c, d
  <2>1. a \o b \in Data /\ Len(a \o b) = Len(a) + Len(b)
    BY <1>3, ConcatIsData
  <2>2. (a \o b) \o c \in Data /\ Len((a \o b) \o c) = Len(a \o b) + Len(c)
    BY <1>3, <2>1, ConcatIsData
  <2>3. Len(((a \o b) \o c) \o d) = Len((a \o b) \o c) + Len(d)
    BY <1>3, <2>2, ConcatIsData
  <2>4. Matches((a \o b) \o c, p) /\ Matches(d, p + Len((a \o b) \o c))
    BY <1>3, <1>4, <2>2, MatchesConcat
  <2>5. Matches(a \o b, p) /\ Matches(c, p + Len(a \o b))
    BY <1>3, <2>1, <2>4, MatchesConcat
  <2>6. Matches(a, p) /\ Matches(b, p + Len(a))
    BY <1>3, <2>5, MatchesConcat
  <2>7. p + Len(a \o b) = pc /\ p + Len((a \o b) \o c) = pd
    BY <1>6, <2>1, <2>2
  <2> QED BY <1>4, <1>6, <2>1, <2>2, <2>3, <2>4, <2>5, <2>6, <2>7
<1>8. CASE ~ job.container
  <2>1. a = <<>> /\ b = <<>> /\ c = <<>> /\ d = <<>> /\ HeaderBoxes = <<>>
    BY <1>5, <1>8 DEF HeaderBoxes
  <2> HIDE DEF a, b, c, d
  <2>2. p + Len(WholeHeader) = p
    BY <1>1, <1>7, <2>1
  <2> QED BY <2>1, <2>2, NoHoles, RouteNothing
<1>9. CASE job.container
  <2>1. a = Signature /\ Route(<<InOneBuffer(Signature)>>, At(p, <<>>), At(pb, <<>>))
    <3>1. a = Signature
      BY <1>9
    <3>2. Matches(Signature, p)
      BY <1>7, <3>1
    <3>3. Route(<<InOneBuffer(Signature)>>, At(p, <<>>), At(p + Len(Signature), <<>>))
      BY <1>1, <3>2, RouteExact
    <3> HIDE DEF a
    <3> QED BY <3>1, <3>3
  <2> DEFINE ob == IF job.level10 THEN <<InOneBuffer(LevelBox)>> ELSE <<>>
             oc2 == IF PartialHeader THEN oc ELSE <<>>
             od2 == IF HasReconstruction THEN od ELSE <<>>
  <2>2. Route(ob, At(pb, <<>>), At(pc, <<>>))
    <3>1. CASE job.level10
      <4>1. b = LevelBox /\ ob = <<InOneBuffer(LevelBox)>>
        BY <1>9, <3>1
      <4> HIDE DEF b, ob, pb
      <4>2. Route(<<InOneBuffer(LevelBox)>>, At(pb, <<>>), At(pb + Len(LevelBox), <<>>))
        BY <1>1, <1>6, <1>7, <4>1, RouteExact
      <4> QED BY <4>1, <4>2
    <3>2. CASE ~ job.level10
      <4>1. b = <<>> /\ ob = <<>>
        BY <3>2
      <4> HIDE DEF b, ob, pb
      <4>2. pc = pb
        BY <1>1, <1>6, <4>1
      <4> QED BY <1>6, <4>1, <4>2, NoHoles, RouteNothing
    <3> QED BY <3>1, <3>2
  <2>3. Route(oc2, At(pc, <<>>), At(pd, <<>>))
    <3>1. CASE PartialHeader
      <4>1. c = Boxed("jxlp", cc) /\ oc2 = oc
        BY <3>1
      <4> HIDE DEF c, cc, oc2, pc
      <4>2. Route(AppendBox("jxlp", [op |-> "exact", data |-> cc]), At(pc, <<>>),
                  At(pc + Len(Boxed("jxlp", cc)), <<>>))
        BY <1>1, <1>6, <1>7, <4>1, RouteAppendBox
      <4> QED BY <4>1, <4>2 DEF InOneBuffer
    <3>2. CASE ~ PartialHeader
      <4>1. c = <<>> /\ oc2 = <<>>
        BY <3>2
      <4> HIDE DEF c, oc2, pc
      <4>2. pd = pc
        BY <1>1, <1>6, <4>1
      <4> QED BY <1>6, <4>1, <4>2, NoHoles, RouteNothing
    <3> QED BY <3>1, <3>2
  <2>4. Route(od2, At(pd, <<>>), At(pe, <<>>))
    <3>1. CASE HasReconstruction
      <4>1. d = Boxed("jbrd", dd) /\ od2 = od
        BY <1>9, <3>1
      <4> HIDE DEF d, dd, od2, pd
      <4>2. Route(AppendBox("jbrd", [op |-> "append", data |-> dd]), At(pd, <<>>),
                  At(pd + Len(Boxed("jbrd", dd)), <<>>))
        BY <1>1, <1>6, <1>7, <4>1, RouteAppendBox
      <4> QED BY <4>1, <4>2 DEF AppendData
    <3>2. CASE ~ HasReconstruction
      <4>1. d = <<>> /\ od2 = <<>>
        BY <3>2
      <4> HIDE DEF d, od2, pd
      <4>2. pe = pd
        BY <1>1, <1>6, <4>1
      <4> QED BY <1>6, <4>1, <4>2, NoHoles, RouteNothing
    <3> QED BY <3>1, <3>2
  <2>5. HeaderBoxes = ((<<InOneBuffer(Signature)>> \o ob) \o oc2) \o od2
    BY <1>9 DEF HeaderBoxes
  <2> HIDE DEF ob, oc2, od2, pb, pc, pd, pe
  <2>6. Route(<<InOneBuffer(Signature)>> \o ob, At(p, <<>>), At(pc, <<>>))
    BY <2>1, <2>2, RouteJoin
  <2>7. Route((<<InOneBuffer(Signature)>> \o ob) \o oc2, At(p, <<>>), At(pd, <<>>))
    BY <2>3, <2>6, RouteJoin
  <2>8. Route(((<<InOneBuffer(Signature)>> \o ob) \o oc2) \o od2, At(p, <<>>), At(pe, <<>>))
    BY <2>4, <2>7, RouteJoin
  <2> QED BY <1>7, <2>5, <2>8
<1> QED BY <1>5, <1>8, <1>9

-----------------------------------------------------------------------------
(* Every input ends with a Finalize.                                       *)

Ends(orders) == orders # <<>> /\ orders[Len(orders)].op = "finalize"

LEMMA EndsJoin ==
  ASSUME NEW S, NEW s \in Seq(S), NEW t \in Seq(S), Ends(t)
  PROVE  Ends(s \o t)
<1>1. Len(t) \in Nat \ {0} /\ Len(s) \in Nat /\ Len(s \o t) = Len(s) + Len(t)
  BY DEF Ends
<1>2. s \o t # <<>> /\ (s \o t)[Len(s) + Len(t)] = t[Len(t)]
  BY <1>1
<1> QED BY <1>1, <1>2 DEF Ends

LEMMA EndsFinalize == <<Finalize>> \in Seq(OrderSet) /\ Ends(<<Finalize>>)
<1>1. Finalize \in OrderSet /\ Finalize.op = "finalize"
  BY DEF Finalize, OrderSet
<1>2. <<Finalize>> # <<>> /\ Len(<<Finalize>>) = 1 /\ <<Finalize>>[1] = Finalize
  OBVIOUS
<1> QED BY <1>1, <1>2 DEF Ends

LEMMA EndsAppendBox ==
  ASSUME NEW type, NEW contents
  PROVE  Ends(AppendBox(type, contents))
<1>1. AppendBox(type, contents) = <<Hole(HeaderSize), contents, BackToBox(type), End, Finalize>>
  BY DEF AppendBox
<1>2. Len(AppendBox(type, contents)) = 5 /\ AppendBox(type, contents)[5] = Finalize
      /\ AppendBox(type, contents) # <<>>
  BY <1>1
<1>3. Finalize.op = "finalize"
  BY DEF Finalize
<1> QED BY <1>2, <1>3 DEF Ends

LEMMA RouteFrameOrders ==
  ASSUME job \in Jobs, NEW n \in 1 .. Len(job.inputs), IsFrame(job.inputs[n]),
         NEW number \in Nat, job.container => number = PartsBefore(n), NEW p \in Nat,
         Matches(WholeInput(n), p)
  PROVE  /\ Route(FrameOrders(n, number, LastFrame(n)), At(p, <<>>), At(p + Len(WholeInput(n)), <<>>))
         /\ Ends(FrameOrders(n, number, LastFrame(n)))
<1> DEFINE c == LastFrame(n) /\ job.index > 0
           data == Bytes("index", job.index)
           index == IF c THEN Boxed("jxli", data) ELSE <<>>
           io == IF c THEN AppendBox("jxli", AppendData(data)) ELSE <<>>
           w == FrameWrites(n, number)
           m == p + Len(FrameBytes(n))
<1>1. data \in Data /\ Boxed("jxli", data) \in Data /\ "jxli" \in Labels /\ <<>> \in Data /\ Len(<<>>) = 0
      /\ c \in BOOLEAN
  <2>1. data \in Data
    BY FixedData, JobFacts
  <2>2. "jxli" \in Labels
    BY DEF Labels
  <2> HIDE DEF data
  <2> QED BY <2>1, <2>2, BoxedData, EmptyData DEF LastFrame
<1>2. index \in Data
  <2> HIDE DEF data
  <2> QED BY <1>1
<1>3. WholeInput(n) = FrameBytes(n) \o index
  <2>1. CASE ~ job.container
    BY <2>1 DEF WholeInput, FrameBytes, Stream
  <2>2. CASE job.container /\ LastFrame(n) /\ PartsBefore(n) = 0
    BY <2>2 DEF WholeInput, FrameBytes, Stream
  <2>3. CASE job.container /\ ~ (LastFrame(n) /\ PartsBefore(n) = 0)
    <3>1. (IsFrame(job.inputs[n]) /\ LastFrame(n)) = LastFrame(n)
      BY DEF LastFrame
    <3> QED BY <2>3, <3>1 DEF WholeInput, FrameBytes, Stream
  <2> QED BY <2>1, <2>2, <2>3
<1>4. FrameBytes(n) \in Data
  <2>1. Stream(n) \in Data
    BY StreamData
  <2>2. CASE ~ job.container
    BY <2>1, <2>2 DEF FrameBytes
  <2>3. CASE job.container
    <3>1. LastFrame(n) \in BOOLEAN
      BY DEF LastFrame
    <3>2. FrameBytes(n) = IF LastFrame(n) /\ number = 0 THEN Boxed("jxlc", Stream(n))
                      ELSE Boxed("jxlp", Counter(number, LastFrame(n)) \o Stream(n))
      BY <2>3 DEF FrameBytes
    <3> QED BY <3>1, <3>2, FrameInBox
  <2> QED BY <2>2, <2>3
<1>5. /\ Len(FrameBytes(n)) \in Nat /\ Len(index) \in Nat /\ m \in Nat
      /\ p + Len(WholeInput(n)) = m + Len(index)
  <2> HIDE DEF index
  <2>1. Len(FrameBytes(n)) \in Nat /\ Len(index) \in Nat
    BY <1>2, <1>4, LenData
  <2>2. Len(FrameBytes(n) \o index) = Len(FrameBytes(n)) + Len(index)
    BY <1>2, <1>4, ConcatIsData
  <2> QED BY <1>3, <2>1, <2>2
<1>6. Matches(FrameBytes(n), p) /\ Matches(index, m)
  <2> HIDE DEF index
  <2> QED BY <1>2, <1>3, <1>4, MatchesConcat
<1>7. Route(w, At(p, <<>>), At(m, <<>>))
  BY <1>6, RouteFrameWrites
<1>8. Route(<<Finalize>>, At(m, <<>>), At(m, <<>>))
  BY <1>5, RouteFinalize
<1>9. Route(io, At(m, <<>>), At(m + Len(index), <<>>)) /\ (io = <<>> \/ Ends(io))
  <2>1. CASE c
    <3>1. index = Boxed("jxli", data) /\ io = AppendBox("jxli", AppendData(data))
      BY <2>1
    <3> HIDE DEF index, io, data, m
    <3>2. Route(AppendBox("jxli", [op |-> "append", data |-> data]), At(m, <<>>),
                At(m + Len(Boxed("jxli", data)), <<>>))
      BY <1>1, <1>5, <1>6, <3>1, RouteAppendBox
    <3> QED BY <3>1, <3>2, EndsAppendBox DEF AppendData
  <2>2. CASE ~ c
    <3>1. index = <<>> /\ io = <<>>
      BY <2>2
    <3> HIDE DEF index, io, m
    <3>2. m + Len(index) = m
      BY <1>1, <1>5, <3>1
    <3> QED BY <1>5, <3>1, <3>2, NoHoles, RouteNothing
  <2> QED BY <1>1, <2>1, <2>2
<1>10. FrameOrders(n, number, LastFrame(n)) = (w \o <<Finalize>>) \o io
  BY DEF FrameOrders, FrameWrites, StreamOrders
<1> HIDE DEF w, m, io, index
<1>11. Route(w \o <<Finalize>>, At(p, <<>>), At(m, <<>>))
  BY <1>7, <1>8, RouteJoin
<1>12. Route((w \o <<Finalize>>) \o io, At(p, <<>>), At(m + Len(index), <<>>))
  BY <1>9, <1>11, RouteJoin
<1>13. Ends((w \o <<Finalize>>) \o io)
  <2>1. w \in Seq(OrderSet) /\ <<Finalize>> \in Seq(OrderSet) /\ w \o <<Finalize>> \in Seq(OrderSet)
        /\ io \in Seq(OrderSet)
    BY <1>7, <1>8, <1>9, <1>11 DEF Route
  <2>2. Ends(w \o <<Finalize>>)
    BY <2>1, EndsFinalize, EndsJoin
  <2>3. CASE io = <<>>
    <3>1. (w \o <<Finalize>>) \o io = w \o <<Finalize>>
      BY <2>1, <2>3
    <3> QED BY <2>2, <3>1
  <2>4. CASE Ends(io)
    BY <2>1, <2>4, EndsJoin
  <2> QED BY <1>9, <2>3, <2>4
<1> QED BY <1>5, <1>10, <1>12, <1>13

LEMMA RouteOrders ==
  ASSUME job \in Jobs, NEW n \in 1 .. Len(job.inputs),
         NEW number \in Nat, job.container /\ IsFrame(job.inputs[n]) => number = PartsBefore(n)
  PROVE  /\ Route(Orders(n, number), At(Len(UpTo[n - 1]), <<>>), At(Len(UpTo[n]), <<>>))
         /\ Ends(Orders(n, number))
<1> DEFINE p == Len(UpTo[n - 1])
           x == job.inputs[n]
           header == IF n = 1 THEN WholeHeader ELSE <<>>
           ho == IF n = 1 THEN HeaderBoxes ELSE <<>>
           m == p + Len(header)
           e == Len(UpTo[n])
           o == IF IsFrame(x) THEN FrameOrders(n, number, LastFrame(n)) ELSE BoxOrders(x)
<1>1. /\ p \in Nat /\ header \in Data /\ Len(header) \in Nat
      /\ Matches(header, p) /\ Matches(WholeInput(n), m)
      /\ e = m + Len(WholeInput(n))
  BY InputPlace
<1>2. m \in Nat
  <2> HIDE DEF p, header
  <2> QED BY <1>1
<1>3. Route(ho, At(p, <<>>), At(m, <<>>))
  <2>1. CASE n = 1
    <3>1. ho = HeaderBoxes /\ header = WholeHeader
      BY <2>1
    <3> HIDE DEF ho, header, p
    <3>2. Route(HeaderBoxes, At(p, <<>>), At(p + Len(WholeHeader), <<>>))
      BY <1>1, <3>1, RouteHeaderBoxes
    <3> QED BY <3>1, <3>2
  <2>2. CASE n # 1
    <3>1. ho = <<>> /\ header = <<>>
      BY <2>2
    <3> HIDE DEF ho, header, p
    <3>2. m = p
      BY <1>1, <3>1, EmptyData
    <3> QED BY <1>1, <3>1, <3>2, NoHoles, RouteNothing
  <2> QED BY <2>1, <2>2
<1>4. Route(<<Finalize>>, At(m, <<>>), At(m, <<>>))
  BY <1>2, RouteFinalize
<1>5. Route(o, At(m, <<>>), At(e, <<>>)) /\ Ends(o)
  <2> HIDE DEF m, e
  <2>1. CASE IsFrame(x)
    <3>1. o = FrameOrders(n, number, LastFrame(n))
      BY <2>1
    <3> HIDE DEF o
    <3>2. /\ Route(FrameOrders(n, number, LastFrame(n)), At(m, <<>>), At(m + Len(WholeInput(n)), <<>>))
          /\ Ends(FrameOrders(n, number, LastFrame(n)))
      BY <1>1, <1>2, <2>1, RouteFrameOrders
    <3> QED BY <1>1, <3>1, <3>2
  <2>2. CASE ~ IsFrame(x)
    <3> DEFINE data == Bytes(x.name, x.size)
    <3>1. x.name \in Labels /\ x.size \in Nat
      BY JobFacts
    <3>2. data \in Data
      <4>1. x.name \in Names
        BY <3>1 DEF Names
      <4> QED BY <3>1, <4>1, BytesAreData
    <3>3. o = AppendBox(x.name, [op |-> "append", data |-> data]) /\ WholeInput(n) = Boxed(x.name, data)
      BY <2>2 DEF BoxOrders, AppendData, WholeInput
    <3>4. Route(AppendBox(x.name, [op |-> "append", data |-> data]), At(m, <<>>),
                At(m + Len(Boxed(x.name, data)), <<>>))
      <4> HIDE DEF data, x
      <4> QED BY <1>1, <1>2, <3>1, <3>2, <3>3, RouteAppendBox
    <3> HIDE DEF o, data
    <3> QED BY <1>1, <3>3, <3>4, EndsAppendBox
  <2> QED BY <2>1, <2>2
<1>6. Orders(n, number) = (ho \o <<Finalize>>) \o o
  BY DEF Orders
<1> HIDE DEF ho, o, m, p, e
<1>7. Route(ho \o <<Finalize>>, At(p, <<>>), At(m, <<>>))
  BY <1>3, <1>4, RouteJoin
<1>8. Route((ho \o <<Finalize>>) \o o, At(p, <<>>), At(e, <<>>))
  BY <1>5, <1>7, RouteJoin
<1>9. Ends((ho \o <<Finalize>>) \o o)
  <2>1. ho \o <<Finalize>> \in Seq(OrderSet) /\ o \in Seq(OrderSet)
    BY <1>5, <1>7 DEF Route
  <2> QED BY <1>5, <2>1, EndsJoin
<1> QED BY <1>6, <1>8, <1>9 DEF p, e

-----------------------------------------------------------------------------
(* Places.                                                                 *)

LEMMA PlaceFacts ==
  ASSUME NEW a, GoodPlace(a)
  PROVE  /\ a.position \in Nat /\ a.holes \in Seq(Holes) /\ Len(a.holes) \in Nat
         /\ \A i \in 1 .. Len(a.holes) : /\ a.holes[i].start \in Nat /\ a.holes[i].after \in Nat
                                         /\ a.holes[i].end \in Nat
         /\ a.holes # <<>> => 1 \in 1 .. Len(a.holes)
         /\ a.holes = <<>> => Len(a.holes) = 0
<1>1. a.position \in Nat /\ a.holes \in Seq(Holes)
  BY DEF GoodPlace, Places
<1>2. \A i \in 1 .. Len(a.holes) : a.holes[i] \in Holes
  BY <1>1
<1>3. \A r \in Holes : r.start \in Nat /\ r.after \in Nat /\ r.end \in Nat
  BY DEF Holes
<1>4. Len(a.holes) \in Nat /\ (a.holes # <<>> => 1 \in 1 .. Len(a.holes)) /\ (a.holes = <<>> => Len(a.holes) = 0)
  BY <1>1
<1> QED BY <1>1, <1>2, <1>3, <1>4

LEMMA WrittenIs ==
  ASSUME NEW a, GoodPlace(a), NEW q
  PROVE  q \in WrittenAt(a) <=>
           q \in Nat /\ q < Frontier(a) /\ \A i \in 1 .. Len(a.holes) : ~ InGap(a, i, q)
<1>1. Frontier(a) \in Nat
  BY PlaceFacts DEF Frontier, InHeader
<1> QED BY <1>1 DEF WrittenAt

LEMMA NothingOpen ==
  ASSUME NEW a, GoodPlace(a), a.holes = <<>>
  PROVE  \A q : q \in WrittenAt(a) <=> q \in Nat /\ q < a.position
<1>1. Len(a.holes) = 0 /\ Frontier(a) = a.position
  BY PlaceFacts DEF Frontier, InHeader
<1>2. \A q : q \in WrittenAt(a) <=> q \in Nat /\ q < Frontier(a) /\ \A i \in 1 .. Len(a.holes) : ~ InGap(a, i, q)
  BY WrittenIs
<1> QED BY <1>1, <1>2

LEMMA PlaceWrite ==
  ASSUME NEW a, GoodPlace(a), NEW n \in Nat,
         InHeader(a) => a.position + n <= a.holes[1].after,
         NEW b \in Places, b.position = a.position + n, b.holes = a.holes
  PROVE  /\ GoodPlace(b) /\ (InHeader(b) <=> InHeader(a))
         /\ \A q : q \in WrittenAt(b) <=>
                     q \in WrittenAt(a) \/ (q \in Nat /\ a.position <= q /\ q < a.position + n)
         /\ \A q \in WrittenAt(a) : ~ (a.position <= q /\ q < a.position + n)
<1> DEFINE p == a.position
           h == a.holes
           N == 1 .. Len(h)
<1>1. /\ p \in Nat /\ h \in Seq(Holes) /\ Len(h) \in Nat
      /\ \A i \in N : h[i].start \in Nat /\ h[i].after \in Nat /\ h[i].end \in Nat
      /\ h # <<>> => 1 \in N
      /\ h = <<>> => Len(h) = 0
  BY PlaceFacts
<1>2. /\ \A i \in N : h[i].start < h[i].after
      /\ \A i, j \in N : i < j => h[j].after <= h[i].start /\ h[j].end = 0
      /\ h # <<>> => IF InHeader(a) THEN h[1].start <= p /\ p <= h[1].after /\ h[1].after <= h[1].end
                     ELSE h[1].after <= p
  BY DEF GoodPlace
<1>3. b.position = p + n /\ b.holes = h /\ (InHeader(b) <=> InHeader(a)) /\ b \in Places
  BY <1>1 DEF InHeader
<1>4. GoodPlace(b)
  BY <1>1, <1>2, <1>3 DEF GoodPlace
<1>5. InHeader(a) => h # <<>> /\ 1 \in N
  BY <1>1 DEF InHeader
<1>6. ASSUME NEW q \in Nat
      PROVE  /\ q \in WrittenAt(b) <=> q \in WrittenAt(a) \/ (p <= q /\ q < p + n)
             /\ q \in WrittenAt(a) => ~ (p <= q /\ q < p + n)
  <2>1. /\ q \in WrittenAt(a) <=> q < Frontier(a) /\ \A i \in N : ~ InGap(a, i, q)
        /\ q \in WrittenAt(b) <=> q < Frontier(b) /\ \A i \in N : ~ InGap(b, i, q)
    BY <1>3, <1>4, WrittenIs
  <2>2. CASE InHeader(a)
    <3>1. Frontier(a) = h[1].end /\ Frontier(b) = h[1].end
      BY <1>3, <2>2 DEF Frontier
    <3>2. \A i \in N : i # 1 => /\ InGap(b, i, q) <=> InGap(a, i, q)
                                /\ InGap(a, i, q) => q < p
      BY <1>1, <1>2, <1>3, <1>5, <2>2 DEF InGap, GapStart
    <3>3. InGap(b, 1, q) <=> p + n <= q /\ q < h[1].after
      BY <1>3, <2>2 DEF InGap, GapStart
    <3>4. InGap(a, 1, q) <=> p <= q /\ q < h[1].after
      BY <2>2 DEF InGap, GapStart
    <3>5. h[1].after \in Nat /\ h[1].end \in Nat /\ h[1].after <= h[1].end /\ p + n <= h[1].after
      BY <1>1, <1>2, <1>5, <2>2
    <3>6. (\A i \in N : ~ InGap(b, i, q)) <=> ~ InGap(b, 1, q) /\ \A i \in N : i # 1 => ~ InGap(a, i, q)
      BY <1>5, <2>2, <3>2
    <3>7. (\A i \in N : ~ InGap(a, i, q)) <=> ~ InGap(a, 1, q) /\ \A i \in N : i # 1 => ~ InGap(a, i, q)
      BY <1>5, <2>2
    <3>8. p <= q => \A i \in N : i # 1 => ~ InGap(a, i, q)
      BY <1>1, <3>2
    <3> QED BY <1>1, <2>1, <3>1, <3>3, <3>4, <3>5, <3>6, <3>7, <3>8
  <2>3. CASE ~ InHeader(a)
    <3>1. Frontier(a) = p /\ Frontier(b) = p + n
      BY <1>3, <2>3 DEF Frontier
    <3>2. \A i \in N : (InGap(b, i, q) <=> InGap(a, i, q))
      BY <1>3, <2>3 DEF InGap, GapStart
    <3>3. \A i \in N : h[i].after <= p
      <4> TAKE i \in N
      <4>1. h # <<>> /\ h[1].after <= p /\ 1 \in N
        BY <1>1, <1>2, <2>3
      <4>2. CASE i = 1
        BY <4>1, <4>2
      <4>3. CASE 1 < i
        <5>1. h[i].after <= h[1].start /\ h[1].start < h[1].after
          BY <1>2, <4>1, <4>3
        <5> QED BY <1>1, <4>1, <5>1
      <4> QED BY <1>1, <4>2, <4>3
    <3>4. p <= q => \A i \in N : ~ InGap(a, i, q)
      BY <1>1, <3>3 DEF InGap
    <3> QED BY <1>1, <2>1, <3>1, <3>2, <3>4
  <2> QED BY <2>2, <2>3
<1>7. \A q : (q \in WrittenAt(a) => q \in Nat) /\ (q \in WrittenAt(b) => q \in Nat)
  BY <1>4, WrittenIs
<1>8. ASSUME NEW q
      PROVE  q \in WrittenAt(b) <=> q \in WrittenAt(a) \/ (q \in Nat /\ p <= q /\ q < p + n)
  <2>1. CASE q \in Nat
    <3> HIDE DEF p
    <3>1. q \in WrittenAt(b) <=> q \in WrittenAt(a) \/ (p <= q /\ q < p + n)
      BY <1>6, <2>1
    <3> QED BY <2>1, <3>1
  <2>2. CASE q \notin Nat
    BY <1>7, <2>2
  <2> QED BY <2>1, <2>2
<1>9. ASSUME NEW q \in WrittenAt(a)
      PROVE  ~ (p <= q /\ q < p + n)
  <2>1. q \in Nat
    BY <1>7
  <2> QED BY <1>6, <2>1
<1> QED BY <1>3, <1>4, <1>8, <1>9

LEMMA PlaceHole ==
  ASSUME NEW a, GoodPlace(a), ~ InHeader(a), NEW n \in Nat \ {0},
         NEW b \in Places, b.position = a.position + n,
         b.holes = <<Open(a.position, a.position + n)>> \o a.holes
  PROVE  GoodPlace(b) /\ WrittenAt(b) = WrittenAt(a)
<1> DEFINE p == a.position
           h == a.holes
           r == Open(p, p + n)
           k == <<r>> \o h
<1>1. /\ p \in Nat /\ h \in Seq(Holes) /\ Len(h) \in Nat
      /\ \A i \in 1 .. Len(h) : h[i].start \in Nat /\ h[i].after \in Nat /\ h[i].end \in Nat
      /\ h # <<>> => 1 \in 1 .. Len(h)
      /\ h = <<>> => Len(h) = 0
  BY PlaceFacts
<1>2. /\ \A i \in 1 .. Len(h) : h[i].start < h[i].after
      /\ \A i, j \in 1 .. Len(h) : i < j => h[j].after <= h[i].start /\ h[j].end = 0
      /\ h # <<>> => h[1].after <= p /\ h[1].end = 0
  BY DEF GoodPlace, InHeader
<1>3. r \in Holes /\ r.start = p /\ r.after = p + n /\ r.end = 0
  BY <1>1, RoomsAre
<1> HIDE DEF r
<1>4. /\ k \in Seq(Holes) /\ k # <<>> /\ k[1] = r /\ Len(k) = Len(h) + 1
      /\ \A i \in 2 .. Len(h) + 1 : k[i] = h[i - 1]
  BY <1>1, <1>3, InnerRoom
<1> HIDE DEF k
<1>5. b.position = p + n /\ b.holes = k
  BY DEF k, r
<1>6. b \in Places /\ ~ InHeader(b)
  BY <1>3, <1>4, <1>5 DEF InHeader
<1>7. \A i \in 1 .. Len(h) : h[i].after <= p /\ h[i].end = 0
  <2> TAKE i \in 1 .. Len(h)
  <2>1. h # <<>> /\ h[1].after <= p /\ h[1].end = 0 /\ 1 \in 1 .. Len(h)
    BY <1>1, <1>2
  <2>2. CASE i = 1
    BY <2>1, <2>2
  <2>3. CASE 1 < i
    <3>1. h[i].after <= h[1].start /\ h[1].start < h[1].after /\ h[i].end = 0
      BY <1>2, <2>1, <2>3
    <3>2. h[1].start \in Nat /\ h[1].after \in Nat /\ h[i].after \in Nat /\ p \in Nat
      BY <1>1, <2>1
    <3> HIDE DEF p, h
    <3>3. h[i].after <= p
      BY <2>1, <3>1, <3>2
    <3> QED BY <3>1, <3>3
  <2> QED BY <1>1, <2>2, <2>3
<1>8. \A i \in 2 .. Len(h) + 1 : i - 1 \in 1 .. Len(h)
  BY <1>1
<1>9. \A i \in 1 .. Len(k) : i = 1 \/ i \in 2 .. Len(h) + 1
  BY <1>1, <1>4
<1>10. GoodPlace(b)
  <2>1. \A i \in 1 .. Len(k) : k[i].start < k[i].after
    <3> TAKE i \in 1 .. Len(k)
    <3>1. CASE i = 1
      BY <1>1, <1>3, <1>4, <3>1
    <3>2. CASE i \in 2 .. Len(h) + 1
      BY <1>2, <1>4, <1>8, <3>2
    <3> QED BY <1>9, <3>1, <3>2
  <2>2. ASSUME NEW i \in 1 .. Len(k), NEW j \in 1 .. Len(k), i < j
        PROVE  k[j].after <= k[i].start /\ k[j].end = 0
    <3>1. j \in 2 .. Len(h) + 1 /\ k[j] = h[j - 1] /\ j - 1 \in 1 .. Len(h)
      BY <1>4, <1>8, <1>9, <2>2
    <3>2. CASE i = 1
      BY <1>3, <1>4, <1>7, <3>1, <3>2
    <3>3. CASE i \in 2 .. Len(h) + 1
      <4>1. k[i] = h[i - 1] /\ i - 1 \in 1 .. Len(h) /\ i - 1 < j - 1
        BY <1>4, <1>8, <2>2, <3>1, <3>3
      <4> QED BY <1>2, <3>1, <4>1
    <3> QED BY <1>9, <3>2, <3>3
  <2>3. b.holes[1].after <= b.position
    BY <1>1, <1>3, <1>4, <1>5
  <2>4. \A i \in 1 .. Len(b.holes) : b.holes[i].start < b.holes[i].after
    BY <1>5, <2>1
  <2>5. \A i, j \in 1 .. Len(b.holes) : i < j => b.holes[j].after <= b.holes[i].start /\ b.holes[j].end = 0
    <3> SUFFICES ASSUME NEW i \in 1 .. Len(k), NEW j \in 1 .. Len(k), i < j
                 PROVE  k[j].after <= k[i].start /\ k[j].end = 0
      BY <1>5
    <3> QED BY <2>2
  <2> QED BY <1>6, <2>3, <2>4, <2>5 DEF GoodPlace
<1>11. ASSUME NEW q \in Nat
       PROVE  q \in WrittenAt(b) <=> q \in WrittenAt(a)
  <2>1. /\ q \in WrittenAt(a) <=> q < p /\ \A i \in 1 .. Len(h) : ~ InGap(a, i, q)
        /\ q \in WrittenAt(b) <=> q < p + n /\ \A i \in 1 .. Len(k) : ~ InGap(b, i, q)
    BY <1>5, <1>6, <1>10, WrittenIs DEF Frontier
  <2>2. InGap(b, 1, q) <=> p <= q /\ q < p + n
    BY <1>3, <1>4, <1>5, <1>6 DEF InGap, GapStart
  <2>3. \A i \in 2 .. Len(h) + 1 : InGap(b, i, q) <=> InGap(a, i - 1, q)
    <3> TAKE i \in 2 .. Len(h) + 1
    <3>1. k[i] = h[i - 1]
      BY <1>4
    <3> QED BY <1>5, <1>6, <3>1 DEF InGap, GapStart
  <2>4. (\A i \in 1 .. Len(k) : ~ InGap(b, i, q)) <=> ~ InGap(b, 1, q) /\ \A i \in 1 .. Len(h) : ~ InGap(a, i, q)
    <3>1. ASSUME \A i \in 1 .. Len(k) : ~ InGap(b, i, q)
          PROVE  ~ InGap(b, 1, q) /\ \A i \in 1 .. Len(h) : ~ InGap(a, i, q)
      <4>1. 1 \in 1 .. Len(k)
        BY <1>1, <1>4
      <4>2. \A i \in 1 .. Len(h) : i + 1 \in 2 .. Len(h) + 1 /\ i + 1 \in 1 .. Len(k) /\ (i + 1) - 1 = i
        BY <1>1, <1>4
      <4>3. ASSUME NEW i \in 1 .. Len(h) PROVE ~ InGap(a, i, q)
        <5>1. ~ InGap(b, i + 1, q) /\ (InGap(b, i + 1, q) <=> InGap(a, (i + 1) - 1, q)) /\ (i + 1) - 1 = i
          BY <2>3, <3>1, <4>2
        <5> QED BY <5>1
      <4> QED BY <3>1, <4>1, <4>3
    <3>2. ASSUME ~ InGap(b, 1, q), \A i \in 1 .. Len(h) : ~ InGap(a, i, q)
          PROVE  \A i \in 1 .. Len(k) : ~ InGap(b, i, q)
      BY <1>8, <1>9, <2>3, <3>2
    <3> QED BY <3>1, <3>2
  <2>5. q \in WrittenAt(b) <=> q < p + n /\ ~ (p <= q /\ q < p + n) /\ \A i \in 1 .. Len(h) : ~ InGap(a, i, q)
    BY <2>1, <2>2, <2>4
  <2>6. (q < p + n /\ ~ (p <= q /\ q < p + n)) <=> q < p
    BY <1>1
  <2> QED BY <2>1, <2>5, <2>6
<1>12. \A q : (q \in WrittenAt(a) => q \in Nat) /\ (q \in WrittenAt(b) => q \in Nat)
  BY <1>10, WrittenIs
<1> QED BY <1>10, <1>11, <1>12

LEMMA PlaceBack ==
  ASSUME NEW a, GoodPlace(a), ~ InHeader(a), a.holes # <<>>,
         NEW b \in Places, b.position = a.holes[1].start, b.holes = Closed(a.holes, a.position)
  PROVE  GoodPlace(b) /\ InHeader(b) /\ WrittenAt(b) = WrittenAt(a)
<1> DEFINE p == a.position
           h == a.holes
           r == [h[1] EXCEPT !.end = p]
           k == [h EXCEPT ![1] = r]
           N == 1 .. Len(h)
<1>1. /\ p \in Nat /\ h \in Seq(Holes) /\ Len(h) \in Nat /\ 1 \in N
      /\ \A i \in N : h[i].start \in Nat /\ h[i].after \in Nat /\ h[i].end \in Nat
  BY PlaceFacts
<1>2. /\ \A i \in N : h[i].start < h[i].after
      /\ \A i, j \in N : i < j => h[j].after <= h[i].start /\ h[j].end = 0
      /\ h[1].after <= p
  BY DEF GoodPlace
<1>3. r \in Holes /\ r.start = h[1].start /\ r.after = h[1].after /\ r.end = p
  <2>1. h[1] \in Holes
    BY <1>1
  <2> QED BY <1>1, <2>1 DEF Holes
<1>4. b.position = h[1].start /\ b.holes = k
  BY DEF Closed
<1>5. k \in Seq(Holes) /\ Len(k) = Len(h)
  <2> HIDE DEF r
  <2> QED BY <1>1, <1>3, ExceptSeq
<1>6. k[1] = r /\ \A i \in N : i # 1 => k[i] = h[i]
  BY <1>1
<1> HIDE DEF k, r
<1>8. b \in Places /\ InHeader(b)
  <2>2. k # <<>> /\ k[1].end # 0
    BY <1>1, <1>2, <1>3, <1>5, <1>6
  <2> QED BY <1>4, <2>2 DEF InHeader
<1>9. \A i \in N : k[i].start = h[i].start /\ k[i].after = h[i].after /\ (i # 1 => k[i].end = h[i].end)
  <2> TAKE i \in N
  <2>1. CASE i = 1
    BY <1>3, <1>6, <2>1
  <2>2. CASE i # 1
    BY <1>6, <2>2
  <2> QED BY <2>1, <2>2
<1>10. GoodPlace(b)
  <2>1. \A i \in 1 .. Len(k) : k[i].start < k[i].after
    BY <1>2, <1>5, <1>9
  <2>2. \A i, j \in 1 .. Len(k) : i < j => k[j].after <= k[i].start /\ k[j].end = 0
    <3> SUFFICES ASSUME NEW i \in N, NEW j \in N, i < j PROVE k[j].after <= k[i].start /\ k[j].end = 0
      BY <1>5
    <3>1. j # 1
      BY <1>1
    <3> QED BY <1>2, <1>9, <3>1
  <2>3. /\ b.holes[1].start <= b.position /\ b.position <= b.holes[1].after
        /\ b.holes[1].after <= b.holes[1].end
    <3>1. h[1].start \in Nat /\ h[1].after \in Nat /\ h[1].start < h[1].after
      BY <1>1, <1>2
    <3> QED BY <1>2, <1>3, <1>4, <1>6, <3>1
  <2>4. \A i \in 1 .. Len(b.holes) : b.holes[i].start < b.holes[i].after
    BY <1>4, <2>1
  <2>5. \A i, j \in 1 .. Len(b.holes) : i < j => b.holes[j].after <= b.holes[i].start /\ b.holes[j].end = 0
    <3> HIDE DEF h
    <3> QED BY <1>4, <2>2
  <2> QED BY <1>8, <2>3, <2>4, <2>5 DEF GoodPlace
<1>11. ASSUME NEW q \in Nat
       PROVE  q \in WrittenAt(b) <=> q \in WrittenAt(a)
  <2>1. k[1].end = p
    BY <1>3, <1>6
  <2>2. /\ q \in WrittenAt(a) <=> q < p /\ \A i \in N : ~ InGap(a, i, q)
        /\ q \in WrittenAt(b) <=> q < p /\ \A i \in N : ~ InGap(b, i, q)
    BY <1>4, <1>5, <1>8, <1>10, <2>1, WrittenIs DEF Frontier
  <2>3. \A i \in N : InGap(b, i, q) <=> InGap(a, i, q)
    BY <1>4, <1>8, <1>9 DEF InGap, GapStart
  <2> QED BY <2>2, <2>3
<1>12. \A q : (q \in WrittenAt(a) => q \in Nat) /\ (q \in WrittenAt(b) => q \in Nat)
  BY <1>10, WrittenIs
<1> QED BY <1>8, <1>10, <1>11, <1>12

LEMMA PlaceEnd ==
  ASSUME NEW a, GoodPlace(a), InHeader(a), a.position = a.holes[1].after,
         NEW b \in Places, b.position = a.holes[1].end, b.holes = Tail(a.holes)
  PROVE  GoodPlace(b) /\ WrittenAt(b) = WrittenAt(a)
<1> DEFINE p == a.position
           h == a.holes
           k == Tail(h)
           N == 1 .. Len(h)
<1>1. /\ p \in Nat /\ h \in Seq(Holes) /\ Len(h) \in Nat /\ 1 \in N /\ h # <<>>
      /\ \A i \in N : h[i].start \in Nat /\ h[i].after \in Nat /\ h[i].end \in Nat
  BY PlaceFacts DEF InHeader
<1>2. /\ \A i \in N : h[i].start < h[i].after
      /\ \A i, j \in N : i < j => h[j].after <= h[i].start /\ h[j].end = 0
      /\ p = h[1].after /\ h[1].after <= h[1].end
  BY <1>1 DEF GoodPlace
<1>3. /\ k \in Seq(Holes) /\ Len(k) = Len(h) - 1
      /\ \A i \in 1 .. Len(h) - 1 : k[i] = h[i + 1] /\ i + 1 \in N /\ 1 < i + 1
  BY <1>1
<1>4. b.position = h[1].end /\ b.holes = k
  OBVIOUS
<1>5. b \in Places
  OBVIOUS
<1> HIDE DEF k
<1>6. \A i \in 1 .. Len(k) : k[i].end = 0 /\ k[i].after <= h[1].end /\ k[i].start < k[i].after
  <2> TAKE i \in 1 .. Len(k)
  <2>1. k[i] = h[i + 1] /\ i + 1 \in N /\ 1 < i + 1
    BY <1>3
  <2>2. h[i + 1].after <= h[1].start /\ h[i + 1].end = 0 /\ h[1].start < h[1].after
    BY <1>1, <1>2, <2>1
  <2> QED BY <1>1, <1>2, <2>1, <2>2
<1>7. ~ InHeader(b)
  <2>1. k # <<>> => 1 \in 1 .. Len(k)
    BY <1>1, <1>3
  <2> QED BY <1>4, <1>6, <2>1 DEF InHeader
<1>8. GoodPlace(b)
  <2>1. ASSUME NEW i \in 1 .. Len(k), NEW j \in 1 .. Len(k), i < j
        PROVE  k[j].after <= k[i].start /\ k[j].end = 0
    <3>1. k[i] = h[i + 1] /\ k[j] = h[j + 1] /\ i + 1 \in N /\ j + 1 \in N /\ i + 1 < j + 1
      BY <1>1, <1>3, <2>1
    <3> QED BY <1>2, <3>1
  <2>2. k # <<>> => 1 \in 1 .. Len(k)
    BY <1>1, <1>3
  <2> QED BY <1>4, <1>5, <1>6, <1>7, <2>1, <2>2 DEF GoodPlace
<1>9. ASSUME NEW q \in Nat
      PROVE  q \in WrittenAt(b) <=> q \in WrittenAt(a)
  <2>1. /\ q \in WrittenAt(a) <=> q < h[1].end /\ \A i \in N : ~ InGap(a, i, q)
        /\ q \in WrittenAt(b) <=> q < h[1].end /\ \A i \in 1 .. Len(k) : ~ InGap(b, i, q)
    BY <1>4, <1>7, <1>8, WrittenIs DEF Frontier
  <2>2. ~ InGap(a, 1, q)
    BY <1>1, <1>2 DEF InGap, GapStart
  <2>3. \A i \in 1 .. Len(k) : InGap(b, i, q) <=> InGap(a, i + 1, q)
    <3> TAKE i \in 1 .. Len(k)
    <3>1. k[i] = h[i + 1] /\ i + 1 # 1
      BY <1>3
    <3> QED BY <1>4, <1>7, <3>1 DEF InGap, GapStart
  <2>4. (\A i \in N : ~ InGap(a, i, q)) <=> \A i \in 1 .. Len(k) : ~ InGap(b, i, q)
    <3>1. ASSUME \A i \in N : ~ InGap(a, i, q)
          PROVE  \A i \in 1 .. Len(k) : ~ InGap(b, i, q)
      <4>1. \A i \in 1 .. Len(k) : i + 1 \in N
        BY <1>3
      <4> QED BY <2>3, <3>1, <4>1
    <3>2. ASSUME \A i \in 1 .. Len(k) : ~ InGap(b, i, q)
          PROVE  \A i \in N : ~ InGap(a, i, q)
      <4> TAKE i \in N
      <4>1. CASE i = 1
        BY <2>2, <4>1
      <4>2. CASE i # 1
        <5>1. i - 1 \in 1 .. Len(k) /\ (i - 1) + 1 = i
          BY <1>1, <1>3, <4>2
        <5> QED BY <2>3, <3>2, <5>1
      <4> QED BY <4>1, <4>2
    <3> QED BY <3>1, <3>2
  <2> QED BY <2>1, <2>4
<1>10. \A q : (q \in WrittenAt(a) => q \in Nat) /\ (q \in WrittenAt(b) => q \in Nat)
  BY <1>8, WrittenIs
<1> QED BY <1>8, <1>9, <1>10

-----------------------------------------------------------------------------
(* The job does not change, so the file does not.                          *)

LEMMA JobStays ==
  ASSUME job' = job
  PROVE  WholeFile' = WholeFile /\ UpTo' = UpTo
<1>1. UpTo' = UpTo
  BY DEF UpTo, WholeHeader, WholeInput, WholeBody, PartsBefore, PartialHeader,
     HasReconstruction, LastFrame, HeaderOf
<1> QED BY <1>1 DEF WholeFile

LEMMA PlanStays ==
  ASSUME job' = job, NEW t, NEW a, NEW b, t = todo', a = Here', b = Goal',
         Plan(t, a, b)
  PROVE  Plan(todo, Here, Goal)'
<1>1. WholeFile' = WholeFile
  BY JobStays
<1>2. PICK trace \in [0 .. Len(t) -> Places] : Leads(t, a, b, trace)
  BY DEF Plan
<1>3. trace \in [0 .. Len(todo') -> Places]
  BY <1>2
<1>4. Leads(todo, Here, Goal, trace)'
  <2>1. trace[0] = Here' /\ trace[Len(todo')] = Goal'
    BY <1>2 DEF Leads
  <2>2. ASSUME NEW k \in 1 .. Len(todo')
        PROVE  Fits(todo[k], trace[k - 1], trace[k])'
    <3>1. Fits(t[k], trace[k - 1], trace[k])
      BY <1>2, <2>2 DEF Leads
    <3>2. t[k] = todo'[k]
      OBVIOUS
    <3> QED BY <1>1, <3>1, <3>2
       DEF Fits, FitsWrite, FitsHole, FitsBack, FitsEnd, FitsFinalize, Matches
  <2> QED BY <2>1, <2>2 DEF Leads
<1> QED BY <1>3, <1>4 DEF Plan

LEMMA GoalStays ==
  ASSUME job' = job, processed' = processed
  PROVE  Goal' = Goal
BY JobStays DEF Goal

LEMMA HerePlace ==
  ASSUME TypeInv
  PROVE  Here \in Places /\ Here.position = position /\ Here.holes = holes
BY DEF TypeInv, Here, Places

\* What an order looks like.
LEMMA OrderIs ==
  ASSUME NEW o \in OrderSet
  PROVE  /\ o.op \in WriteOps \union {"hole", "back", "end", "finalize"}
         /\ o.op \in WriteOps => /\ o.data \in Data
                                 /\ o = [op |-> o.op, data |-> o.data]
                                 /\ \A d \in Data : [o EXCEPT !.data = d] \in OrderSet
                                 /\ \A d \in Data : [o EXCEPT !.data = d].op = o.op
                                 /\ \A d \in Data : [o EXCEPT !.data = d].data = d
         /\ o.op = "hole" => o.size \in Nat \ {0}
BY DEF OrderSet, WriteOps

LEMMA HeaderOrdersAre ==
  ASSUME NEW o \in OrderSet, o.op = "back", NEW n \in Nat
  PROVE  /\ HeaderOrders(o, n) \in Seq(OrderSet) /\ HeaderData(o, n) \in Data
         /\ \/ HeaderOrders(o, n) = <<>> /\ HeaderData(o, n) = <<>>
            \/ \E w \in OrderSet : /\ HeaderOrders(o, n) = <<w>> /\ w.op \in WriteOps \ {"packed"}
                                   /\ w.data = HeaderData(o, n)
<1>1. \/ o.header = "none"
      \/ o.header = "box" /\ o.type \in Labels
      \/ o.header = "frame" /\ o.number \in Nat /\ o.last \in BOOLEAN
  BY DEF OrderSet, WriteOps
<1>2. \A d \in Data : /\ AppendData(d) \in OrderSet /\ AppendData(d).op = "append" /\ AppendData(d).data = d
                      /\ InOneBuffer(d) \in OrderSet /\ InOneBuffer(d).op = "exact" /\ InOneBuffer(d).data = d
  BY DEF AppendData, InOneBuffer, OrderSet, WriteOps
<1>3. ASSUME NEW w \in OrderSet, HeaderOrders(o, n) = <<w>>, w.op \in {"append", "exact"}, w.data \in Data
      PROVE  /\ HeaderOrders(o, n) \in Seq(OrderSet) /\ HeaderData(o, n) \in Data
             /\ HeaderOrders(o, n) = <<w>> /\ w.op \in WriteOps \ {"packed"} /\ w.data = HeaderData(o, n)
  <2>1. <<w>> \in Seq(OrderSet) /\ <<w>> # <<>> /\ <<w>>[1] = w
    OBVIOUS
  <2> QED BY <1>3, <2>1 DEF HeaderData, WriteOps
<1>4. CASE o.header = "none"
  <2>1. HeaderOrders(o, n) = <<>>
    BY <1>4 DEF HeaderOrders
  <2>2. <<>> \in Seq(OrderSet)
    OBVIOUS
  <2> QED BY <2>1, <2>2, EmptyData DEF HeaderData
<1>5. CASE o.header = "box" /\ o.type \in Labels
  <2>1. BoxHeader(o.type, n) \in Data
    BY <1>5, BoxHeaderData
  <2>2. HeaderOrders(o, n) = <<InOneBuffer(BoxHeader(o.type, n))>>
    BY <1>5 DEF HeaderOrders
  <2> DEFINE w == InOneBuffer(BoxHeader(o.type, n))
  <2>3. w \in OrderSet /\ HeaderOrders(o, n) = <<w>> /\ w.op \in {"append", "exact"} /\ w.data \in Data
    BY <1>2, <2>1, <2>2
  <2> QED BY <1>3, <2>3
<1>6. CASE o.header = "frame" /\ o.number \in Nat /\ o.last \in BOOLEAN
  <2>1. FrameHeader(o.number, o.last, n) \in Data
    BY <1>6, FrameBack
  <2>2. HeaderOrders(o, n) = <<AppendData(FrameHeader(o.number, o.last, n))>>
    BY <1>6 DEF HeaderOrders, FrameHeader
  <2> DEFINE w == AppendData(FrameHeader(o.number, o.last, n))
  <2>3. w \in OrderSet /\ HeaderOrders(o, n) = <<w>> /\ w.op \in {"append", "exact"} /\ w.data \in Data
    BY <1>2, <2>1, <2>2
  <2> QED BY <1>3, <2>3
<1> QED BY <1>1, <1>4, <1>5, <1>6

LEMMA PlanStep ==
  ASSUME TypeInv, PlanInv, todo # <<>>
  PROVE  /\ Order \in OrderSet /\ Tail(todo) \in Seq(OrderSet)
         /\ \E b \in Places : Fits(Order, Here, b) /\ Plan(Tail(todo), b, Goal)
         /\ Tail(todo) # <<>> => Tail(todo)[Len(Tail(todo))].op = "finalize"
         /\ Order.op # "finalize" => Tail(todo) # <<>>
<1>1. todo \in Seq(OrderSet) /\ Plan(todo, Here, Goal) /\ todo[Len(todo)].op = "finalize"
  BY DEF TypeInv, PlanInv
<1>2. /\ Order \in OrderSet /\ Tail(todo) \in Seq(OrderSet) /\ Order = todo[1]
      /\ Len(Tail(todo)) = Len(todo) - 1 /\ Len(todo) \in Nat \ {0}
      /\ \A k \in 1 .. Len(todo) - 1 : Tail(todo)[k] = todo[k + 1]
  BY <1>1 DEF Order
<1>3. \E b \in Places : Fits(Order, Here, b) /\ Plan(Tail(todo), b, Goal)
  BY <1>1, PlanFirst DEF Order
<1>4. ASSUME Tail(todo) # <<>> PROVE Tail(todo)[Len(Tail(todo))].op = "finalize"
  <2>1. Len(todo) - 1 \in 1 .. Len(todo) - 1 /\ (Len(todo) - 1) + 1 = Len(todo)
    BY <1>2, <1>4
  <2> QED BY <1>1, <1>2, <2>1
<1>5. ASSUME Order.op # "finalize" PROVE Tail(todo) # <<>>
  <2>1. Len(todo) # 1
    BY <1>1, <1>2, <1>5
  <2> QED BY <1>2, <2>1
<1> QED BY <1>2, <1>3, <1>4, <1>5

\* Of the orders only the op says which way of fitting it is.
LEMMA FitsByOp ==
  ASSUME NEW o, NEW a, NEW b, Fits(o, a, b)
  PROVE  /\ o.op \in WriteOps => FitsWrite(o, a, b)
         /\ o.op = "hole" => FitsHole(o, a, b)
         /\ o.op = "back" => FitsBack(o, a, b)
         /\ o.op = "end" => FitsEnd(o, a, b)
         /\ o.op = "finalize" => FitsFinalize(o, a, b)
BY DEF Fits, FitsWrite, FitsHole, FitsBack, FitsEnd, FitsFinalize, WriteOps

\* The bytes of an order are the file's, and none of them is written yet.
LEMMA WriteHere ==
  ASSUME TypeInv, PlanInv, todo # <<>>, Order.op \in WriteOps
  PROVE  /\ Order.data \in Data /\ Len(Order.data) \in Nat
         /\ Matches(Order.data, position)
         /\ \A q \in position .. position + Len(Order.data) - 1 : q \notin Written
         /\ Order.op = "packed" => \A q \in Written : q < position
         /\ \A q \in Written : q \in Nat
<1>1. PICK b \in Places : Fits(Order, Here, b)
  BY PlanStep
<1>2. FitsWrite(Order, Here, b) /\ GoodPlace(Here) /\ Order \in OrderSet
  BY <1>1, PlanStep, FitsByOp DEF PlanInv
<1>3. Order.data \in Data /\ Len(Order.data) \in Nat
  BY <1>2, OrderIs, LenData
<1>4. Here.position = position /\ Here.holes = holes /\ position \in Nat
  BY HerePlace DEF TypeInv
<1>5. /\ Matches(Order.data, position)
      /\ InHeader(Here) => Order.op # "packed" /\ Here.position + Len(Order.data) <= Here.holes[1].after
      /\ b = [position |-> position + Len(Order.data), holes |-> holes]
  BY <1>2, <1>4 DEF FitsWrite
<1>6. b.position = Here.position + Len(Order.data) /\ b.holes = Here.holes
  BY <1>4, <1>5
<1>7. \A q \in WrittenAt(Here) : ~ (Here.position <= q /\ q < Here.position + Len(Order.data))
  BY <1>2, <1>3, <1>5, <1>6, PlaceWrite
<1>8. \A q \in position .. position + Len(Order.data) - 1 : q \notin Written
  BY <1>3, <1>4, <1>7 DEF Written
<1>9. ASSUME Order.op = "packed", NEW q \in Written PROVE q < position
  <2>1. Frontier(Here) = position
    BY <1>4, <1>5, <1>9 DEF Frontier
  <2> QED BY <1>2, <1>9, <2>1, WrittenIs DEF Written
<1>10. \A q \in Written : q \in Nat
  BY <1>2, WrittenIs DEF Written
<1> QED BY <1>3, <1>5, <1>8, <1>9, <1>10

-----------------------------------------------------------------------------
(* Each step is the next one of the plan.                                  *)

Filling(n) ==
  todo' = IF n = Len(Order.data) THEN Tail(todo)
          ELSE <<[Order EXCEPT !.data = Rest(@, n)]>> \o Tail(todo)

LEMMA RestIs ==
  ASSUME NEW d \in Data, NEW n \in 0 .. Len(d), NEW p \in Nat, Matches(d, p)
  PROVE  /\ Rest(d, n) \in Data /\ Len(Rest(d, n)) = Len(d) - n
         /\ Matches(Rest(d, n), p + n)
         /\ SubSeq(d, 1, n) \in Data /\ Len(SubSeq(d, 1, n)) = n
         /\ Matches(SubSeq(d, 1, n), p)
<1>1. Len(d) \in Nat
  BY LenData
<1>2. /\ Rest(d, n) \in Data /\ Len(Rest(d, n)) = Len(d) - n
      /\ \A k \in 1 .. Len(d) - n : Rest(d, n)[k] = d[n + k]
  <2>1. Rest(d, n) = SubSeq(d, n + 1, Len(d)) /\ n \in Nat /\ n <= Len(d)
    BY <1>1 DEF Rest
  <2>2. Rest(d, n) \in Data
    BY <1>1, <2>1 DEF Data
  <2>3. Len(Rest(d, n)) = Len(d) - n
    BY <1>1, <2>1 DEF Data
  <2>4. \A k \in 1 .. Len(d) - n : Rest(d, n)[k] = d[n + k]
    BY <1>1, <2>1 DEF Data
  <2> QED BY <2>2, <2>3, <2>4
<1>3. /\ SubSeq(d, 1, n) \in Data /\ Len(SubSeq(d, 1, n)) = n
      /\ \A k \in 1 .. n : SubSeq(d, 1, n)[k] = d[k]
  BY <1>1 DEF Data
<1>4. p + Len(d) <= Len(WholeFile) /\ \A k \in 1 .. Len(d) : WholeFile[p + k] = d[k]
  BY DEF Matches
<1>5. Len(WholeFile) \in Int
  <2>1. CASE Len(WholeFile) \in Int
    BY <2>1
  <2> QED BY <1>1, <1>4
<1>6. Matches(Rest(d, n), p + n)
  <2>1. \A k \in 1 .. Len(d) - n : n + k \in 1 .. Len(d) /\ p + (n + k) = (p + n) + k
    BY <1>1
  <2>2. \A k \in 1 .. Len(d) - n : WholeFile[(p + n) + k] = Rest(d, n)[k]
    BY <1>2, <1>4, <2>1
  <2>3. (p + n) + (Len(d) - n) = p + Len(d)
    BY <1>1
  <2> QED BY <1>2, <1>4, <2>2, <2>3 DEF Matches
<1>7. Matches(SubSeq(d, 1, n), p)
  <2>1. \A k \in 1 .. n : k \in 1 .. Len(d)
    BY <1>1
  <2>2. p + n <= Len(WholeFile)
    BY <1>1, <1>4, <1>5
  <2> QED BY <1>3, <1>4, <2>1, <2>2 DEF Matches
<1> QED BY <1>2, <1>3, <1>6, <1>7

LEMMA PlanFilled ==
  ASSUME TypeInv, PlanInv, todo # <<>>, Order.op \in WriteOps,
         NEW n \in 0 .. Len(Order.data), Filling(n),
         job' = job, processed' = processed, holes' = holes, position' = position + n
  PROVE  /\ PlanInv' /\ todo' \in Seq(OrderSet) /\ todo' # <<>>
         /\ \A q : q \in Written' <=>
                     q \in Written \/ (q \in Nat /\ position <= q /\ q < position + n)
<1> DEFINE d == Order.data
<1>1. PICK b \in Places : Fits(Order, Here, b) /\ Plan(Tail(todo), b, Goal)
  BY PlanStep
<1>2. /\ FitsWrite(Order, Here, b) /\ GoodPlace(Here) /\ Order \in OrderSet
      /\ Tail(todo) \in Seq(OrderSet) /\ Tail(todo) # <<>>
      /\ Tail(todo)[Len(Tail(todo))].op = "finalize"
  BY <1>1, PlanStep, FitsByOp DEF PlanInv, WriteOps
<1>3. d \in Data /\ Len(d) \in Nat
  BY <1>2, OrderIs, LenData
<1>4. Here.position = position /\ Here.holes = holes /\ position \in Nat /\ holes \in Seq(Holes)
  BY HerePlace DEF TypeInv
<1>5. /\ Matches(d, position)
      /\ InHeader(Here) => Order.op # "packed" /\ position + Len(d) <= holes[1].after
      /\ b = [position |-> position + Len(d), holes |-> holes]
  BY <1>2, <1>4 DEF FitsWrite
<1> DEFINE m == [position |-> position + n, holes |-> holes]
<1>6. m = Here' /\ m \in Places /\ m.position = position + n /\ m.holes = holes
  BY <1>3, <1>4 DEF Here, Places
<1> HIDE DEF m
<1>7. /\ GoodPlace(m) /\ (InHeader(m) <=> InHeader(Here))
      /\ \A q : q \in WrittenAt(m) <=>
                  q \in WrittenAt(Here) \/ (q \in Nat /\ position <= q /\ q < position + n)
  <2>1. InHeader(Here) => Here.position + n <= Here.holes[1].after
    <3> SUFFICES ASSUME InHeader(Here) PROVE position + n <= holes[1].after
      BY <1>4
    <3>1. holes[1].after \in Nat
      <4>1. holes # <<>>
        BY <1>4 DEF InHeader
      <4> QED BY <1>2, <1>4, <4>1, PlaceFacts
    <3> QED BY <1>3, <1>4, <1>5, <3>1
  <2>2. n \in Nat /\ m.position = Here.position + n /\ m.holes = Here.holes
    BY <1>3, <1>4, <1>6
  <2>3. /\ GoodPlace(m) /\ (InHeader(m) <=> InHeader(Here))
        /\ \A q : q \in WrittenAt(m) <=>
                    q \in WrittenAt(Here) \/ (q \in Nat /\ Here.position <= q /\ q < Here.position + n)
    BY <1>2, <1>6, <2>1, <2>2, PlaceWrite
  <2> QED BY <1>4, <2>3
<1>8. Written' = WrittenAt(m)
  BY <1>6 DEF Written
<1>9. Goal' = Goal
  BY GoalStays
<1>10. CASE n = Len(d)
  <2>1. todo' = Tail(todo) /\ b = m
    BY <1>5, <1>10 DEF Filling, m
  <2>2. Plan(todo, Here, Goal)'
    <3>1. PICK t : t = Tail(todo)
      OBVIOUS
    <3>2. PICK g : g = Goal
      OBVIOUS
    <3>3. Plan(t, m, g) /\ t = todo' /\ m = Here' /\ g = Goal'
      BY <1>1, <1>6, <1>9, <2>1, <3>1, <3>2
    <3> QED BY <3>3, PlanStays
  <2>3. (GoodPlace(Here))'
    BY <1>6, <1>7
  <2>4. todo'[Len(todo')].op = "finalize"
    BY <1>2, <2>1
  <2>5. PlanInv'
    BY <2>2, <2>3, <2>4 DEF PlanInv
  <2> QED BY <1>2, <1>7, <1>8, <2>1, <2>5 DEF Written
<1>11. CASE n # Len(d)
  <2> DEFINE o == [Order EXCEPT !.data = Rest(d, n)]
  <2>1. /\ Rest(d, n) \in Data /\ Len(Rest(d, n)) = Len(d) - n /\ Matches(Rest(d, n), position + n)
    BY <1>3, <1>4, <1>5, RestIs
  <2>2. o \in OrderSet /\ o.op = Order.op /\ o.data = Rest(d, n)
    BY <1>2, <2>1, OrderIs
  <2>3. todo' = <<o>> \o Tail(todo)
    BY <1>11 DEF Filling
  <2> HIDE DEF o
  <2>4. FitsWrite(o, m, b)
    <3>1. (position + n) + (Len(d) - n) = position + Len(d)
      <4>1. n \in Nat
        BY <1>3
      <4> HIDE DEF d
      <4> QED BY <1>3, <1>4, <4>1
    <3>2. b = [position |-> m.position + Len(o.data), holes |-> m.holes]
      BY <1>5, <1>6, <2>1, <2>2, <3>1
    <3>3. InHeader(m) => o.op # "packed" /\ m.position + Len(o.data) <= m.holes[1].after
      BY <1>5, <1>6, <1>7, <2>1, <2>2, <3>1
    <3> QED BY <1>6, <2>1, <2>2, <3>2, <3>3 DEF FitsWrite
  <2>5. Plan(<<o>>, m, b) /\ <<o>> \in Seq(OrderSet)
    BY <1>6, <2>2, <2>4, PlanOne DEF Fits
  <2>6. Plan(<<o>> \o Tail(todo), m, Goal)
    BY <1>1, <1>2, <2>5, PlanJoin
  <2>7. Plan(todo, Here, Goal)'
    <3>1. PICK t : t = <<o>> \o Tail(todo)
      OBVIOUS
    <3>2. PICK g : g = Goal
      OBVIOUS
    <3>3. Plan(t, m, g) /\ t = todo' /\ m = Here' /\ g = Goal'
      BY <1>6, <1>9, <2>3, <2>6, <3>1, <3>2
    <3> QED BY <3>3, PlanStays
  <2>8. (GoodPlace(Here))'
    BY <1>6, <1>7
  <2>9. todo' \in Seq(OrderSet) /\ todo' # <<>> /\ todo'[Len(todo')].op = "finalize"
    <3>1. Ends(Tail(todo))
      BY <1>2 DEF Ends
    <3>2. Ends(<<o>> \o Tail(todo))
      BY <1>2, <2>5, <3>1, EndsJoin
    <3> QED BY <1>2, <2>3, <2>5, <3>2 DEF Ends
  <2>10. PlanInv'
    BY <2>7, <2>8, <2>9 DEF PlanInv
  <2> QED BY <1>7, <1>8, <2>9, <2>10 DEF Written
<1> QED BY <1>10, <1>11

LEMMA PlanLeft ==
  ASSUME TypeInv, PlanInv, todo # <<>>, Order.op = "hole",
         job' = job, processed' = processed, todo' = Tail(todo),
         position' = position + Order.size,
         holes' = <<[start |-> position, after |-> position + Order.size, end |-> 0]>> \o holes
  PROVE  /\ PlanInv' /\ todo' \in Seq(OrderSet) /\ todo' # <<>>
         /\ position' \in Nat /\ position <= position' /\ holes' \in Seq(Holes)
         /\ Written' = Written
<1>1. PICK b \in Places : Fits(Order, Here, b) /\ Plan(Tail(todo), b, Goal)
  BY PlanStep
<1>2. /\ FitsHole(Order, Here, b) /\ GoodPlace(Here) /\ Order \in OrderSet
      /\ Tail(todo) \in Seq(OrderSet) /\ Tail(todo) # <<>>
      /\ Tail(todo)[Len(Tail(todo))].op = "finalize"
  BY <1>1, PlanStep, FitsByOp DEF PlanInv
<1>3. Order.size \in Nat \ {0}
  BY <1>2, OrderIs
<1>4. Here.position = position /\ Here.holes = holes /\ position \in Nat /\ holes \in Seq(Holes)
  BY HerePlace DEF TypeInv
<1> DEFINE n == Order.size
<1> HIDE DEF n
<1>5. /\ ~ InHeader(Here)
      /\ b = [position |-> position + n,
              holes |-> <<[start |-> position, after |-> position + n, end |-> 0]>> \o holes]
  BY <1>2, <1>4 DEF FitsHole, n
<1>6. /\ b = Here' /\ b.position = Here.position + n
      /\ b.holes = <<Open(Here.position, Here.position + n)>> \o Here.holes
  BY <1>4, <1>5 DEF Here, Open, n
<1>7. GoodPlace(b) /\ WrittenAt(b) = WrittenAt(Here)
  BY <1>2, <1>3, <1>5, <1>6, PlaceHole DEF n
<1>8. Written' = Written
  BY <1>6, <1>7 DEF Written
<1>9. Goal' = Goal
  BY GoalStays
<1>10. Plan(todo, Here, Goal)'
  <2>1. PICK t : t = Tail(todo)
    OBVIOUS
  <2>2. PICK g : g = Goal
    OBVIOUS
  <2>3. Plan(t, b, g) /\ t = todo' /\ b = Here' /\ g = Goal'
    BY <1>1, <1>6, <1>9, <2>1, <2>2
  <2> QED BY <2>3, PlanStays
<1>11. PlanInv'
  <2>1. (GoodPlace(Here))'
    BY <1>6, <1>7
  <2> QED BY <1>2, <1>10, <2>1 DEF PlanInv
<1>12. position' \in Nat /\ position <= position'
  BY <1>3, <1>4
<1>13. holes' \in Seq(Holes)
  BY <1>5, <1>6 DEF Places, Here
<1> QED BY <1>2, <1>8, <1>11, <1>12, <1>13

\* What is known of the header the encoder goes back to.
LEMMA BackHere ==
  ASSUME TypeInv, PlanInv, todo # <<>>, Order.op = "back"
  PROVE  /\ holes[1].start \in Nat /\ position - holes[1].after \in Nat
         /\ holes[1].start \notin Written /\ holes[1].start < position
<1>1. PICK b \in Places : Fits(Order, Here, b)
  BY PlanStep
<1>2. FitsBack(Order, Here, b) /\ GoodPlace(Here)
  BY <1>1, PlanStep, FitsByOp DEF PlanInv
<1>3. Here.position = position /\ Here.holes = holes /\ position \in Nat /\ holes \in Seq(Holes)
  BY HerePlace DEF TypeInv
<1>4. holes # <<>> /\ ~ InHeader(Here)
  BY <1>2, <1>3 DEF FitsBack
<1>5. /\ 1 \in 1 .. Len(holes) /\ holes[1].start \in Nat /\ holes[1].after \in Nat
      /\ holes[1].start < holes[1].after /\ holes[1].after <= position
  <2>1. 1 \in 1 .. Len(Here.holes) /\ Here.holes[1].start \in Nat /\ Here.holes[1].after \in Nat
    BY <1>2, <1>3, <1>4, PlaceFacts
  <2>2. Here.holes[1].start < Here.holes[1].after /\ Here.holes[1].after <= Here.position
    BY <1>2, <1>3, <1>4, <2>1 DEF GoodPlace
  <2> QED BY <1>3, <2>1, <2>2
<1>6. InGap(Here, 1, holes[1].start)
  BY <1>3, <1>4, <1>5 DEF InGap, GapStart
<1>7. holes[1].start \notin Written
  <2>1. 1 \in 1 .. Len(Here.holes)
    BY <1>3, <1>5
  <2> QED BY <1>2, <1>6, <2>1, WrittenIs DEF Written
<1> QED BY <1>3, <1>5, <1>7

LEMMA PlanGone ==
  ASSUME TypeInv, PlanInv, todo # <<>>, Order.op = "back",
         job' = job, processed' = processed,
         todo' = HeaderOrders(Order, position - holes[1].after) \o Tail(todo),
         position' = holes[1].start, holes' = [holes EXCEPT ![1].end = position]
  PROVE  /\ PlanInv' /\ todo' \in Seq(OrderSet) /\ todo' # <<>>
         /\ position' \in Nat /\ holes' \in Seq(Holes)
         /\ Written' = Written
<1> DEFINE n == position - holes[1].after
           header == HeaderData(Order, n)
           new == HeaderOrders(Order, n)
<1>1. PICK b \in Places : Fits(Order, Here, b) /\ Plan(Tail(todo), b, Goal)
  BY PlanStep
<1>2. /\ FitsBack(Order, Here, b) /\ GoodPlace(Here) /\ Order \in OrderSet
      /\ Tail(todo) \in Seq(OrderSet) /\ Tail(todo) # <<>>
      /\ Tail(todo)[Len(Tail(todo))].op = "finalize"
  BY <1>1, PlanStep, FitsByOp DEF PlanInv
<1>3. Here.position = position /\ Here.holes = holes /\ position \in Nat /\ holes \in Seq(Holes)
  BY HerePlace DEF TypeInv
<1>4. n \in Nat /\ holes[1].start \in Nat
  BY BackHere
<1>5. /\ new \in Seq(OrderSet) /\ header \in Data
      /\ \/ new = <<>> /\ header = <<>>
         \/ \E w \in OrderSet : new = <<w>> /\ w.op \in WriteOps \ {"packed"} /\ w.data = header
  BY <1>2, <1>4, HeaderOrdersAre
<1> HIDE DEF new, header
<1>6. /\ holes # <<>> /\ ~ InHeader(Here)
      /\ Matches(header, holes[1].start)
      /\ holes[1].start + Len(header) <= holes[1].after
      /\ b = [position |-> holes[1].start + Len(header), holes |-> [holes EXCEPT ![1].end = position]]
  BY <1>2, <1>3 DEF FitsBack, header
<1>7. /\ 1 \in 1 .. Len(holes) /\ holes[1].after \in Nat
  BY <1>2, <1>3, <1>6, PlaceFacts
<1> DEFINE k == Closed(holes, position)
           m == [position |-> holes[1].start, holes |-> k]
<1>8. k \in Seq(Holes) /\ k[1].after = holes[1].after
  <2> DEFINE r == [holes[1] EXCEPT !.end = position]
  <2>1. holes[1] \in Holes
    BY <1>3, <1>7
  <2>2. r \in Holes /\ r.after = holes[1].after
    BY <1>3, <2>1 DEF Holes
  <2>3. k = [holes EXCEPT ![1] = r]
    BY DEF Closed
  <2> HIDE DEF r
  <2>4. [holes EXCEPT ![1] = r] \in Seq(Holes) /\ [holes EXCEPT ![1] = r][1] = r
    BY <1>3, <1>7, <2>2, ExceptSeq
  <2> QED BY <2>2, <2>3, <2>4
<1> HIDE DEF k
<1>9. m = Here' /\ m \in Places /\ m.position = Here.holes[1].start /\ m.holes = Closed(Here.holes, Here.position)
  BY <1>3, <1>4, <1>8 DEF Here, Places, Closed, k
<1>10. m.position = holes[1].start /\ m.holes = k
  OBVIOUS
<1> HIDE DEF m
<1>11. GoodPlace(m) /\ InHeader(m) /\ WrittenAt(m) = WrittenAt(Here)
  BY <1>2, <1>3, <1>6, <1>9, PlaceBack
<1>12. Written' = Written
  BY <1>9, <1>11 DEF Written
<1>13. Goal' = Goal
  BY GoalStays
<1>14. b = [position |-> m.position + Len(header), holes |-> m.holes]
  BY <1>6, <1>10 DEF k, Closed
<1>15. Plan(new \o Tail(todo), m, Goal)
  <2>1. CASE new = <<>> /\ header = <<>>
    <3>1. b = m
      BY <1>4, <1>10, <1>14, <2>1 DEF m
    <3>2. new \o Tail(todo) = Tail(todo)
      BY <1>2, <2>1
    <3> QED BY <1>1, <3>1, <3>2
  <2>2. ASSUME NEW w \in OrderSet, new = <<w>>, w.op \in WriteOps \ {"packed"}, w.data = header
        PROVE  Plan(new \o Tail(todo), m, Goal)
    <3>1. FitsWrite(w, m, b)
      BY <1>6, <1>8, <1>10, <1>14, <2>2 DEF FitsWrite
    <3>2. Plan(<<w>>, m, b)
      BY <1>9, <3>1, PlanOne DEF Fits
    <3> QED BY <1>1, <1>2, <1>5, <2>2, <3>2, PlanJoin
  <2> QED BY <1>5, <2>1, <2>2
<1>16. todo' = new \o Tail(todo)
  BY DEF new
<1>17. Plan(todo, Here, Goal)'
  <2>1. PICK t : t = new \o Tail(todo)
    OBVIOUS
  <2>2. PICK g : g = Goal
    OBVIOUS
  <2>3. Plan(t, m, g) /\ t = todo' /\ m = Here' /\ g = Goal'
    BY <1>9, <1>13, <1>15, <1>16, <2>1, <2>2
  <2> QED BY <2>3, PlanStays
<1>18. todo' \in Seq(OrderSet) /\ todo' # <<>> /\ todo'[Len(todo')].op = "finalize"
  <2>1. Ends(Tail(todo))
    BY <1>2 DEF Ends
  <2>2. Ends(new \o Tail(todo))
    BY <1>2, <1>5, <2>1, EndsJoin
  <2>3. new \o Tail(todo) \in Seq(OrderSet)
    BY <1>2, <1>5
  <2> QED BY <1>16, <2>2, <2>3 DEF Ends
<1>19. PlanInv'
  <2>1. (GoodPlace(Here))'
    BY <1>9, <1>11
  <2> QED BY <1>17, <1>18, <2>1 DEF PlanInv
<1>20. position' \in Nat /\ holes' \in Seq(Holes)
  BY <1>4, <1>8 DEF k, Closed
<1> QED BY <1>12, <1>18, <1>19, <1>20

LEMMA EndHere ==
  ASSUME TypeInv, PlanInv, todo # <<>>, Order.op = "end"
  PROVE  position = holes[1].after /\ holes[1].end \in Nat /\ position <= holes[1].end
<1>1. PICK b \in Places : Fits(Order, Here, b)
  BY PlanStep
<1>2. FitsEnd(Order, Here, b) /\ GoodPlace(Here)
  BY <1>1, PlanStep, FitsByOp DEF PlanInv
<1>3. Here.position = position /\ Here.holes = holes
  BY HerePlace
<1>4. InHeader(Here) /\ Here.position = Here.holes[1].after /\ Here.holes # <<>>
  BY <1>2 DEF FitsEnd, InHeader
<1>5. Here.holes[1].end \in Nat /\ Here.holes[1].after <= Here.holes[1].end
  BY <1>2, <1>4, PlaceFacts DEF GoodPlace
<1> QED BY <1>3, <1>4, <1>5

LEMMA PlanEnded ==
  ASSUME TypeInv, PlanInv, todo # <<>>, Order.op = "end",
         job' = job, processed' = processed, todo' = Tail(todo),
         position' = holes[1].end, holes' = Tail(holes)
  PROVE  /\ PlanInv' /\ todo' \in Seq(OrderSet) /\ todo' # <<>>
         /\ position' \in Nat /\ holes' \in Seq(Holes)
         /\ Written' = Written
<1>1. PICK b \in Places : Fits(Order, Here, b) /\ Plan(Tail(todo), b, Goal)
  BY PlanStep
<1>2. /\ FitsEnd(Order, Here, b) /\ GoodPlace(Here)
      /\ Tail(todo) \in Seq(OrderSet) /\ Tail(todo) # <<>>
      /\ Tail(todo)[Len(Tail(todo))].op = "finalize"
  BY <1>1, PlanStep, FitsByOp DEF PlanInv
<1>3. Here.position = position /\ Here.holes = holes /\ position \in Nat /\ holes \in Seq(Holes)
  BY HerePlace DEF TypeInv
<1>4. /\ InHeader(Here) /\ Here.position = Here.holes[1].after
      /\ b = [position |-> holes[1].end, holes |-> Tail(holes)]
  BY <1>2, <1>3 DEF FitsEnd
<1>5. b = Here' /\ b.position = Here.holes[1].end /\ b.holes = Tail(Here.holes)
  BY <1>3, <1>4 DEF Here
<1>6. GoodPlace(b) /\ WrittenAt(b) = WrittenAt(Here)
  BY <1>2, <1>4, <1>5, PlaceEnd
<1>7. Written' = Written
  BY <1>5, <1>6 DEF Written
<1>8. Goal' = Goal
  BY GoalStays
<1>9. Plan(todo, Here, Goal)'
  <2>1. PICK t : t = Tail(todo)
    OBVIOUS
  <2>2. PICK g : g = Goal
    OBVIOUS
  <2>3. Plan(t, b, g) /\ t = todo' /\ b = Here' /\ g = Goal'
    BY <1>1, <1>5, <1>8, <2>1, <2>2
  <2> QED BY <2>3, PlanStays
<1>10. PlanInv'
  <2>1. (GoodPlace(Here))'
    BY <1>5, <1>6
  <2> QED BY <1>2, <1>9, <2>1 DEF PlanInv
<1>11. position' \in Nat /\ holes' \in Seq(Holes)
  BY <1>5 DEF Places, Here
<1> QED BY <1>2, <1>7, <1>10, <1>11

LEMMA FinalizeHere ==
  ASSUME TypeInv, PlanInv, todo # <<>>, Order.op = "finalize"
  PROVE  holes = <<>>
<1>1. PICK b \in Places : Fits(Order, Here, b)
  BY PlanStep
<1>2. FitsFinalize(Order, Here, b)
  BY <1>1, FitsByOp
<1> QED BY <1>2, HerePlace DEF FitsFinalize

\* Without a hole everything up to the position is written.
LEMMA NoHoleWritten ==
  ASSUME TypeInv, PlanInv, holes = <<>>
  PROVE  \A q : q \in Written <=> q \in Nat /\ q < position
<1>1. GoodPlace(Here) /\ Here.holes = <<>> /\ Here.position = position
  BY HerePlace DEF PlanInv
<1> QED BY <1>1, NothingOpen DEF Written

LEMMA PlanFinal ==
  ASSUME TypeInv, PlanInv, todo # <<>>, Order.op = "finalize",
         job' = job, processed' = processed, todo' = Tail(todo),
         position' = position, holes' = holes
  PROVE  PlanInv' /\ todo' \in Seq(OrderSet)
<1>1. PICK b \in Places : Fits(Order, Here, b) /\ Plan(Tail(todo), b, Goal)
  BY PlanStep
<1>2. /\ FitsFinalize(Order, Here, b) /\ GoodPlace(Here)
      /\ Tail(todo) \in Seq(OrderSet)
      /\ Tail(todo) # <<>> => Tail(todo)[Len(Tail(todo))].op = "finalize"
  BY <1>1, PlanStep, FitsByOp DEF PlanInv
<1>3. Here' = Here /\ b = Here /\ Goal' = Goal
  BY <1>2, GoalStays DEF Here, FitsFinalize
<1>4. Plan(todo, Here, Goal)'
  <2>1. PICK t : t = Tail(todo)
    OBVIOUS
  <2>2. PICK g : g = Goal
    OBVIOUS
  <2>3. Plan(t, b, g) /\ t = todo' /\ b = Here' /\ g = Goal'
    BY <1>1, <1>3, <2>1, <2>2
  <2> QED BY <2>3, PlanStays
<1>5. (GoodPlace(Here))'
  BY <1>2, <1>3
<1> QED BY <1>2, <1>4, <1>5 DEF PlanInv

LEMMA PlanCalm ==
  ASSUME PlanInv, UNCHANGED <<job, processed, todo, position, holes>>
  PROVE  PlanInv' /\ Written' = Written /\ WholeFile' = WholeFile
<1>1. Here' = Here /\ Goal' = Goal /\ WholeFile' = WholeFile
  BY GoalStays, JobStays DEF Here
<1>2. Plan(todo, Here, Goal)'
  <2>1. PICK t : t = todo
    OBVIOUS
  <2>2. PICK a : a = Here
    OBVIOUS
  <2>3. PICK g : g = Goal
    OBVIOUS
  <2>4. Plan(t, a, g) /\ t = todo' /\ a = Here' /\ g = Goal'
    BY <1>1, <2>1, <2>2, <2>3 DEF PlanInv
  <2> QED BY <2>4, PlanStays
<1> QED BY <1>1, <1>2 DEF PlanInv, Written

-----------------------------------------------------------------------------
(* The next input.                                                         *)

LEMMA PartsNext ==
  ASSUME job \in Jobs, NEW n \in 1 .. Len(job.inputs)
  PROVE  /\ PartsBefore(n + 1) = PartsBefore(n) + (IF IsFrame(job.inputs[n]) THEN 1 ELSE 0)
         /\ PartsBefore(n) \in Nat
<1> DEFINE S(m) == {k \in 1 .. m - 1 : IsFrame(job.inputs[k])}
<1>1. n \in Nat /\ n >= 1 /\ PartsBefore(n) \in Nat
  BY JobFacts, PartsBeforeNat
<1>2. IsFiniteSet(S(n)) /\ Cardinality(S(n)) \in Nat
  <2>1. IsFiniteSet(1 .. n - 1)
    BY <1>1, FS_Interval
  <2>2. S(n) \subseteq 1 .. n - 1
    OBVIOUS
  <2>3. IsFiniteSet(S(n))
    BY <2>1, <2>2, FS_Subset
  <2> QED BY <2>3, FS_CardinalityType
<1>3. Cardinality(S(n + 1)) = Cardinality(S(n)) + (IF IsFrame(job.inputs[n]) THEN 1 ELSE 0)
  <2>1. CASE IsFrame(job.inputs[n])
    <3>1. S(n + 1) = S(n) \union {n} /\ n \notin S(n)
      BY <1>1, <2>1
    <3> HIDE DEF S
    <3> QED BY <1>2, <2>1, <3>1, FS_AddElement
  <2>2. CASE ~ IsFrame(job.inputs[n])
    <3>1. S(n + 1) = S(n)
      BY <1>1, <2>2
    <3> HIDE DEF S
    <3> QED BY <1>2, <2>2, <3>1
  <2> QED BY <2>1, <2>2
<1>4. /\ PartsBefore(n) = (IF PartialHeader THEN 1 ELSE 0) + Cardinality(S(n))
      /\ PartsBefore(n + 1) = (IF PartialHeader THEN 1 ELSE 0) + Cardinality(S(n + 1))
  BY DEF PartsBefore
<1> HIDE DEF S
<1> QED BY <1>1, <1>2, <1>3, <1>4

LEMMA PartsFirst ==
  PartsBefore(1) = IF PartialHeader THEN 1 ELSE 0
<1>1. {k \in 1 .. 1 - 1 : IsFrame(job.inputs[k])} = {}
  OBVIOUS
<1>2. Cardinality({}) = 0
  BY FS_EmptySet
<1>3. PartsBefore(1) = (IF PartialHeader THEN 1 ELSE 0) + Cardinality({})
  BY <1>1 DEF PartsBefore
<1> QED BY <1>2, <1>3

Number == IF processed = 0 /\ PartialHeader THEN 1 ELSE jxlp_counter

LEMMA NumberIs ==
  ASSUME TypeInv, JxlpInv, processed < added
  PROVE  /\ processed + 1 \in 1 .. Len(job.inputs) /\ Number \in Nat
         /\ (job.container /\ \E k \in processed + 1 .. Len(job.inputs) : IsFrame(job.inputs[k]))
              => Number = PartsBefore(processed + 1)
<1>1. /\ job \in Jobs /\ added \in 0 .. Len(job.inputs) /\ processed \in 0 .. added /\ jxlp_counter \in Nat
  BY DEF TypeInv
<1>2. Len(job.inputs) \in Nat
  BY <1>1, JobFacts
<1>3. processed + 1 \in 1 .. Len(job.inputs) /\ Number \in Nat
  BY <1>1, <1>2 DEF Number
<1>4. ASSUME job.container, NEW k \in processed + 1 .. Len(job.inputs), IsFrame(job.inputs[k])
      PROVE  Number = PartsBefore(processed + 1)
  <2>1. CASE processed = 0
    <3>1. PartsBefore(processed + 1) = IF PartialHeader THEN 1 ELSE 0
      <4>1. processed + 1 = 1
        BY <2>1
      <4> QED BY <4>1, PartsFirst
    <3> QED BY <2>1, <3>1 DEF Number, JxlpInv
  <2>2. CASE processed # 0
    <3>1. processed > 0
      BY <1>1, <2>2
    <3>2. jxlp_counter = PartsBefore(processed + 1)
      BY <1>4, <3>1 DEF JxlpInv
    <3> QED BY <2>2, <3>2 DEF Number
  <2> QED BY <2>1, <2>2
<1> QED BY <1>3, <1>4

LEMMA JxlpBegins ==
  ASSUME TypeInv, JxlpInv, processed < added, job' = job, processed' = processed + 1,
         jxlp_counter' = IF /\ job.container /\ IsFrame(job.inputs[processed + 1])
                            /\ ~ (LastFrame(processed + 1) /\ Number = 0)
                         THEN Number + 1 ELSE Number
  PROVE  JxlpInv' /\ jxlp_counter' \in Nat
<1> DEFINE n == processed + 1
<1>1. /\ job \in Jobs /\ processed \in Nat /\ n \in 1 .. Len(job.inputs) /\ Number \in Nat
      /\ Len(job.inputs) \in Nat
  BY NumberIs, JobFacts DEF TypeInv
<1>2. jxlp_counter' \in Nat
  BY <1>1
<1>3. ASSUME job.container, NEW k \in n + 1 .. Len(job.inputs), IsFrame(job.inputs[k])
      PROVE  jxlp_counter' = PartsBefore(n + 1)
  <2>1. ~ LastFrame(n)
    BY <1>3 DEF LastFrame
  <2>2. Number = PartsBefore(n)
    <3>1. k \in n .. Len(job.inputs)
      BY <1>1, <1>3
    <3> QED BY <1>3, <3>1, NumberIs
  <2>3. PartsBefore(n + 1) = PartsBefore(n) + (IF IsFrame(job.inputs[n]) THEN 1 ELSE 0)
    BY <1>1, PartsNext
  <2>4. jxlp_counter' = Number + (IF IsFrame(job.inputs[n]) THEN 1 ELSE 0)
    BY <1>1, <1>3, <2>1
  <2> QED BY <2>2, <2>3, <2>4
<1>4. JxlpInv'
  <2>1. processed' # 0
    BY <1>1
  <2>2. ASSUME job'.container, NEW k \in processed' + 1 .. Len(job'.inputs), IsFrame(job'.inputs[k])
        PROVE  jxlp_counter' = PartsBefore(processed + 1)'
    <3>1. jxlp_counter' = PartsBefore(n + 1)
      BY <1>3, <2>2
    <3>2. PartsBefore(processed + 1)' = PartsBefore(n + 1)
      BY DEF PartsBefore, PartialHeader
    <3> QED BY <3>1, <3>2
  <2> QED BY <2>1, <2>2 DEF JxlpInv
<1> QED BY <1>2, <1>4

LEMMA NothingLeft ==
  ASSUME PlanInv, todo = <<>>
  PROVE  Here = Goal /\ holes = <<>> /\ position = Len(UpTo[processed])
<1>1. Here = Goal
  BY PlanDone DEF PlanInv
<1> QED BY <1>1 DEF Here, Goal

LEMMA PlanBegun ==
  ASSUME TypeInv, JxlpInv, PlanInv, todo = <<>>, processed < added,
         job' = job, processed' = processed + 1, todo' = Orders(processed + 1, Number),
         position' = position, holes' = holes
  PROVE  PlanInv' /\ todo' \in Seq(OrderSet) /\ todo' # <<>>
<1> DEFINE n == processed + 1
           a == At(Len(UpTo[n - 1]), <<>>)
           b == At(Len(UpTo[n]), <<>>)
<1>1. /\ job \in Jobs /\ processed \in Nat /\ n \in 1 .. Len(job.inputs) /\ Number \in Nat
  BY NumberIs DEF TypeInv
<1>2. job.container /\ IsFrame(job.inputs[n]) => Number = PartsBefore(n)
  <2>1. n \in n .. Len(job.inputs)
    BY <1>1
  <2> QED BY <2>1, NumberIs
<1>3. Route(Orders(n, Number), a, b) /\ Ends(Orders(n, Number))
  BY <1>1, <1>2, RouteOrders
<1>4. Here' = Here /\ Here = a
  <2>1. n - 1 = processed
    BY <1>1
  <2> QED BY <2>1, NothingLeft DEF Here, Goal, At
<1>5. Goal' = b
  BY JobStays DEF Goal, At
<1> HIDE DEF a, b
<1>6. Plan(todo, Here, Goal)'
  <2>1. PICK t : t = Orders(n, Number)
    OBVIOUS
  <2>2. PICK x : x = a
    OBVIOUS
  <2>3. PICK y : y = b
    OBVIOUS
  <2>4. Plan(t, x, y) /\ t = todo' /\ x = Here' /\ y = Goal'
    BY <1>3, <1>4, <1>5, <2>1, <2>2, <2>3 DEF Route
  <2> QED BY <2>4, PlanStays
<1>7. GoodPlace(Here)'
  BY <1>4 DEF PlanInv
<1>8. todo' \in Seq(OrderSet) /\ todo' # <<>> /\ todo'[Len(todo')].op = "finalize"
  BY <1>3 DEF Route, Ends
<1> QED BY <1>6, <1>7, <1>8 DEF PlanInv

-----------------------------------------------------------------------------
(* Chunks and the client's memory.                                         *)

ChunkRecords == [written : Nat, data : Data]

LEMMA ChunkFacts ==
  ASSUME TypeInv
  PROVE  /\ DOMAIN internal_buffers \subseteq Nat
         /\ internal_buffers = [p \in DOMAIN internal_buffers |-> internal_buffers[p]]
         /\ \A p \in DOMAIN internal_buffers :
              /\ internal_buffers[p] \in ChunkRecords
              /\ internal_buffers[p].written \in Nat /\ internal_buffers[p].data \in Data
              /\ Len(internal_buffers[p].data) \in Nat
<1>1. PICK D \in SUBSET Nat : internal_buffers \in [D -> ChunkRecords]
  BY DEF TypeInv, ChunkSet, ChunkRecords
<1>2. /\ DOMAIN internal_buffers = D
      /\ internal_buffers = [p \in DOMAIN internal_buffers |-> internal_buffers[p]]
      /\ \A p \in D : internal_buffers[p] \in ChunkRecords
  BY <1>1
<1>3. \A r \in ChunkRecords : r.written \in Nat /\ r.data \in Data
  BY DEF ChunkRecords
<1> QED BY <1>2, <1>3, LenData

LEMMA MakeChunks ==
  ASSUME NEW f, NEW D \in SUBSET Nat, f = [p \in D |-> f[p]], \A p \in D : f[p] \in ChunkRecords
  PROVE  f \in ChunkSet
<1>1. f \in [D -> ChunkRecords]
  OBVIOUS
<1> QED BY <1>1 DEF ChunkSet, ChunkRecords

LEMMA MemoryFacts ==
  ASSUME NEW bytes \in Memory
  PROVE  /\ DOMAIN bytes \subseteq Nat
         /\ \A q \in DOMAIN bytes : bytes[q] \in Names \X Nat
<1>1. PICK D \in SUBSET Nat : bytes \in [D -> Names \X Nat]
  BY DEF Memory
<1> QED BY <1>1

LEMMA MakeMemory ==
  ASSUME NEW f, NEW D \in SUBSET Nat, f = [p \in D |-> f[p]], \A p \in D : f[p] \in Names \X Nat
  PROVE  f \in Memory
<1>1. f \in [D -> Names \X Nat]
  OBVIOUS
<1> QED BY <1>1 DEF Memory

LEMMA StoredFacts ==
  ASSUME NEW bytes \in Memory, NEW at \in Nat, NEW data \in Data
  PROVE  /\ Stored(bytes, at, data) \in Memory
         /\ DOMAIN Stored(bytes, at, data) = DOMAIN bytes \union at .. at + Len(data) - 1
         /\ \A q \in at .. at + Len(data) - 1 : Stored(bytes, at, data)[q] = data[q - at + 1]
         /\ \A q \in DOMAIN bytes :
              ~ (at <= q /\ q < at + Len(data)) => Stored(bytes, at, data)[q] = bytes[q]
<1> DEFINE n == Len(data)
           D == DOMAIN bytes \union at .. at + n - 1
           f == Stored(bytes, at, data)
<1>0. n \in Nat
  BY LenData
<1>1. D \in SUBSET Nat /\ DOMAIN bytes \subseteq Nat
  BY <1>0, MemoryFacts
<1>2. f = [p \in D |-> IF at <= p /\ p < at + n THEN data[p - at + 1] ELSE bytes[p]]
  BY DEF Stored
<1>4. \A k \in 1 .. n : data[k] \in Names \X Nat
  BY DEF Data
<1> HIDE DEF f, n
<1>3. \A q \in at .. at + n - 1 : q \in D /\ at <= q /\ q < at + n /\ q - at + 1 \in 1 .. n
  BY <1>0
<1>5. DOMAIN f = D /\ f = [p \in D |-> f[p]]
  BY <1>2
<1>6. \A q \in at .. at + n - 1 : f[q] = data[q - at + 1] /\ f[q] \in Names \X Nat
  BY <1>2, <1>3, <1>4
<1>7. \A q \in DOMAIN bytes : ~ (at <= q /\ q < at + n) => f[q] = bytes[q] /\ f[q] \in Names \X Nat
  BY <1>2, MemoryFacts
<1>8. \A q \in D : f[q] \in Names \X Nat
  <2> TAKE q \in D
  <2>1. CASE q \in at .. at + n - 1
    BY <1>6, <2>1
  <2>2. CASE q \notin at .. at + n - 1
    BY <1>0, <1>1, <1>7, <2>2
  <2> QED BY <2>1, <2>2
<1>9. f \in Memory
  BY <1>1, <1>5, <1>8, MakeMemory
<1> QED BY <1>5, <1>6, <1>7, <1>9 DEF f, n

\* Storing the file's bytes where they belong makes memory right there.
LEMMA StoredRight ==
  ASSUME NEW bytes \in Memory, NEW at \in Nat, NEW data \in Data,
         \A k \in 1 .. Len(data) : data[k] = WholeFile[at + k]
  PROVE  /\ Stored(bytes, at, data) \in Memory
         /\ DOMAIN Stored(bytes, at, data) = DOMAIN bytes \union at .. at + Len(data) - 1
         /\ \A q \in at .. at + Len(data) - 1 : Stored(bytes, at, data)[q] = WholeFile[q + 1]
         /\ \A q \in DOMAIN bytes :
              ~ (at <= q /\ q < at + Len(data)) => Stored(bytes, at, data)[q] = bytes[q]
<1> DEFINE n == Len(data)
           f == Stored(bytes, at, data)
<1>0. n \in Nat
  BY LenData
<1>3. /\ f \in Memory /\ DOMAIN f = DOMAIN bytes \union at .. at + n - 1
      /\ \A q \in at .. at + n - 1 : f[q] = data[q - at + 1]
      /\ \A q \in DOMAIN bytes : ~ (at <= q /\ q < at + n) => f[q] = bytes[q]
  BY StoredFacts
<1>1. \A k \in 1 .. n : data[k] = WholeFile[at + k]
  OBVIOUS
<1> HIDE DEF f, n
<1>2. \A q \in at .. at + n - 1 : q - at + 1 \in 1 .. n /\ at + (q - at + 1) = q + 1
  BY <1>0
<1>4. \A q \in at .. at + n - 1 : f[q] = WholeFile[q + 1]
  BY <1>1, <1>2, <1>3
<1> QED BY <1>3, <1>4 DEF f, n

LEMMA FileLength ==
  ASSUME TypeInv
  PROVE  Len(WholeFile) \in Nat /\ WholeFile \in Data
BY WholeFileData, LenData DEF TypeInv

\* What is taken out of a chunk that holds the file's bytes is the file's.
LEMMA PendingIs ==
  ASSUME TypeInv, NEW p \in DOMAIN internal_buffers, NEW n \in Nat,
         p <= output_position,
         output_position + n <= p + Len(internal_buffers[p].data),
         \A k \in 1 .. Len(internal_buffers[p].data) : internal_buffers[p].data[k] = WholeFile[p + k]
  PROVE  /\ Pending(p, n) \in Data /\ Len(Pending(p, n)) = n
         /\ \A k \in 1 .. n : Pending(p, n)[k] = WholeFile[output_position + k]
<1> DEFINE d == internal_buffers[p].data
           i == output_position - p
<1>1. d \in Data /\ Len(d) \in Nat /\ p \in Nat /\ output_position \in Nat
  BY ChunkFacts DEF TypeInv
<1>2. i \in Nat /\ i + n <= Len(d) /\ output_position = p + i
  BY <1>1
<1>3. Pending(p, n) = SubSeq(d, i + 1, i + n)
  BY DEF Pending
<1> HIDE DEF i, d
<1>4. /\ SubSeq(d, i + 1, i + n) \in Data /\ Len(SubSeq(d, i + 1, i + n)) = n
      /\ \A k \in 1 .. n : SubSeq(d, i + 1, i + n)[k] = d[i + k]
  BY <1>1, <1>2 DEF Data
<1>5. \A k \in 1 .. n : i + k \in 1 .. Len(d) /\ p + (i + k) = output_position + k
  BY <1>1, <1>2
<1>6. \A k \in 1 .. n : d[i + k] = WholeFile[output_position + k]
  BY <1>5 DEF d
<1> QED BY <1>3, <1>4, <1>6

\* When nothing is lent every chunk was written.
LEMMA ChunksAre ==
  ASSUME TypeInv, ChunkInv, ~ Lent
  PROVE  /\ \A p \in DOMAIN internal_buffers :
              /\ p \in Nat /\ internal_buffers[p].written \in Nat \ {0}
              /\ internal_buffers[p].data \in Data
              /\ internal_buffers[p].data = <<>> \/ Len(internal_buffers[p].data) = internal_buffers[p].written
              /\ \A q \in p .. p + internal_buffers[p].written - 1 : q \in Written
              /\ p \in Written
         /\ \A p, q \in DOMAIN internal_buffers : p < q => p + internal_buffers[p].written <= q
<1>1. ASSUME NEW p \in DOMAIN internal_buffers
      PROVE  /\ p \in Nat /\ internal_buffers[p].written \in Nat \ {0}
             /\ internal_buffers[p].data \in Data
             /\ internal_buffers[p].data = <<>> \/ Len(internal_buffers[p].data) = internal_buffers[p].written
             /\ \A q \in p .. p + internal_buffers[p].written - 1 : q \in Written
             /\ p \in Written
  <2>1. /\ p \in Nat /\ internal_buffers[p].written \in Nat /\ internal_buffers[p].data \in Data
    BY ChunkFacts
  <2>2. /\ internal_buffers[p].written # 0
        /\ internal_buffers[p].data = <<>> \/ Len(internal_buffers[p].data) = internal_buffers[p].written
        /\ \A q \in p .. p + internal_buffers[p].written - 1 : q \in Written
    BY DEF ChunkInv, Chunk
  <2>3. p \in p .. p + internal_buffers[p].written - 1
    BY <2>1, <2>2
  <2> QED BY <2>1, <2>2, <2>3
<1>2. \A p, q \in DOMAIN internal_buffers : p < q => p + internal_buffers[p].written <= q
  BY DEF ChunkInv, Chunk
<1> QED BY <1>1, <1>2

\* The lowest chunk.
LEMMA FirstIs ==
  ASSUME TypeInv, DOMAIN internal_buffers # {}
  PROVE  /\ First \in DOMAIN internal_buffers /\ First \in Nat
         /\ \A p \in DOMAIN internal_buffers : First <= p
<1>1. DOMAIN internal_buffers \in SUBSET Nat
  BY ChunkFacts
<1> QED BY <1>1, LowestIs DEF First

-----------------------------------------------------------------------------
(* Steps of the writer alone: the output does not change.                  *)

WrapperInv == ChunkInv /\ DirectInv /\ WindowInv /\ StreamInv /\ SeekInv

LEMMA OutputStays ==
  ASSUME WrapperInv, UNCHANGED <<outputVars, job, holes>>
  PROVE  WrapperInv'
<1>1. Written' = Written /\ WholeFile' = WholeFile
  BY JobStays DEF Written, Here, outputVars
<1>2. /\ processor' = processor /\ avail_out' = avail_out /\ internal_buffers' = internal_buffers
      /\ position' = position /\ finalized_position' = finalized_position
      /\ output_position' = output_position /\ stop_requested' = stop_requested
      /\ buffer' = buffer /\ task' = task /\ error' = error /\ client' = client
  BY DEF outputVars
<1>3. ChunkInv'
  BY <1>1, <1>2 DEF WrapperInv, ChunkInv, Chunk, Lent
<1>4. DirectInv'
  BY <1>1, <1>2 DEF WrapperInv, DirectInv, Seeks, Covered, Covers, Chunk, Right
<1>5. WindowInv'
  BY <1>1, <1>2 DEF WrapperInv, WindowInv, External, InPlace, Chunk, Right, Lent
<1>6. StreamInv'
  BY <1>1, <1>2 DEF WrapperInv, StreamInv, InPlace, Chunk, Right, Lent
<1>7. SeekInv'
  BY <1>1, <1>2 DEF WrapperInv, SeekInv, Seeks, Covered, Covers, Chunk, Right, Lent
<1> QED BY <1>3, <1>4, <1>5, <1>6, <1>7 DEF WrapperInv

LEMMA InvIs ==
  Inv <=> TypeInv /\ JxlpInv /\ PlanInv /\ ControlInv /\ WrapperInv
BY DEF Inv, WrapperInv

LEMMA InvNext ==
  ASSUME TypeInv', JxlpInv', PlanInv', ControlInv', WrapperInv'
  PROVE  Inv'
BY DEF Inv, WrapperInv

LEMMA JxlpStays ==
  ASSUME JxlpInv, UNCHANGED <<job, processed, jxlp_counter>>
  PROVE  JxlpInv'
BY DEF JxlpInv, PartsBefore, PartialHeader

LEMMA InvStutters ==
  ASSUME Inv, UNCHANGED vars
  PROVE  Inv'
<1>1. TypeInv' /\ ControlInv'
  BY DEF Inv, vars, outputVars, writerVars, TypeInv, ControlInv, Lent, Order, Seeks, External
<1> QED BY <1>1, InvIs, InvNext, JxlpStays, PlanCalm, OutputStays DEF vars, outputVars, writerVars

LEMMA InvAddInput ==
  ASSUME Inv, AddInput
  PROVE  Inv'
<1>1. TypeInv /\ JxlpInv /\ PlanInv /\ ControlInv /\ WrapperInv
  BY InvIs
<1>2. added \in 0 .. Len(job.inputs) /\ Len(job.inputs) \in Nat /\ processed \in 0 .. added
  BY <1>1, JobFacts DEF TypeInv
<1>3. added' \in 0 .. Len(job.inputs) /\ processed \in 0 .. added'
  BY <1>2 DEF AddInput
<1>4. TypeInv'
  BY <1>1, <1>3 DEF AddInput, outputVars, TypeInv
<1>5. ControlInv'
  BY <1>1 DEF AddInput, outputVars, ControlInv, Lent, Order, Seeks, External
<1> QED BY <1>1, <1>4, <1>5, InvNext, JxlpStays, PlanCalm, OutputStays DEF AddInput, outputVars

LEMMA InvFlushInput ==
  ASSUME Inv, FlushInput
  PROVE  Inv'
<1>1. TypeInv /\ JxlpInv /\ PlanInv /\ ControlInv /\ WrapperInv
  BY InvIs
<1>4. TypeInv'
  BY <1>1 DEF FlushInput, outputVars, TypeInv
<1>5. ControlInv'
  BY <1>1 DEF FlushInput, outputVars, ControlInv, Lent, Order, Seeks, External
<1> QED BY <1>1, <1>4, <1>5, InvNext, JxlpStays, PlanCalm, OutputStays DEF FlushInput, outputVars

LEMMA InvReturn ==
  ASSUME Inv, Return
  PROVE  Inv'
<1>1. TypeInv /\ JxlpInv /\ PlanInv /\ ControlInv /\ WrapperInv
  BY InvIs
<1>4. TypeInv'
  BY <1>1 DEF Return, outputVars, TypeInv
<1>5. ControlInv'
  <2>1. ~ Seeks => output_position <= finalized_position
    BY <1>1 DEF WrapperInv, DirectInv
  <2>2. output_position \in Nat /\ finalized_position \in Nat
    BY <1>1 DEF TypeInv
  <2>3. status' = "SUCCESS" /\ ~ External => output_position = finalized_position
    BY <2>1, <2>2 DEF Return, HasOutputToWrite, External, Seeks
  <2> QED BY <1>1, <2>3 DEF Return, Idle, outputVars, ControlInv, Lent, Order, Seeks, External
<1> QED BY <1>1, <1>4, <1>5, InvNext, JxlpStays, PlanCalm, OutputStays DEF Return, outputVars

LEMMA InvReturnError ==
  ASSUME Inv, ReturnError
  PROVE  Inv'
<1>1. TypeInv /\ JxlpInv /\ PlanInv /\ ControlInv /\ WrapperInv
  BY InvIs
<1>4. TypeInv'
  BY <1>1 DEF ReturnError, outputVars, TypeInv
<1>5. ControlInv'
  BY <1>1 DEF ReturnError, outputVars, ControlInv, Lent, Order, Seeks, External
<1> QED BY <1>1, <1>4, <1>5, InvNext, JxlpStays, PlanCalm, OutputStays DEF ReturnError, outputVars

LEMMA InvBeginInput ==
  ASSUME Inv, BeginInput
  PROVE  Inv'
<1>1. TypeInv /\ JxlpInv /\ PlanInv /\ ControlInv /\ WrapperInv
  BY InvIs
<1>2. /\ todo = <<>> /\ task = "none" /\ error = "none" /\ status = "RUNNING" /\ processed < added
      /\ processed' = processed + 1 /\ todo' = Orders(processed + 1, Number)
      /\ jxlp_counter' = IF /\ job.container /\ IsFrame(job.inputs[processed + 1])
                            /\ ~ (LastFrame(processed + 1) /\ Number = 0)
                         THEN Number + 1 ELSE Number
      /\ UNCHANGED <<outputVars, job, added, holes, status>>
  BY DEF BeginInput, Idle, GoesOn, Running, Number
<1>3. JxlpInv' /\ jxlp_counter' \in Nat
  BY <1>1, <1>2, JxlpBegins
<1>4. PlanInv' /\ todo' \in Seq(OrderSet) /\ todo' # <<>>
  BY <1>1, <1>2, PlanBegun DEF outputVars
<1>5. processed' \in 0 .. added'
  BY <1>1, <1>2 DEF TypeInv
<1>6. TypeInv'
  BY <1>1, <1>2, <1>3, <1>4, <1>5 DEF outputVars, TypeInv
<1>7. ControlInv'
  BY <1>1, <1>2, <1>4 DEF outputVars, ControlInv, Lent, Order, Seeks, External
<1> QED BY <1>1, <1>2, <1>3, <1>4, <1>6, <1>7, InvNext, OutputStays

LEMMA InvNothingToWrite ==
  ASSUME Inv, NothingToWrite
  PROVE  Inv'
<1>1. TypeInv /\ JxlpInv /\ PlanInv /\ ControlInv /\ WrapperInv
  BY InvIs
<1>2. /\ status = "RUNNING" /\ task = "none" /\ error = "none" /\ todo # <<>>
      /\ Order.op \in WriteOps /\ Order.data = <<>> /\ todo' = Tail(todo)
      /\ UNCHANGED <<outputVars, job, added, processed, jxlp_counter, holes, status>>
  BY DEF NothingToWrite, Done, Running, WriteOps
<1>3. PlanInv' /\ todo' \in Seq(OrderSet) /\ todo' # <<>>
  <2>1. position \in Nat
    BY <1>1 DEF TypeInv
  <2>2. PICK n \in 0 .. Len(Order.data) : n = 0
    BY <1>2, EmptyData
  <2>3. Filling(n) /\ position' = position + n
    BY <1>2, <2>1, <2>2, EmptyData DEF Filling, outputVars
  <2> QED BY <1>1, <1>2, <2>3, PlanFilled
<1>4. TypeInv'
  BY <1>1, <1>2, <1>3 DEF outputVars, TypeInv
<1>5. ~ Lent
  BY <1>1, <1>2 DEF ControlInv
<1>6. ControlInv'
  BY <1>1, <1>2, <1>3, <1>5 DEF outputVars, ControlInv, Lent, Seeks, External
<1> QED BY <1>1, <1>2, <1>3, <1>4, <1>6, InvNext, JxlpStays, OutputStays

-----------------------------------------------------------------------------
(* Taking a buffer.                                                        *)

\* A buffer is wanted: the encoder has bytes to write and holds no buffer.
Wanting ==
  /\ status = "RUNNING" /\ task = "none" /\ error = "none" /\ buffer = NoBuffer
  /\ todo # <<>> /\ Order.op \in WriteOps /\ Order.data # <<>>

LEMMA InvRefuse ==
  ASSUME Inv, Wanting, Refuse, UNCHANGED writerVars
  PROVE  Inv'
<1>1. TypeInv /\ JxlpInv /\ PlanInv /\ ControlInv /\ WrapperInv /\ ~ Lent
  BY InvIs DEF Lent, Wanting
<1>2. /\ UNCHANGED <<job, added, processed, jxlp_counter, todo, holes, status>>
      /\ stop_requested' = TRUE /\ error' = "stopped"
      /\ UNCHANGED <<processor, avail_out, internal_buffers, position, finalized_position,
                     output_position, buffer, task, client>>
  BY DEF writerVars, Refuse
<1>3. TypeInv'
  BY <1>1, <1>2 DEF TypeInv
<1>4. PlanInv' /\ Written' = Written /\ WholeFile' = WholeFile
  BY <1>1, <1>2, PlanCalm
<1>5. ControlInv'
  BY <1>1, <1>2 DEF ControlInv, Wanting, Lent, External, Seeks
<1>6. ChunkInv'
  BY <1>1, <1>2, <1>4 DEF WrapperInv, ChunkInv, Chunk, Lent
<1>7. DirectInv'
  BY <1>1, <1>2, <1>4 DEF WrapperInv, DirectInv, Seeks, Covered, Covers, Chunk, Right
<1>8. WindowInv'
  BY <1>1, <1>2, <1>4 DEF WrapperInv, WindowInv, External, InPlace, Chunk, Right, Lent
<1>9. StreamInv'
  BY <1>1, <1>2, <1>4 DEF WrapperInv, StreamInv, InPlace, Chunk, Right, Lent
<1>10. SeekInv'
  BY <1>1, <1>2, <1>4 DEF WrapperInv, SeekInv, Seeks, Covered, Covers, Chunk, Right, Lent
<1> QED BY <1>1, <1>2, <1>3, <1>4, <1>5, <1>6, <1>7, <1>8, <1>9, <1>10, InvNext, JxlpStays DEF WrapperInv

\* No chunk begins where the encoder is going to write.
LEMMA NoChunkHere ==
  ASSUME Inv, Wanting
  PROVE  /\ \A p \in DOMAIN internal_buffers :
              /\ p < position => p + internal_buffers[p].written <= position
              /\ p >= position => p >= position + Len(Order.data)
         /\ Order.op = "packed" => \A p \in DOMAIN internal_buffers : p < position
         /\ position \notin DOMAIN internal_buffers
         /\ Order.data \in Data /\ Len(Order.data) \in Nat \ {0}
<1>1. TypeInv /\ PlanInv /\ ChunkInv /\ ~ Lent
  BY DEF Inv, Wanting, Lent
<1>2. /\ Order.data \in Data /\ Len(Order.data) \in Nat
      /\ \A q \in position .. position + Len(Order.data) - 1 : q \notin Written
      /\ Order.op = "packed" => \A q \in Written : q < position
  BY <1>1, WriteHere DEF Wanting
<1>3. Len(Order.data) # 0 /\ position \in Nat
  BY <1>1, <1>2, LenData DEF Wanting, TypeInv
<1>4. ASSUME NEW p \in DOMAIN internal_buffers
      PROVE  /\ p < position => p + internal_buffers[p].written <= position
             /\ p >= position => p >= position + Len(Order.data)
             /\ Order.op = "packed" => p < position
             /\ p # position
  <2>1. /\ p \in Nat /\ internal_buffers[p].written \in Nat \ {0} /\ p \in Written
        /\ \A q \in p .. p + internal_buffers[p].written - 1 : q \in Written
    BY <1>1, ChunksAre
  <2>2. position \notin Written
    BY <1>2, <1>3
  <2>3. p < position => p + internal_buffers[p].written <= position
    BY <1>3, <2>1, <2>2
  <2>4. p >= position => p >= position + Len(Order.data)
    BY <1>2, <1>3, <2>1
  <2> QED BY <1>2, <2>1, <2>2, <2>3, <2>4
<1> QED BY <1>2, <1>3, <1>4

LEMMA InvLend ==
  ASSUME Inv, Wanting, ~ stop_requested, Seeks => output_position = position,
         NEW size \in Nat \ {0}, NEW owned \in BOOLEAN, NEW at \in Nat,
         Lend(size, owned, at), UNCHANGED writerVars,
         ~ owned => /\ at = position
                    /\ ~ External => position + size <= output_position + avail_out
                    /\ External => position = output_position
  PROVE  Inv'
<1>1. TypeInv /\ JxlpInv /\ PlanInv /\ ControlInv /\ WrapperInv /\ ~ Lent
  BY InvIs DEF Lent, Wanting
<1>2. /\ UNCHANGED <<job, added, processed, jxlp_counter, todo, holes, status>>
      /\ buffer' = [size |-> size, owned |-> owned, at |-> at]
      /\ internal_buffers' = Emplace
      /\ UNCHANGED <<processor, avail_out, position, finalized_position, output_position,
                     stop_requested, task, error, client>>
  BY DEF writerVars, Lend
<1>3. position \in Nat
  BY <1>1 DEF TypeInv
<1>4. /\ DOMAIN internal_buffers \subseteq Nat
      /\ \A p \in DOMAIN internal_buffers : internal_buffers[p] \in ChunkRecords
  BY <1>1, ChunkFacts
<1> DEFINE D == DOMAIN internal_buffers
           none == [written |-> 0, data |-> <<>>]
<1>5. /\ DOMAIN internal_buffers' = D \union {position}
      /\ internal_buffers' = [p \in D \union {position} |-> internal_buffers'[p]]
      /\ \A p \in D : internal_buffers'[p] = internal_buffers[p]
      /\ position \notin D
      /\ internal_buffers'[position].written = 0 /\ internal_buffers'[position].data = <<>>
      /\ internal_buffers'[position] = none
  BY <1>2, NoChunkHere DEF Emplace
<1>6. TypeInv'
  <2>1. none \in ChunkRecords
    BY EmptyData DEF ChunkRecords
  <2>2. D \union {position} \in SUBSET Nat
    BY <1>3, <1>4
  <2>3. \A p \in D \union {position} : internal_buffers'[p] \in ChunkRecords
    BY <1>4, <1>5, <2>1
  <2>4. internal_buffers' \in ChunkSet
    <3> HIDE DEF D, none
    <3> QED BY <1>5, <2>2, <2>3, MakeChunks
  <2>5. buffer' \in [size : Nat, owned : BOOLEAN, at : Nat]
    BY <1>2
  <2> QED BY <1>1, <1>2, <2>4, <2>5 DEF TypeInv
<1>7. PlanInv' /\ Written' = Written /\ WholeFile' = WholeFile
  BY <1>1, <1>2, PlanCalm
<1>8. Lent' /\ buffer'.size = size /\ buffer'.owned = owned /\ buffer'.at = at
  BY <1>2 DEF Lent, NoBuffer
<1> HIDE DEF D, none
<1>9. ControlInv'
  BY <1>1, <1>2, <1>5, <1>8 DEF ControlInv, Wanting, External, Seeks, Order
<1>10. \A p \in D : p \in Nat /\ internal_buffers[p].written \in Nat \ {0}
  BY <1>1, ChunksAre DEF D, WrapperInv
<1>11. ChunkInv'
  <2>1. /\ \A q \in Written : q < Len(WholeFile)
        /\ \A q \in 0 .. finalized_position - 1 : q \in Written
        /\ finalized_position <= position
    BY <1>1 DEF WrapperInv, ChunkInv
  <2>2. ASSUME NEW p \in D
        PROVE  /\ internal_buffers[p].data = <<>> \/ Len(internal_buffers[p].data) = internal_buffers[p].written
               /\ \A q \in p .. p + internal_buffers[p].written - 1 : q \in Written
               /\ \A k \in 1 .. Len(internal_buffers[p].data) : internal_buffers[p].data[k] = WholeFile[p + k]
    BY <1>1 DEF WrapperInv, ChunkInv, Chunk, D
  <2>3. ASSUME NEW p \in D \union {position}
        PROVE  /\ internal_buffers'[p].written = 0 => Lent' /\ p = position'
               /\ internal_buffers'[p].data = <<>> \/ Len(internal_buffers'[p].data) = internal_buffers'[p].written
               /\ \A q \in p .. p + internal_buffers'[p].written - 1 : q \in Written'
               /\ \A k \in 1 .. Len(internal_buffers'[p].data) : internal_buffers'[p].data[k] = WholeFile'[p + k]
    <3>1. CASE p \in D
      BY <1>5, <1>7, <1>10, <2>2, <3>1
    <3>2. CASE p = position
      <4>1. internal_buffers'[p].written = 0 /\ internal_buffers'[p].data = <<>>
        BY <1>5, <3>2
      <4>2. p .. p + 0 - 1 = {} /\ 1 .. 0 = {} /\ Len(<<>>) = 0
        BY <1>3, <3>2
      <4> QED BY <1>2, <1>8, <3>2, <4>1, <4>2
    <3> QED BY <2>3, <3>1, <3>2
  <2>4. ASSUME NEW p \in D \union {position}, NEW q \in D \union {position}, p < q
        PROVE  p + internal_buffers'[p].written <= q
    <3>1. CASE p \in D /\ q \in D
      BY <1>1, <1>5, <2>4, <3>1 DEF WrapperInv, ChunkInv, Chunk, D
    <3>2. CASE p \in D /\ q = position
      <4>1. \A r \in D : r < position => r + internal_buffers[r].written <= position
        BY NoChunkHere DEF D
      <4> QED BY <1>5, <2>4, <3>2, <4>1
    <3>3. CASE p = position /\ q \in D
      <4>1. p \in Nat /\ q \in Nat /\ internal_buffers'[p].written = 0
        BY <1>3, <1>4, <1>5, <3>3 DEF D
      <4> QED BY <2>4, <4>1
    <3>4. CASE p = position /\ q = position
      BY <1>3, <2>4, <3>4
    <3> QED BY <3>1, <3>2, <3>3, <3>4
  <2> QED BY <1>2, <1>5, <1>7, <2>1, <2>3, <2>4 DEF ChunkInv, Chunk
<1>12. \A q : Covered(q) => Covered(q)'
  BY <1>5 DEF Covered, Covers, Chunk, D
<1>13. \A q : Right(q)' <=> Right(q)
  BY <1>2, <1>7 DEF Right
<1>14. DirectInv'
  <2> SUFFICES ASSUME ~ Seeks PROVE DirectInv'
    BY <1>2 DEF DirectInv, Seeks
  <2>1. /\ output_position <= finalized_position
        /\ \A p \in D : internal_buffers[p].written > 0 => p + internal_buffers[p].written > output_position
        /\ \A q \in Written : q >= output_position => Covered(q)
        /\ \A q \in 0 .. output_position - 1 : Right(q)
        /\ DOMAIN client.bytes \subseteq Written
    BY <1>1 DEF WrapperInv, DirectInv, D, Chunk
  <2>2. \A p \in D \union {position} :
          internal_buffers'[p].written > 0 => p + internal_buffers'[p].written > output_position
    BY <1>5, <2>1
  <2> QED BY <1>2, <1>5, <1>7, <1>12, <1>13, <2>1, <2>2 DEF DirectInv, Chunk
<1>15. \A p \in D \union {position} : InPlace(p)' => p \in D /\ InPlace(p)
  BY <1>5 DEF InPlace, Chunk
<1>16. WindowInv'
  <2>1. CASE External
    BY <1>2, <2>1 DEF WindowInv, External
  <2>2. CASE ~ External
    BY <1>1, <1>2, <1>5, <1>8, <1>13, <1>15, <2>2 DEF WrapperInv, WindowInv, External, Chunk, D
  <2> QED BY <2>1, <2>2
<1>17. StreamInv'
  <2>1. CASE processor # "stream"
    BY <1>2, <2>1 DEF StreamInv
  <2>2. CASE processor = "stream"
    BY <1>1, <1>2, <1>5, <1>8, <1>13, <1>15, <2>2 DEF WrapperInv, StreamInv, External, Chunk, D, Wanting
  <2> QED BY <2>1, <2>2
<1>18. SeekInv'
  <2>1. CASE ~ Seeks
    BY <1>2, <2>1 DEF SeekInv, Seeks
  <2>2. CASE Seeks
    <3>1. /\ client.finalized = finalized_position
          /\ client.position = output_position
          /\ finalized_position <= output_position
          /\ \A p \in D : internal_buffers[p].data = <<>>
          /\ \A q \in Written : (q < output_position \/ q >= position) => Right(q)
          /\ \A q \in Written : Covered(q)
          /\ DOMAIN client.bytes \subseteq Written
      BY <1>1, <2>2 DEF WrapperInv, SeekInv, Wanting, Chunk, D
    <3>2. \A p \in D \union {position} : internal_buffers'[p].data = <<>>
      BY <1>5, <3>1
    <3>3. External
      BY <2>2 DEF External, Seeks
    <3> QED BY <1>2, <1>5, <1>7, <1>8, <1>12, <1>13, <2>2, <3>1, <3>2, <3>3 DEF SeekInv, Chunk, Wanting
  <2> QED BY <2>1, <2>2
<1> QED BY <1>1, <1>2, <1>6, <1>7, <1>9, <1>11, <1>14, <1>16, <1>17, <1>18, InvNext, JxlpStays DEF WrapperInv

\* A buffer of the wrapper's own is large enough.
LEMMA OwnSizeIs ==
  ASSUME Inv, Wanting, NEW wanted \in Nat \ {0}
  PROVE  /\ OwnSize(wanted) \in Nat \ {0}
         /\ Order.op = "exact" /\ wanted >= Len(Order.data) => OwnSize(wanted) >= Len(Order.data)
         /\ Order.op = "packed" => OwnSize(wanted) = wanted
<1> DEFINE Later == {q \in DOMAIN internal_buffers : q > position}
           S == {wanted} \union {p - position : p \in Later}
           L == Len(Order.data)
<1>1. position \in Nat /\ DOMAIN internal_buffers \subseteq Nat
  BY ChunkFacts DEF Inv, TypeInv
<1>2. /\ \A p \in DOMAIN internal_buffers : p >= position => p >= position + L
      /\ Order.op = "packed" => \A p \in DOMAIN internal_buffers : p < position
      /\ L \in Nat \ {0}
  BY NoChunkHere
<1> HIDE DEF L
<1>3. \A p \in Later : p - position \in Nat \ {0} /\ p - position >= L
  BY <1>1, <1>2
<1>4. \A s \in S : s \in Nat \ {0} /\ (s = wanted \/ s >= L)
  BY <1>3
<1>5. S \in SUBSET Nat /\ S # {}
  BY <1>4
<1>6. OwnSize(wanted) = Lowest(S)
  BY DEF OwnSize
<1>7. OwnSize(wanted) \in S
  BY <1>5, <1>6, LowestIs
<1>8. Order.op = "packed" => S = {wanted}
  BY <1>1, <1>2
<1> HIDE DEF S
<1>9. OwnSize(wanted) \in Nat \ {0} /\ (OwnSize(wanted) = wanted \/ OwnSize(wanted) >= L)
  BY <1>4, <1>7
<1>10. Order.op = "packed" => OwnSize(wanted) = wanted
  BY <1>7, <1>8
<1> QED BY <1>9, <1>10 DEF L

LEMMA InvTakeBuffer ==
  ASSUME Inv, TakeBuffer
  PROVE  Inv'
<1> DEFINE L == Len(Order.data)
           wanted == Larger(MinSize, L)
<1>1. TypeInv /\ ControlInv /\ PlanInv
  BY DEF Inv
<1>2. Wanting /\ UNCHANGED writerVars
  BY DEF TakeBuffer, Ready, Running, Wanting, GetBuffer, WriteOps
<1>3. /\ avail_out \in Nat /\ position \in Nat /\ output_position \in Nat /\ client.position \in Nat
  BY <1>1 DEF TypeInv
<1>4. L \in Nat \ {0}
  BY <1>2, NoChunkHere
<1>5. /\ MinSize \in Nat \ {0}
      /\ Order.op = "append" => MinSize = 1
      /\ Order.op = "exact" => MinSize = L
  BY <1>2, <1>4, WriterAssumption DEF MinSize, Wanting, WriteOps
<1> HIDE DEF L
<1>6. wanted \in Nat \ {0} /\ wanted >= MinSize /\ wanted >= L
  BY <1>4, <1>5 DEF Larger
<1> HIDE DEF wanted
<1>7. OwnSize(wanted) \in Nat \ {0} /\ OwnSize(wanted) >= MinSize
  <2>1. /\ OwnSize(wanted) \in Nat \ {0}
        /\ Order.op = "exact" => OwnSize(wanted) >= L
        /\ Order.op = "packed" => OwnSize(wanted) = wanted
    BY <1>2, <1>6, OwnSizeIs DEF L
  <2>2. Order.op \in {"append", "exact", "packed"}
    BY <1>2 DEF Wanting, WriteOps
  <2>3. CASE Order.op = "append"
    BY <1>5, <2>1, <2>3
  <2>4. CASE Order.op = "exact"
    BY <1>5, <2>1, <2>4
  <2>5. CASE Order.op = "packed"
    BY <1>6, <2>1, <2>5
  <2> QED BY <2>1, <2>2, <2>3, <2>4, <2>5
<1>8. GetBuffer(MinSize, L)
  BY DEF TakeBuffer, L
<1>9. CASE stop_requested
  <2>1. Refuse
    BY <1>8, <1>9 DEF GetBuffer
  <2> QED BY <1>2, <2>1, InvRefuse
<1>10. CASE ~ stop_requested
  <2>1. AdditionalSize >= 0
    <3>1. CASE Seeks
      BY <1>2, <1>3, <1>10, <3>1 DEF Inv, SeekInv, Wanting, AdditionalSize
    <3>2. CASE ~ Seeks
      <4>1. output_position <= finalized_position /\ finalized_position <= position
        BY <3>2 DEF Inv, DirectInv, ChunkInv
      <4> QED BY <1>1, <1>3, <4>1 DEF AdditionalSize, TypeInv
    <3> QED BY <3>1, <3>2
  <2>2. Seeks => AdditionalSize = 0 /\ output_position = position
    BY <1>2, <1>3, <1>10 DEF Inv, SeekInv, Wanting, AdditionalSize
  <2>3. \/ External /\ AdditionalSize = 0 /\ AskProcessor(MinSize, wanted)
        \/ External /\ AdditionalSize > 0 /\ OwnBuffer(MinSize, wanted)
        \/ ~ External /\ FitsWindow(MinSize) /\ LendWindow
        \/ ~ External /\ ~ FitsWindow(MinSize) /\ OwnBuffer(MinSize, wanted)
    <3>1. AdditionalSize \in Int
      BY <1>3 DEF AdditionalSize
    <3>2. ~ (AdditionalSize < 0 \/ (Seeks /\ AdditionalSize # 0))
      BY <2>1, <2>2, <3>1
    <3> QED BY <1>8, <1>10, <3>2 DEF GetBuffer, wanted
  <2>4. ASSUME OwnBuffer(MinSize, wanted) PROVE Inv'
    <3>1. Lend(OwnSize(wanted), TRUE, 0)
      BY <1>7, <2>4 DEF OwnBuffer
    <3>2. PICK at \in Nat : at = 0
      OBVIOUS
    <3>3. PICK owned \in BOOLEAN : owned = TRUE
      OBVIOUS
    <3>4. PICK size \in Nat \ {0} : size = OwnSize(wanted)
      BY <1>7
    <3>5. Lend(size, owned, at)
      BY <3>1, <3>2, <3>3, <3>4
    <3> QED BY <1>2, <1>10, <2>2, <3>3, <3>5, InvLend
  <2>5. ASSUME External, AdditionalSize = 0, AskProcessor(MinSize, wanted) PROVE Inv'
    <3>1. PICK size \in Sizes :
            \/ size = 0 /\ Refuse
            \/ size > 0 /\ size < MinSize /\ OwnBuffer(MinSize, wanted)
            \/ size > 0 /\ size >= MinSize /\ Lend(size, FALSE, client.position)
      BY <2>5 DEF AskProcessor
    <3>2. CASE Refuse
      BY <1>2, <3>2, InvRefuse
    <3>3. CASE OwnBuffer(MinSize, wanted)
      BY <2>4, <3>3
    <3>4. CASE size > 0 /\ Lend(size, FALSE, client.position)
      <4>1. size \in Nat \ {0}
        BY <3>4, SizesAssumption
      <4>2. position = output_position
        BY <1>3, <2>5 DEF AdditionalSize
      <4>3. client.position = output_position
        <5>1. processor = "seek" \/ processor = "stream"
          BY <1>1, <2>5 DEF TypeInv, External
        <5> QED BY <1>2, <1>10, <5>1 DEF Inv, SeekInv, StreamInv, Seeks, Wanting
      <4>4. PICK owned \in BOOLEAN : owned = FALSE
        OBVIOUS
      <4>5. PICK at \in Nat : at = client.position
        BY <1>3
      <4>6. Lend(size, owned, at)
        BY <3>4, <4>4, <4>5
      <4> QED BY <1>2, <1>10, <2>2, <2>5, <4>1, <4>2, <4>3, <4>5, <4>6, InvLend
    <3> QED BY <3>1, <3>2, <3>3, <3>4
  <2>6. ASSUME ~ External, FitsWindow(MinSize), LendWindow PROVE Inv'
    <3>1. AdditionalSize \in Nat /\ position = output_position + AdditionalSize
      BY <1>3, <2>1 DEF AdditionalSize
    <3>2. client.position = output_position
      BY <2>6 DEF Inv, WindowInv
    <3>3. avail_out - AdditionalSize \in Nat \ {0}
      BY <1>3, <1>5, <2>6, <3>1 DEF FitsWindow
    <3>4. PICK size \in Nat \ {0} : size = avail_out - AdditionalSize
      BY <3>3
    <3>5. PICK at \in Nat : at = client.position + AdditionalSize
      BY <1>3, <3>1
    <3>6. PICK owned \in BOOLEAN : owned = FALSE
      OBVIOUS
    <3>7. Lend(size, owned, at)
      BY <2>6, <3>4, <3>5, <3>6 DEF LendWindow
    <3>8. at = position /\ position + size <= output_position + avail_out
      BY <1>3, <3>1, <3>2, <3>4, <3>5
    <3> QED BY <1>2, <1>10, <2>2, <2>6, <3>7, <3>8, InvLend
  <2> QED BY <2>3, <2>4, <2>5, <2>6
<1> QED BY <1>9, <1>10

-----------------------------------------------------------------------------
(* Filling a buffer.                                                       *)

\* While a buffer is lent, its chunk is empty and the others keep clear of it.
LEMMA LentFacts ==
  ASSUME Inv, Lent
  PROVE  /\ todo # <<>> /\ Order.op \in WriteOps /\ task = "none" /\ error = "none" /\ ~ stop_requested
         /\ Order.data \in Data /\ Len(Order.data) \in Nat \ {0}
         /\ Matches(Order.data, position)
         /\ buffer.size \in Nat \ {0} /\ buffer.owned \in BOOLEAN /\ buffer.at \in Nat
         /\ position \in Nat /\ position \in DOMAIN internal_buffers
         /\ internal_buffers[position].written = 0
         /\ \A q \in position .. position + Len(Order.data) - 1 : q \notin Written
         /\ \A q \in Written : q \in Nat /\ ~ (position <= q /\ q < position + Len(Order.data))
         /\ \A p \in DOMAIN internal_buffers \ {position} :
              /\ p \in Nat /\ internal_buffers[p].written \in Nat \ {0}
              /\ p < position => p + internal_buffers[p].written <= position
              /\ p > position => p >= position + Len(Order.data)
<1>1. TypeInv /\ PlanInv /\ ChunkInv /\ ControlInv
  BY DEF Inv
<1>2. /\ todo # <<>> /\ Order.op \in WriteOps /\ task = "none" /\ error = "none" /\ ~ stop_requested
      /\ Order.data # <<>> /\ buffer.size > 0 /\ position \in DOMAIN internal_buffers
  BY <1>1 DEF ControlInv
<1>3. /\ Order.data \in Data /\ Len(Order.data) \in Nat /\ Matches(Order.data, position)
      /\ \A q \in position .. position + Len(Order.data) - 1 : q \notin Written
      /\ \A q \in Written : q \in Nat
  BY <1>1, <1>2, WriteHere
<1>4. Len(Order.data) # 0 /\ position \in Nat
  BY <1>1, <1>2, <1>3, LenData DEF TypeInv
<1>5. buffer.size \in Nat \ {0} /\ buffer.owned \in BOOLEAN /\ buffer.at \in Nat
  BY <1>1, <1>2 DEF TypeInv
<1>6. \A p \in DOMAIN internal_buffers :
        /\ p \in Nat /\ internal_buffers[p].written \in Nat
        /\ internal_buffers[p].written = 0 => p = position
        /\ \A q \in p .. p + internal_buffers[p].written - 1 : q \in Written
  BY <1>1, ChunkFacts DEF ChunkInv, Chunk
<1> DEFINE L == Len(Order.data)
<1> HIDE DEF L
<1>7. L \in Nat \ {0} /\ \A q \in position .. position + L - 1 : q \notin Written
  BY <1>3, <1>4 DEF L
<1>8. position \notin Written
  BY <1>4, <1>7
<1>9. internal_buffers[position].written = 0
  <2> SUFFICES ASSUME internal_buffers[position].written # 0 PROVE FALSE
    OBVIOUS
  <2>1. position \in position .. position + internal_buffers[position].written - 1
    BY <1>2, <1>4, <1>6
  <2> QED BY <1>2, <1>6, <1>8, <2>1
<1>10. ASSUME NEW q \in Written PROVE q \in Nat /\ ~ (position <= q /\ q < position + L)
  BY <1>3, <1>4, <1>7
<1>11. ASSUME NEW p \in DOMAIN internal_buffers \ {position}
       PROVE  /\ p \in Nat /\ internal_buffers[p].written \in Nat \ {0}
              /\ p < position => p + internal_buffers[p].written <= position
              /\ p > position => p >= position + L
  <2>1. /\ p \in Nat /\ internal_buffers[p].written \in Nat \ {0}
        /\ \A q \in p .. p + internal_buffers[p].written - 1 : q \in Written
    BY <1>6
  <2>2. p \in Written
    BY <2>1
  <2>3. p < position => p + internal_buffers[p].written <= position
    BY <1>4, <1>8, <2>1
  <2>4. p > position => p >= position + L
    BY <1>4, <1>7, <2>1, <2>2
  <2> QED BY <2>1, <2>3, <2>4
<1> QED BY <1>2, <1>3, <1>4, <1>5, <1>9, <1>10, <1>11 DEF L

LEMMA InvFillBuffer ==
  ASSUME Inv, FillBuffer
  PROVE  Inv'
<1> DEFINE L == Len(Order.data)
           D == DOMAIN internal_buffers
           T == WholeFile
<1>1. TypeInv /\ JxlpInv /\ PlanInv /\ ControlInv /\ WrapperInv
  BY InvIs
<1>2. PICK n \in 1 .. Smaller(buffer.size, Len(Order.data)) :
        ReleaseBuffer(SubSeq(Order.data, 1, n)) /\ Filling(n)
  BY DEF FillBuffer, Filling
<1>3. Lent
  BY <1>2 DEF ReleaseBuffer, Lent
<1>4. status = "RUNNING" /\ UNCHANGED <<job, added, processed, jxlp_counter, holes, status>>
  BY DEF FillBuffer, Ready, Running
<1>5. /\ todo # <<>> /\ Order.op \in WriteOps /\ task = "none" /\ error = "none" /\ ~ stop_requested
      /\ Order.data \in Data /\ L \in Nat \ {0} /\ Matches(Order.data, position)
      /\ buffer.size \in Nat \ {0} /\ buffer.owned \in BOOLEAN /\ buffer.at \in Nat
      /\ position \in Nat /\ position \in D
      /\ internal_buffers[position].written = 0
      /\ \A q \in Written : q \in Nat /\ ~ (position <= q /\ q < position + L)
      /\ \A p \in D \ {position} :
           /\ p \in Nat /\ internal_buffers[p].written \in Nat \ {0}
           /\ p < position => p + internal_buffers[p].written <= position
           /\ p > position => p >= position + L
  BY <1>1, <1>3, LentFacts
<1>6. n \in Nat \ {0} /\ n <= L /\ n \in 0 .. Len(Order.data) /\ n <= buffer.size
  BY <1>2, <1>5 DEF Smaller
<1>7. PICK data : data = SubSeq(Order.data, 1, n)
  OBVIOUS
<1>8. data \in Data /\ Len(data) = n /\ \A k \in 1 .. Len(data) : data[k] = WholeFile[position + k]
  BY <1>5, <1>6, <1>7, RestIs DEF Matches
<1> HIDE DEF L, D, T
<1>9. /\ avail_out \in Nat /\ finalized_position \in Nat /\ output_position \in Nat
      /\ client \in [position : Nat, finalized : Nat, bytes : Memory]
      /\ client.position \in Nat /\ client.finalized \in Nat /\ client.bytes \in Memory
      /\ D \subseteq Nat /\ \A p \in D : internal_buffers[p] \in ChunkRecords
  BY <1>1, ChunkFacts DEF TypeInv, D
<1>10. CanRelease(data)
  <2>1. \A p \in D : p > position => p >= position + Len(data)
    BY <1>5, <1>6, <1>8, <1>9
  <2>2. Seeks /\ ~ buffer.owned => output_position = position /\ position + Len(data) >= finalized_position
    <3>1. Seeks => output_position = position
      BY <1>1, <1>3 DEF WrapperInv, SeekInv
    <3>2. finalized_position <= position
      BY <1>1 DEF WrapperInv, ChunkInv
    <3> QED BY <1>5, <1>6, <1>8, <1>9, <3>1, <3>2
  <2> QED BY <2>1, <2>2 DEF CanRelease, D
<1>11. /\ internal_buffers' = Filled(data)
       /\ IF buffer.owned THEN ReleaseOwnBuffer(data) ELSE ReleaseUserBuffer(data)
       /\ buffer' = NoBuffer
       /\ UNCHANGED <<processor, avail_out, stop_requested, error>>
  BY <1>2, <1>7, <1>10 DEF ReleaseBuffer
<1>12. position' = position + n
  BY <1>8, <1>11 DEF ReleaseOwnBuffer, ReleaseUserBuffer
<1>13. /\ PlanInv' /\ todo' \in Seq(OrderSet) /\ todo' # <<>>
       /\ \A q : q \in Written' <=> q \in Written \/ (q \in Nat /\ position <= q /\ q < position + n)
  BY <1>1, <1>2, <1>4, <1>5, <1>6, <1>12, PlanFilled
<1>14. WholeFile' = WholeFile /\ Len(WholeFile) \in Nat /\ position + L <= Len(WholeFile)
  BY <1>1, <1>4, <1>5, JobStays, FileLength DEF Matches, L
<1> DEFINE new == [written |-> n, data |-> IF buffer.owned THEN data ELSE <<>>]
<1>15. /\ DOMAIN internal_buffers' = D
       /\ internal_buffers' = [p \in D |-> internal_buffers'[p]]
       /\ \A p \in D : p # position => internal_buffers'[p] = internal_buffers[p]
       /\ internal_buffers'[position] = new
       /\ internal_buffers'[position].written = n
       /\ internal_buffers'[position].data = IF buffer.owned THEN data ELSE <<>>
  <2>1. D \union {position} = D
    BY <1>5
  <2> QED BY <1>5, <1>8, <1>11, <2>1 DEF Filled, D
<1>16. internal_buffers' \in ChunkSet
  <2>1. new \in ChunkRecords
    BY <1>6, <1>8, EmptyData DEF ChunkRecords
  <2>2. \A p \in D : internal_buffers'[p] \in ChunkRecords
    BY <1>9, <1>15, <2>1
  <2> QED BY <1>9, <1>15, <2>2, MakeChunks
<1> HIDE DEF new
<1>17. ~ Lent'
  BY <1>11 DEF Lent
\* Whatever is stored comes where it belongs.
<1>18. /\ Stored(client.bytes, position, data) \in Memory
       /\ DOMAIN Stored(client.bytes, position, data) = DOMAIN client.bytes \union position .. position + n - 1
       /\ \A q \in position .. position + n - 1 : Stored(client.bytes, position, data)[q] = WholeFile[q + 1]
       /\ \A q \in DOMAIN client.bytes :
            ~ (position <= q /\ q < position + n) => Stored(client.bytes, position, data)[q] = client.bytes[q]
  <2>1. position \in Nat /\ data \in Data /\ client.bytes \in Memory
    BY <1>5, <1>8, <1>9
  <2>2. \A k \in 1 .. Len(data) : data[k] = WholeFile[position + k]
    BY <1>8
  <2>3. Stored(client.bytes, position, data) \in Memory
    BY <2>1, <2>2, StoredRight
  <2>4. DOMAIN Stored(client.bytes, position, data) = DOMAIN client.bytes \union position .. position + Len(data) - 1
    <3>1. PICK bytes \in Memory : bytes = client.bytes
      BY <2>1
    <3>2. PICK at \in Nat : at = position
      BY <2>1
    <3>3. \A k \in 1 .. Len(data) : data[k] = WholeFile[at + k]
      BY <2>2, <3>2
    <3>4. DOMAIN Stored(bytes, at, data) = DOMAIN bytes \union at .. at + Len(data) - 1
      BY ONLY <2>1, <3>3, at \in Nat, bytes \in Memory, StoredRight
    <3> QED BY <3>1, <3>2, <3>4
  <2>5. \A q \in position .. position + Len(data) - 1 : Stored(client.bytes, position, data)[q] = WholeFile[q + 1]
    BY <2>1, <2>2, StoredRight
  <2>6. \A q \in DOMAIN client.bytes :
          ~ (position <= q /\ q < position + Len(data)) => Stored(client.bytes, position, data)[q] = client.bytes[q]
    BY <2>1, <2>2, StoredRight
  <2> QED BY <1>8, <2>3, <2>4, <2>5, <2>6
\* The chunks.
<1>19. ASSUME finalized_position' = finalized_position \/ (finalized_position' = position' /\ finalized_position = position)
       PROVE  ChunkInv'
  <2>1. /\ \A q \in Written : q < Len(WholeFile)
        /\ \A q \in 0 .. finalized_position - 1 : q \in Written
        /\ finalized_position <= position
    BY <1>1 DEF WrapperInv, ChunkInv
  <2>2. \A q \in Written' : q < Len(WholeFile')
    BY <1>5, <1>6, <1>13, <1>14, <2>1
  <2>3. \A q \in 0 .. finalized_position' - 1 : q \in Written'
    BY <1>5, <1>6, <1>9, <1>12, <1>13, <1>19, <2>1
  <2>4. finalized_position' <= position'
    BY <1>5, <1>6, <1>9, <1>12, <1>19, <2>1
  <2>5. ASSUME NEW p \in D
        PROVE  /\ internal_buffers'[p].written # 0
               /\ internal_buffers'[p].data = <<>> \/ Len(internal_buffers'[p].data) = internal_buffers'[p].written
               /\ \A q \in p .. p + internal_buffers'[p].written - 1 : q \in Written'
               /\ \A k \in 1 .. Len(internal_buffers'[p].data) : internal_buffers'[p].data[k] = WholeFile'[p + k]
    <3>1. CASE p # position
      <4>1. /\ internal_buffers[p].data = <<>> \/ Len(internal_buffers[p].data) = internal_buffers[p].written
            /\ \A q \in p .. p + internal_buffers[p].written - 1 : q \in Written
            /\ \A k \in 1 .. Len(internal_buffers[p].data) : internal_buffers[p].data[k] = WholeFile[p + k]
        BY <1>1 DEF WrapperInv, ChunkInv, Chunk, D
      <4> QED BY <1>5, <1>13, <1>14, <1>15, <3>1, <4>1
    <3>2. CASE p = position
      <4>1. \A q \in position .. position + n - 1 : q \in Written'
        BY <1>5, <1>6, <1>13
      <4>2. CASE buffer.owned
        BY <1>6, <1>8, <1>14, <1>15, <3>2, <4>1, <4>2
      <4>3. CASE ~ buffer.owned
        <5>1. 1 .. Len(<<>>) = {}
          BY EmptyData
        <5> QED BY <1>6, <1>15, <3>2, <4>1, <4>3, <5>1
      <4> QED BY <4>2, <4>3
    <3> QED BY <3>1, <3>2
  <2>6. ASSUME NEW p \in D, NEW q \in D, p < q
        PROVE  p + internal_buffers'[p].written <= q
    <3>1. CASE p # position
      BY <1>1, <1>15, <2>6, <3>1 DEF WrapperInv, ChunkInv, Chunk, D
    <3>2. CASE p = position
      <4>1. q \in Nat /\ q >= position + L
        BY <1>5, <1>9, <2>6, <3>2
      <4> QED BY <1>5, <1>6, <1>15, <3>2, <4>1
    <3> QED BY <3>1, <3>2
  <2> QED BY <1>15, <2>2, <2>3, <2>4, <2>5, <2>6 DEF ChunkInv, Chunk
\* What is covered.
<1>20. /\ \A q \in Nat : Covered(q) => Covered(q)'
       /\ \A q \in position .. position + n - 1 : Covered(q)'
  <2>1. ASSUME NEW q \in Nat, Covered(q) PROVE Covered(q)'
    <3>1. PICK p \in D : p <= q /\ q < p + internal_buffers[p].written
      BY <2>1 DEF Covered, Covers, Chunk, D
    <3>2. p # position
      BY <1>5, <3>1
    <3> QED BY <1>15, <3>1, <3>2 DEF Covered, Covers, Chunk
  <2>2. ASSUME NEW q \in position .. position + n - 1 PROVE Covered(q)'
    <3>1. position <= q /\ q < position + internal_buffers'[position].written
      BY <1>5, <1>6, <1>15
    <3> QED BY <1>5, <1>15, <3>1 DEF Covered, Covers, Chunk
  <2> QED BY <2>1, <2>2
<1>21. /\ TypeInv' <=> /\ finalized_position' \in Nat /\ output_position' \in Nat
                       /\ task' \in {"none", "append", "flush", "settle"}
                       /\ client' \in [position : Nat, finalized : Nat, bytes : Memory]
  <2>1. position' \in Nat
    BY <1>5, <1>6, <1>12
  <2>2. buffer' \in [size : Nat, owned : BOOLEAN, at : Nat]
    BY <1>11 DEF NoBuffer
  <2> QED BY <1>1, <1>4, <1>11, <1>13, <1>16, <2>1, <2>2 DEF TypeInv
<1>22. JxlpInv'
  BY <1>1, <1>4, JxlpStays
<1>23. ASSUME task' = "append" => Seeks, task' = "settle" => processor = "stream", task' # "flush"
       PROVE  ControlInv'
  BY <1>4, <1>5, <1>11, <1>13, <1>17, <1>23 DEF ControlInv, Seeks, External
<1>24. /\ finalized_position <= position /\ finalized_position \in Nat
       /\ ~ Seeks => output_position <= position
  BY <1>1, <1>5, <1>9 DEF WrapperInv, ChunkInv, DirectInv
<1>25. CASE buffer.owned /\ ~ Seeks
  <2>1. /\ output_position' = output_position /\ client' = client /\ task' = "none"
        /\ finalized_position' = finalized_position
    BY <1>11, <1>25 DEF ReleaseOwnBuffer
  <2>2. TypeInv'
    BY <1>9, <1>21, <2>1
  <2>3. ControlInv'
    BY <1>23, <2>1
  <2>4. ChunkInv'
    BY <1>19, <2>1
  <2>5. \A q : Right(q)' <=> Right(q)
    BY <1>14, <2>1 DEF Right
  <2>6. DirectInv'
    <3>1. /\ output_position <= finalized_position
          /\ \A p \in D : internal_buffers[p].written > 0 => p + internal_buffers[p].written > output_position
          /\ \A q \in Written : q >= output_position => Covered(q)
          /\ \A q \in 0 .. output_position - 1 : Right(q)
          /\ DOMAIN client.bytes \subseteq Written
      BY <1>1, <1>25 DEF WrapperInv, DirectInv, Chunk, D
    <3>2. \A p \in D : p + internal_buffers'[p].written > output_position'
      BY <1>5, <1>6, <1>9, <1>15, <1>24, <1>25, <2>1, <3>1
    <3>3. \A q \in Written' : q >= output_position' => Covered(q)'
      BY <1>5, <1>6, <1>13, <1>20, <2>1, <3>1
    <3>4. DOMAIN client'.bytes \subseteq Written'
      BY <1>13, <2>1, <3>1
    <3> QED BY <1>15, <2>1, <2>5, <3>1, <3>2, <3>3, <3>4 DEF DirectInv, Chunk
  <2>7. \A p \in D : InPlace(p)' => p # position /\ InPlace(p)
    <3>1. data # <<>>
      BY <1>6, <1>8, LenData
    <3> QED BY <1>15, <1>25, <3>1 DEF InPlace, Chunk
  <2>8. WindowInv'
    <3>1. CASE External
      BY <1>11, <3>1 DEF WindowInv, External
    <3>2. CASE ~ External
      <4>1. /\ client.position = output_position
            /\ \A p \in D : InPlace(p) => /\ p + internal_buffers[p].written <= output_position + avail_out
                                          /\ \A q \in p .. p + internal_buffers[p].written - 1 : Right(q)
        BY <1>1, <3>2 DEF WrapperInv, WindowInv, Chunk, D
      <4> QED BY <1>11, <1>15, <1>17, <2>1, <2>5, <2>7, <4>1 DEF WindowInv, Chunk
    <3> QED BY <3>1, <3>2
  <2>9. StreamInv'
    <3>1. CASE processor # "stream"
      BY <1>11, <3>1 DEF StreamInv
    <3>2. CASE processor = "stream"
      <4>1. /\ client.finalized = output_position /\ client.position = output_position
            /\ \A p \in D : ~ InPlace(p)
        BY <1>1, <1>5, <3>2 DEF WrapperInv, StreamInv, D
      <4>2. \A p \in D : ~ InPlace(p)'
        BY <2>7, <4>1
      <4> QED BY <1>15, <1>17, <2>1, <4>1, <4>2 DEF StreamInv
    <3> QED BY <3>1, <3>2
  <2>10. SeekInv'
    BY <1>11, <1>25 DEF SeekInv, Seeks
  <2> QED BY <1>13, <1>22, <2>2, <2>3, <2>4, <2>6, <2>8, <2>9, <2>10, InvNext DEF WrapperInv
<1>26. CASE buffer.owned /\ Seeks
  <2>0. /\ output_position = position /\ client.finalized = finalized_position
        /\ client.position = output_position
        /\ \A p \in D : internal_buffers[p].data = <<>>
        /\ \A q \in Written : Right(q) /\ Covered(q)
        /\ DOMAIN client.bytes \subseteq Written
    <3>1. /\ output_position = position /\ client.finalized = finalized_position
          /\ client.position = output_position
          /\ \A p \in D : internal_buffers[p].data = <<>>
          /\ \A q \in Written : (q < output_position \/ q >= position) => Right(q)
          /\ \A q \in Written : Covered(q)
          /\ DOMAIN client.bytes \subseteq Written
      BY <1>1, <1>3, <1>5, <1>26 DEF WrapperInv, SeekInv, Chunk, D
    <3> QED BY <1>5, <3>1
  <2>1. /\ output_position' = position /\ task' = "append"
        /\ finalized_position' = finalized_position
        /\ client' = [client EXCEPT !.position = position]
    BY <1>11, <1>26 DEF ReleaseOwnBuffer
  <2>2. /\ client'.position = position /\ client'.finalized = client.finalized /\ client'.bytes = client.bytes
        /\ client' \in [position : Nat, finalized : Nat, bytes : Memory]
    BY <1>5, <1>9, <2>1
  <2>3. TypeInv'
    BY <1>5, <1>9, <1>21, <2>1, <2>2
  <2>4. ControlInv'
    BY <1>23, <1>26, <2>1
  <2>5. ChunkInv'
    BY <1>19, <2>1
  <2>6. \A q : Right(q)' <=> Right(q)
    BY <1>14, <2>2 DEF Right
  <2>7. DirectInv' /\ WindowInv' /\ StreamInv'
    BY <1>11, <1>26 DEF DirectInv, WindowInv, StreamInv, Seeks, External
  <2>8. position < position' /\ data # <<>>
    BY <1>5, <1>6, <1>8, <1>12, LenData
  <2>9. SeekInv'
    <3>1. \A q \in Written' : Covered(q)'
      BY <1>5, <1>13, <1>20, <2>0
    <3>2. \A q \in Written' : q < position \/ q >= position' => Right(q)'
      BY <1>5, <1>12, <1>13, <2>0, <2>6
    <3>3. \A p \in D : internal_buffers'[p].data # <<>> => p = position
      BY <1>15, <2>0
    <3>4. internal_buffers'[position].data # <<>> /\ position + internal_buffers'[position].written = position'
      BY <1>12, <1>15, <1>26, <2>8
    <3>5. DOMAIN client'.bytes \subseteq Written'
      BY <1>13, <2>0, <2>2
    <3>6. position \in D /\ position <= position
      BY <1>5
    <3>7. finalized_position' <= position
      BY <1>24, <2>1
    <3> QED BY <1>11, <1>15, <1>17, <2>0, <2>1, <2>2, <2>8, <3>1, <3>2, <3>3, <3>4, <3>5, <3>6, <3>7
       DEF SeekInv, Chunk
  <2> QED BY <1>13, <1>22, <2>3, <2>4, <2>5, <2>7, <2>9, InvNext DEF WrapperInv
\* A buffer of the client's: the bytes are in place at once.
<1>27. ASSUME ~ buffer.owned, buffer.at = position
       PROVE  /\ client'.bytes = Stored(client.bytes, position, data)
              /\ client'.finalized = client.finalized
              /\ client'.position = IF External THEN client.position + n ELSE client.position
              /\ client' \in [position : Nat, finalized : Nat, bytes : Memory]
              /\ \A q \in Nat : Right(q) /\ ~ (position <= q /\ q < position + n) => Right(q)'
              /\ \A q \in position .. position + n - 1 : Right(q)'
              /\ DOMAIN client.bytes \subseteq Written => DOMAIN client'.bytes \subseteq Written'
  <2>1. client' = [client EXCEPT !.bytes = Stored(@, buffer.at, data),
                                 !.position = IF External THEN @ + Len(data) ELSE @]
    BY <1>11, <1>27 DEF ReleaseUserBuffer
  <2>2. /\ client'.bytes = Stored(client.bytes, position, data)
        /\ client'.finalized = client.finalized
        /\ client'.position = IF External THEN client.position + n ELSE client.position
    BY <1>8, <1>9, <1>27, <2>1
  <2>3. client' \in [position : Nat, finalized : Nat, bytes : Memory]
    <3>1. PICK m \in Memory : m = Stored(client.bytes, position, data)
      BY <1>18
    <3>2. PICK k \in Nat : k = IF External THEN client.position + n ELSE client.position
      BY <1>6, <1>9
    <3>3. client' = [client EXCEPT !.bytes = m, !.position = k]
      BY <1>8, <1>9, <1>27, <2>1, <3>1, <3>2
    <3> QED BY <1>9, <3>3
  <2>4. \A q \in Nat : Right(q) /\ ~ (position <= q /\ q < position + n) => Right(q)'
    BY <1>14, <1>18, <2>2 DEF Right
  <2>5. \A q \in position .. position + n - 1 : Right(q)'
    BY <1>14, <1>18, <2>2 DEF Right
  <2>6. DOMAIN client.bytes \subseteq Written => DOMAIN client'.bytes \subseteq Written'
    BY <1>5, <1>6, <1>13, <1>18, <2>2
  <2> QED BY <2>2, <2>3, <2>4, <2>5, <2>6
<1>28. CASE ~ buffer.owned /\ processor = "window"
  <2>0. /\ client.position = output_position
        /\ buffer.at = position /\ position + buffer.size <= output_position + avail_out
        /\ \A p \in D : InPlace(p) => /\ p + internal_buffers[p].written <= output_position + avail_out
                                      /\ \A q \in p .. p + internal_buffers[p].written - 1 : Right(q)
    BY <1>1, <1>3, <1>28 DEF WrapperInv, WindowInv, External, Chunk, D
  <2>1. /\ output_position' = output_position /\ finalized_position' = finalized_position /\ task' = "none"
    BY <1>11, <1>28 DEF ReleaseUserBuffer, Seeks
  <2>2. /\ client'.position = client.position
        /\ client' \in [position : Nat, finalized : Nat, bytes : Memory]
        /\ \A q \in Nat : Right(q) /\ ~ (position <= q /\ q < position + n) => Right(q)'
        /\ \A q \in position .. position + n - 1 : Right(q)'
        /\ DOMAIN client.bytes \subseteq Written => DOMAIN client'.bytes \subseteq Written'
    BY <1>27, <1>28, <2>0 DEF External
  <2>3. TypeInv'
    BY <1>9, <1>21, <2>1, <2>2
  <2>4. ControlInv'
    BY <1>23, <2>1
  <2>5. ChunkInv'
    BY <1>19, <2>1
  <2>6. DirectInv'
    <3>1. /\ output_position <= finalized_position
          /\ \A p \in D : internal_buffers[p].written > 0 => p + internal_buffers[p].written > output_position
          /\ \A q \in Written : q >= output_position => Covered(q)
          /\ \A q \in 0 .. output_position - 1 : Right(q)
          /\ DOMAIN client.bytes \subseteq Written
      BY <1>1, <1>28 DEF WrapperInv, DirectInv, Chunk, D, Seeks
    <3>2. \A p \in D : p + internal_buffers'[p].written > output_position'
      BY <1>5, <1>6, <1>9, <1>15, <1>24, <1>28, <2>1, <3>1 DEF Seeks
    <3>3. \A q \in Written' : q >= output_position' => Covered(q)'
      BY <1>5, <1>6, <1>13, <1>20, <2>1, <3>1
    <3>4. \A q \in 0 .. output_position' - 1 : Right(q)'
      <4>1. output_position <= position
        BY <1>24, <1>28 DEF Seeks
      <4>2. \A q \in 0 .. output_position - 1 : q \in Nat /\ q < position
        BY <1>5, <1>9, <4>1
      <4> QED BY <2>1, <2>2, <3>1, <4>2, <1>5
    <3> QED BY <1>15, <2>1, <2>2, <3>1, <3>2, <3>3, <3>4 DEF DirectInv, Chunk
  <2>7. \A p \in D : p # position => (InPlace(p)' <=> InPlace(p))
    BY <1>15 DEF InPlace, Chunk
  <2>8. WindowInv'
    <3>1. ASSUME NEW p \in D, InPlace(p)'
          PROVE  /\ p + internal_buffers'[p].written <= output_position' + avail_out'
                 /\ \A q \in p .. p + internal_buffers'[p].written - 1 : Right(q)'
      <4>1. CASE p = position
        <5>1. internal_buffers'[p].written = n
          BY <1>15, <4>1
        <5>2. position + n <= output_position + avail_out
          BY <1>5, <1>6, <1>9, <2>0
        <5> QED BY <1>11, <2>1, <2>2, <4>1, <5>1, <5>2
      <4>2. CASE p # position
        <5>1. /\ internal_buffers'[p].written = internal_buffers[p].written
              /\ p + internal_buffers[p].written <= output_position + avail_out
              /\ \A q \in p .. p + internal_buffers[p].written - 1 : Right(q)
          BY <1>15, <2>0, <2>7, <3>1, <4>2
        <5>2. ASSUME NEW q \in p .. p + internal_buffers[p].written - 1 PROVE Right(q)'
          <6>1. /\ p \in Nat /\ internal_buffers[p].written \in Nat \ {0}
                /\ p < position => p + internal_buffers[p].written <= position
                /\ p > position => p >= position + L
            BY <1>5, <4>2
          <6>2. q \in Nat /\ ~ (position <= q /\ q < position + n)
            BY <1>5, <1>6, <4>2, <6>1
          <6> QED BY <2>2, <5>1, <6>2
        <5> QED BY <1>11, <2>1, <5>1, <5>2
      <4> QED BY <4>1, <4>2
    <3>2. client'.position = output_position'
      BY <2>0, <2>1, <2>2
    <3> QED BY <1>15, <1>17, <3>1, <3>2 DEF WindowInv, Chunk
  <2>9. StreamInv' /\ SeekInv'
    BY <1>11, <1>28 DEF StreamInv, SeekInv, Seeks
  <2> QED BY <1>13, <1>22, <2>3, <2>4, <2>5, <2>6, <2>8, <2>9, InvNext DEF WrapperInv
<1>29. CASE ~ buffer.owned /\ processor = "stream"
  <2>0. /\ client.finalized = output_position /\ client.position = output_position
        /\ buffer.at = position /\ position = output_position
        /\ \A p \in D : ~ InPlace(p)
    BY <1>1, <1>3, <1>5, <1>29 DEF WrapperInv, StreamInv, D
  <2>1. /\ output_position' = output_position /\ finalized_position' = position' /\ task' = "settle"
    BY <1>11, <1>29 DEF ReleaseUserBuffer, Seeks
  <2>2. /\ client'.position = client.position + n /\ client'.finalized = client.finalized
        /\ client' \in [position : Nat, finalized : Nat, bytes : Memory]
        /\ \A q \in Nat : Right(q) /\ ~ (position <= q /\ q < position + n) => Right(q)'
        /\ \A q \in position .. position + n - 1 : Right(q)'
        /\ DOMAIN client.bytes \subseteq Written => DOMAIN client'.bytes \subseteq Written'
    BY <1>27, <1>29, <2>0 DEF External
  <2>3. TypeInv'
    BY <1>5, <1>6, <1>9, <1>12, <1>21, <2>1, <2>2
  <2>4. ControlInv'
    BY <1>23, <1>29, <2>1
  <2>10. /\ output_position <= finalized_position
         /\ \A p \in D : internal_buffers[p].written > 0 => p + internal_buffers[p].written > output_position
         /\ \A q \in Written : q >= output_position => Covered(q)
         /\ \A q \in 0 .. output_position - 1 : Right(q)
         /\ DOMAIN client.bytes \subseteq Written
    BY <1>1, <1>29 DEF WrapperInv, DirectInv, Chunk, D, Seeks
  <2>5. ChunkInv'
    <3>1. finalized_position = position
      BY <1>5, <1>9, <1>24, <2>0, <2>10
    <3> QED BY <1>19, <2>1, <3>1
  <2>11. \A q \in 0 .. position' - 1 : Right(q)'
    <3> TAKE q \in 0 .. position' - 1
    <3>1. CASE q < position
      <4>1. q \in Nat /\ q \in 0 .. output_position - 1
        BY <1>5, <1>6, <1>12, <2>0, <3>1
      <4> QED BY <1>5, <2>2, <2>10, <3>1, <4>1
    <3>2. CASE ~ (q < position)
      <4>1. q \in position .. position + n - 1
        BY <1>5, <1>6, <1>12, <3>2
      <4> QED BY <2>2, <4>1
    <3> QED BY <3>1, <3>2
  <2>6. DirectInv'
    <3>2. \A p \in D : p + internal_buffers'[p].written > output_position'
      BY <1>5, <1>6, <1>9, <1>15, <1>24, <1>29, <2>1, <2>10 DEF Seeks
    <3>3. \A q \in Written' : q >= output_position' => Covered(q)'
      BY <1>5, <1>6, <1>13, <1>20, <2>1, <2>10
    <3>4. \A q \in 0 .. output_position' - 1 : Right(q)'
      BY <1>5, <1>6, <1>12, <2>0, <2>1, <2>11
    <3>5. output_position' <= finalized_position'
      BY <1>5, <1>6, <1>12, <2>0, <2>1
    <3> QED BY <1>15, <2>2, <2>10, <3>2, <3>3, <3>4, <3>5 DEF DirectInv, Chunk
  <2>8. WindowInv' /\ SeekInv'
    BY <1>11, <1>29 DEF WindowInv, SeekInv, Seeks, External
  <2>9. StreamInv'
    <3>0. PICK s \in D : s = position
      BY <1>5
    <3>1. \A p \in D : InPlace(p)' => p = s
      BY <1>15, <2>0, <3>0 DEF InPlace, Chunk
    <3>2. InPlace(s)'
      BY <1>6, <1>15, <1>29, <3>0 DEF InPlace, Chunk
    <3>3. s + internal_buffers'[s].written = position'
      BY <1>12, <1>15, <3>0
    <3>4. client'.position = position' /\ client'.finalized = output_position'
      BY <1>12, <2>0, <2>1, <2>2
    <3>5. output_position' = s /\ s \in DOMAIN internal_buffers'
      BY <1>15, <2>0, <2>1, <3>0
    <3>6. InPlace(output_position)'
      BY <3>2, <3>5 DEF InPlace, Chunk
    <3> QED BY <1>15, <1>17, <2>1, <2>11, <3>1, <3>3, <3>4, <3>5, <3>6 DEF StreamInv, Chunk
  <2> QED BY <1>13, <1>22, <2>3, <2>4, <2>5, <2>6, <2>8, <2>9, InvNext DEF WrapperInv
<1>30. CASE ~ buffer.owned /\ Seeks
  <2>0. /\ output_position = position /\ client.finalized = finalized_position
        /\ client.position = output_position /\ buffer.at = position
        /\ \A p \in D : internal_buffers[p].data = <<>>
        /\ \A q \in Written : Right(q) /\ Covered(q)
        /\ DOMAIN client.bytes \subseteq Written
    <3>1. /\ output_position = position /\ client.finalized = finalized_position
          /\ client.position = output_position /\ buffer.at = position
          /\ \A p \in D : internal_buffers[p].data = <<>>
          /\ \A q \in Written : (q < output_position \/ q >= position) => Right(q)
          /\ \A q \in Written : Covered(q)
          /\ DOMAIN client.bytes \subseteq Written
      BY <1>1, <1>3, <1>5, <1>30 DEF WrapperInv, SeekInv, Chunk, D
    <3> QED BY <1>5, <3>1
  <2>1. /\ output_position' = output_position + n /\ finalized_position' = finalized_position /\ task' = "none"
    BY <1>8, <1>11, <1>30 DEF ReleaseUserBuffer, Seeks
  <2>2. /\ client'.position = client.position + n /\ client'.finalized = client.finalized
        /\ client' \in [position : Nat, finalized : Nat, bytes : Memory]
        /\ \A q \in Nat : Right(q) /\ ~ (position <= q /\ q < position + n) => Right(q)'
        /\ \A q \in position .. position + n - 1 : Right(q)'
        /\ DOMAIN client.bytes \subseteq Written => DOMAIN client'.bytes \subseteq Written'
    BY <1>27, <1>30, <2>0 DEF External, Seeks
  <2>3. TypeInv'
    BY <1>6, <1>9, <1>21, <2>1, <2>2
  <2>4. ControlInv'
    BY <1>23, <2>1
  <2>5. ChunkInv'
    BY <1>19, <2>1
  <2>7. DirectInv' /\ WindowInv' /\ StreamInv'
    BY <1>11, <1>30 DEF DirectInv, WindowInv, StreamInv, Seeks, External
  <2>9. SeekInv'
    <3>1. \A q \in Written' : Covered(q)'
      BY <1>5, <1>6, <1>13, <1>20, <2>0
    <3>2. \A q \in Written' : Right(q)'
      <4> TAKE q \in Written'
      <4>1. CASE q \in Written
        BY <1>5, <1>6, <2>0, <2>2, <4>1
      <4>2. CASE q \notin Written
        <5>1. q \in position .. position + n - 1
          BY <1>5, <1>6, <1>13, <4>2
        <5> QED BY <2>2, <5>1
      <4> QED BY <4>1, <4>2
    <3>3. \A p \in D : internal_buffers'[p].data = <<>>
      BY <1>15, <1>30, <2>0
    <3>4. DOMAIN client'.bytes \subseteq Written'
      BY <2>0, <2>2
    <3>5. /\ output_position' = position' /\ client'.position = output_position'
          /\ finalized_position' <= output_position'
      BY <1>5, <1>6, <1>9, <1>12, <1>24, <2>0, <2>1, <2>2
    <3> QED BY <1>11, <1>15, <1>17, <2>0, <2>1, <2>2, <3>1, <3>2, <3>3, <3>4, <3>5
       DEF SeekInv, Chunk
  <2> QED BY <1>13, <1>22, <2>3, <2>4, <2>5, <2>7, <2>9, InvNext DEF WrapperInv
<1>31. processor \in {"window", "stream", "seek"}
  BY <1>1 DEF TypeInv
<1> QED BY <1>25, <1>26, <1>28, <1>29, <1>30, <1>31 DEF Seeks

-----------------------------------------------------------------------------
(* Seeking, finalizing, and a new window.                                  *)

LEMMA InvSeek ==
  ASSUME Inv, status = "RUNNING", task = "none", error = "none", ~ Lent,
         NEW pos \in Nat, pos >= finalized_position, Seek(pos),
         UNCHANGED <<job, added, processed, jxlp_counter, status>>,
         Written' = Written, PlanInv', todo' \in Seq(OrderSet), todo' # <<>>, holes' \in Seq(Holes)
  PROVE  Inv'
<1>1. TypeInv /\ JxlpInv /\ PlanInv /\ ControlInv /\ WrapperInv
  BY InvIs
<1>2. /\ client' = (IF Seeks THEN [client EXCEPT !.position = pos] ELSE client)
      /\ output_position' = (IF Seeks THEN pos ELSE output_position)
      /\ position' = pos
      /\ UNCHANGED <<processor, avail_out, internal_buffers, finalized_position, stop_requested,
                     buffer, task, error>>
  BY DEF Seek
<1>3. /\ output_position \in Nat /\ finalized_position \in Nat
      /\ client \in [position : Nat, finalized : Nat, bytes : Memory]
  BY <1>1 DEF TypeInv
<1>4. client' \in [position : Nat, finalized : Nat, bytes : Memory]
  BY <1>2, <1>3
<1>5. TypeInv'
  BY <1>1, <1>2, <1>3, <1>4 DEF TypeInv
<1>6. ControlInv'
  BY <1>1, <1>2 DEF ControlInv, Lent, External, Seeks
<1>7. WholeFile' = WholeFile
  BY JobStays
<1>8. client'.bytes = client.bytes /\ client'.finalized = client.finalized
  BY <1>2, <1>3
<1>9. ChunkInv'
  <2>1. \A p \in DOMAIN internal_buffers : internal_buffers[p].written # 0
    BY <1>1 DEF WrapperInv, ChunkInv, Chunk
  <2> QED BY <1>1, <1>2, <1>7, <2>1 DEF WrapperInv, ChunkInv, Chunk, Lent
<1>10. \A q : (Right(q)' <=> Right(q)) /\ (Covered(q)' <=> Covered(q))
  BY <1>2, <1>7, <1>8 DEF Right, Covered, Covers, Chunk
<1>11. \A p : InPlace(p)' <=> InPlace(p)
  BY <1>2 DEF InPlace, Chunk
<1>12. DirectInv'
  BY <1>1, <1>2, <1>10 DEF WrapperInv, DirectInv, Seeks, Chunk
<1>13. WindowInv'
  <2>1. CASE External
    BY <1>2, <2>1 DEF WindowInv, External
  <2>2. CASE ~ External
    BY <1>1, <1>2, <1>10, <1>11, <2>2 DEF WrapperInv, WindowInv, External, Seeks, Chunk, Lent
  <2> QED BY <2>1, <2>2
<1>14. StreamInv'
  BY <1>1, <1>2, <1>11 DEF WrapperInv, StreamInv, Seeks, Lent
<1>15. SeekInv'
  <2>1. CASE ~ Seeks
    BY <1>2, <2>1 DEF SeekInv, Seeks
  <2>2. CASE Seeks
    <3>1. output_position' = position' /\ client'.position = output_position'
      BY <1>2, <1>3, <2>2
    <3>2. /\ client.finalized = finalized_position
          /\ \A q \in Written : Covered(q) \/ \A p \in DOMAIN internal_buffers : q < p
      BY <1>1, <2>2 DEF WrapperInv, SeekInv
    <3>3. ASSUME ~ stop_requested
          PROVE  /\ \A p \in DOMAIN internal_buffers : internal_buffers[p].data = <<>>
                 /\ \A q \in Written : Right(q) /\ Covered(q)
                 /\ DOMAIN client.bytes \subseteq Written
      <4>1. /\ output_position = position
            /\ \A p \in DOMAIN internal_buffers : internal_buffers[p].data = <<>>
            /\ \A q \in Written : (q < output_position \/ q >= position) => Right(q)
            /\ \A q \in Written : Covered(q)
            /\ DOMAIN client.bytes \subseteq Written
        BY <1>1, <2>2, <3>3 DEF WrapperInv, SeekInv, Chunk
      <4>2. \A q \in Written : q \in Nat
        BY <1>1, WrittenIs DEF PlanInv, Written
      <4>3. position \in Nat
        BY <1>1 DEF TypeInv
      <4>4. \A q \in Written : q < output_position \/ q >= position
        BY <4>1, <4>2, <4>3
      <4> QED BY <4>1, <4>4
    <3>4. ~ Lent'
      BY <1>2 DEF Lent
    <3>5. finalized_position' <= output_position'
      BY <1>2, <1>3, <2>2
    <3> QED BY <1>2, <1>8, <1>10, <2>2, <3>1, <3>2, <3>3, <3>4, <3>5 DEF SeekInv, Chunk
  <2> QED BY <2>1, <2>2
<1> QED BY <1>1, <1>5, <1>6, <1>9, <1>12, <1>13, <1>14, <1>15, InvNext, JxlpStays DEF WrapperInv

\* Bytes that are final are written, so nothing not yet written lies among them.
LEMMA FinalWritten ==
  ASSUME Inv
  PROVE  /\ finalized_position \in Nat /\ position \in Nat /\ finalized_position <= position
         /\ \A q \in Nat : q \notin Written => q >= finalized_position
BY DEF Inv, TypeInv, ChunkInv

LEMMA InvLeaveHole ==
  ASSUME Inv, LeaveHole
  PROVE  Inv'
<1>1. /\ status = "RUNNING" /\ task = "none" /\ error = "none" /\ todo # <<>> /\ Order.op = "hole"
      /\ Seek(position + Order.size) /\ todo' = Tail(todo)
      /\ holes' = <<[start |-> position, after |-> position + Order.size, end |-> 0]>> \o holes
      /\ UNCHANGED <<job, added, processed, jxlp_counter, status>>
  BY DEF LeaveHole, Ready, Running, Done
<1>2. TypeInv /\ PlanInv /\ ~ Lent
  BY <1>1 DEF Inv, ControlInv, WriteOps
<1>3. Order.size \in Nat
  BY <1>1, <1>2, PlanStep, OrderIs
<1>4. position + Order.size \in Nat /\ position + Order.size >= finalized_position
  BY <1>3, FinalWritten
<1>5. position' = position + Order.size
  BY <1>1, <1>4 DEF Seek
<1>6. PlanInv' /\ todo' \in Seq(OrderSet) /\ todo' # <<>> /\ holes' \in Seq(Holes) /\ Written' = Written
  BY <1>1, <1>2, <1>5, PlanLeft
<1> QED BY <1>1, <1>2, <1>4, <1>6, InvSeek

LEMMA InvGoBack ==
  ASSUME Inv, GoBack
  PROVE  Inv'
<1>1. /\ status = "RUNNING" /\ task = "none" /\ error = "none" /\ todo # <<>> /\ Order.op = "back"
      /\ Seek(holes[1].start)
      /\ todo' = HeaderOrders(Order, position - holes[1].after) \o Tail(todo)
      /\ holes' = [holes EXCEPT ![1].end = position]
      /\ UNCHANGED <<job, added, processed, jxlp_counter, status>>
  BY DEF GoBack, Ready, Running
<1>2. TypeInv /\ PlanInv /\ ~ Lent
  BY <1>1 DEF Inv, ControlInv, WriteOps
<1>3. holes[1].start \in Nat /\ holes[1].start \notin Written
  BY <1>1, <1>2, BackHere
<1>4. holes[1].start >= finalized_position
  BY <1>3, FinalWritten
<1>5. position' = holes[1].start
  BY <1>1, <1>4 DEF Seek
<1>6. PlanInv' /\ todo' \in Seq(OrderSet) /\ todo' # <<>> /\ holes' \in Seq(Holes) /\ Written' = Written
  BY <1>1, <1>2, <1>5, PlanGone
<1> QED BY <1>1, <1>2, <1>3, <1>4, <1>6, InvSeek

LEMMA InvGoOn ==
  ASSUME Inv, GoOn
  PROVE  Inv'
<1>1. /\ status = "RUNNING" /\ task = "none" /\ error = "none" /\ todo # <<>> /\ Order.op = "end"
      /\ todo' = Tail(todo) /\ holes' = Tail(holes)
      /\ UNCHANGED <<job, added, processed, jxlp_counter, status>>
  BY DEF GoOn, Ready, Running, Done
<1>2. TypeInv /\ PlanInv /\ ~ Lent
  BY <1>1 DEF Inv, ControlInv, WriteOps
<1>3. position = holes[1].after /\ holes[1].end \in Nat /\ position <= holes[1].end
  BY <1>1, <1>2, EndHere
<1>4. Seek(holes[1].end)
  BY <1>3 DEF GoOn
<1>5. holes[1].end >= finalized_position
  BY <1>3, FinalWritten
<1>6. position' = holes[1].end
  BY <1>4, <1>5 DEF Seek
<1>7. PlanInv' /\ todo' \in Seq(OrderSet) /\ todo' # <<>> /\ holes' \in Seq(Holes) /\ Written' = Written
  BY <1>1, <1>2, <1>6, PlanEnded
<1> QED BY <1>1, <1>2, <1>3, <1>4, <1>5, <1>7, InvSeek

LEMMA InvFinalizeOutput ==
  ASSUME Inv, FinalizeOutput
  PROVE  Inv'
<1>1. TypeInv /\ JxlpInv /\ PlanInv /\ ControlInv /\ WrapperInv
  BY InvIs
<1>2. /\ status = "RUNNING" /\ task = "none" /\ error = "none" /\ todo # <<>> /\ Order.op = "finalize"
      /\ todo' = Tail(todo)
      /\ UNCHANGED <<job, added, processed, jxlp_counter, holes, status>>
      /\ client' = (IF Seeks THEN [client EXCEPT !.finalized = position] ELSE client)
      /\ finalized_position' = position /\ task' = "flush"
      /\ UNCHANGED <<processor, avail_out, internal_buffers, position, output_position,
                     stop_requested, buffer, error>>
  BY DEF FinalizeOutput, Ready, Running, Done, SetFinalizedPosition
<1>3. ~ Lent /\ holes = <<>>
  BY <1>1, <1>2, FinalizeHere DEF ControlInv, WriteOps
<1>4. PlanInv' /\ todo' \in Seq(OrderSet)
  BY <1>1, <1>2, PlanFinal
<1>5. Written' = Written /\ WholeFile' = WholeFile
  BY <1>2, JobStays DEF Written, Here
<1>6. /\ position \in Nat /\ finalized_position \in Nat /\ output_position \in Nat
      /\ client \in [position : Nat, finalized : Nat, bytes : Memory]
      /\ finalized_position <= position
  BY <1>1 DEF TypeInv, WrapperInv, ChunkInv
<1>7. client' \in [position : Nat, finalized : Nat, bytes : Memory]
  BY <1>2, <1>6
<1>8. TypeInv'
  BY <1>1, <1>2, <1>4, <1>6, <1>7 DEF TypeInv
<1>9. client'.bytes = client.bytes /\ client'.position = client.position
  BY <1>2, <1>6
<1>10. ~ Lent'
  BY <1>2, <1>3 DEF Lent
<1>11. ControlInv'
  BY <1>1, <1>2, <1>3, <1>10 DEF ControlInv, External, Seeks
<1>12. ChunkInv'
  <2>1. \A q \in 0 .. position - 1 : q \in Written
    BY <1>1, <1>3, <1>6, NoHoleWritten
  <2> QED BY <1>1, <1>2, <1>3, <1>5, <1>6, <2>1 DEF WrapperInv, ChunkInv, Chunk, Lent
<1>13. \A q : (Right(q)' <=> Right(q)) /\ (Covered(q)' <=> Covered(q))
  BY <1>2, <1>5, <1>9 DEF Right, Covered, Covers, Chunk
<1>14. \A p : InPlace(p)' <=> InPlace(p)
  BY <1>2 DEF InPlace, Chunk
<1>15. DirectInv'
  <2>1. CASE Seeks
    BY <1>2, <2>1 DEF DirectInv, Seeks
  <2>2. CASE ~ Seeks
    <3>1. output_position' <= finalized_position'
      BY <1>1, <1>2, <1>6, <2>2 DEF WrapperInv, DirectInv
    <3> QED BY <1>1, <1>2, <1>5, <1>9, <1>13, <2>2, <3>1 DEF WrapperInv, DirectInv, Chunk
  <2> QED BY <2>1, <2>2
<1>16. WindowInv'
  <2>1. CASE External
    BY <1>2, <2>1 DEF WindowInv, External
  <2>2. CASE ~ External
    BY <1>1, <1>2, <1>9, <1>10, <1>13, <1>14, <2>2 DEF WrapperInv, WindowInv, Chunk
  <2> QED BY <2>1, <2>2
<1>17. StreamInv'
  <2>1. CASE processor # "stream"
    BY <1>2, <2>1 DEF StreamInv
  <2>2. CASE processor = "stream"
    BY <1>1, <1>2, <1>9, <1>10, <1>14, <2>2 DEF WrapperInv, StreamInv, Chunk, Seeks
  <2> QED BY <2>1, <2>2
<1>18. SeekInv'
  <2>1. CASE ~ Seeks
    BY <1>2, <2>1 DEF SeekInv, Seeks
  <2>2. CASE Seeks
    <3>1. client'.finalized = position
      BY <1>2, <1>6, <2>2
    <3>2. /\ \A q \in Written : Covered(q) \/ \A p \in DOMAIN internal_buffers : q < p
          /\ output_position # position =>
               /\ output_position < position
               /\ \E p \in DOMAIN internal_buffers : p <= output_position
               /\ \A p \in DOMAIN internal_buffers :
                    internal_buffers[p].data # <<>> => p + internal_buffers[p].written = position
      BY <1>1, <2>2 DEF WrapperInv, SeekInv, Chunk
    <3>3. ASSUME ~ stop_requested
          PROVE  /\ client.position = output_position /\ output_position = position
                 /\ \A p \in DOMAIN internal_buffers : internal_buffers[p].data = <<>>
                 /\ \A q \in Written : (q < output_position \/ q >= position) => Right(q)
                 /\ \A q \in Written : Covered(q)
                 /\ DOMAIN client.bytes \subseteq Written
      BY <1>1, <1>2, <2>2, <3>3 DEF WrapperInv, SeekInv, Chunk
    <3>4. position <= position
      BY <1>6
    <3> QED BY <1>2, <1>5, <1>9, <1>10, <1>13, <2>2, <3>1, <3>2, <3>3, <3>4 DEF SeekInv, Chunk
  <2> QED BY <2>1, <2>2
<1> QED BY <1>1, <1>2, <1>4, <1>8, <1>11, <1>12, <1>15, <1>16, <1>17, <1>18, InvNext, JxlpStays DEF WrapperInv

\* Between calls nothing of the wrapper's lies beyond what the client has in its window.
LEMMA NothingInPlace ==
  ASSUME Inv, ~ External, todo = <<>>, task = "none"
  PROVE  ~ Lent /\ \A p \in DOMAIN internal_buffers : ~ InPlace(p)
<1>1. TypeInv /\ PlanInv /\ ControlInv /\ ChunkInv /\ WindowInv /\ DirectInv /\ ~ Seeks
  BY DEF Inv, External, Seeks
<1>2. ~ Lent /\ holes = <<>>
  BY <1>1, NothingLeft DEF ControlInv
<1>3. /\ position \in Nat /\ output_position \in Nat /\ avail_out \in Nat
      /\ finalized_position = position
      /\ output_position = finalized_position \/ avail_out = 0
  BY <1>1 DEF TypeInv, ControlInv
<1>4. ASSUME NEW p \in DOMAIN internal_buffers, InPlace(p)
      PROVE  FALSE
  <2>1. /\ p \in Nat /\ internal_buffers[p].written \in Nat \ {0}
        /\ \A q \in p .. p + internal_buffers[p].written - 1 : q \in Written
    BY <1>1, <1>2, ChunksAre
  <2>2. p + internal_buffers[p].written > output_position
    BY <1>1, <2>1 DEF DirectInv, Chunk
  <2>3. p + internal_buffers[p].written <= output_position + avail_out
    BY <1>1, <1>4 DEF WindowInv, Chunk
  <2>4. p + internal_buffers[p].written - 1 < position
    <3>1. p + internal_buffers[p].written - 1 \in Written
      BY <2>1
    <3> QED BY <1>1, <1>2, <3>1, NoHoleWritten
  <2> QED BY <1>3, <2>1, <2>2, <2>3, <2>4
<1> QED BY <1>2, <1>4

LEMMA InvProcessOutput ==
  ASSUME Inv, ProcessOutput
  PROVE  Inv'
<1>1. TypeInv /\ JxlpInv /\ PlanInv /\ ControlInv /\ WrapperInv
  BY InvIs
<1>2. PICK size \in Windows : SetAvailOut(size)
  BY DEF ProcessOutput
<1>3. /\ status \in {"SUCCESS", "MORE"} /\ status' = "RUNNING"
      /\ UNCHANGED <<job, added, processed, jxlp_counter, todo, holes>>
      /\ ~ External /\ avail_out' = size /\ task' = "flush"
      /\ client' = [client EXCEPT !.bytes = [p \in {q \in DOMAIN @ : q < client.position} |-> @[p]]]
      /\ UNCHANGED <<processor, internal_buffers, position, finalized_position, output_position,
                     stop_requested, buffer, error>>
  BY <1>2 DEF ProcessOutput, SetAvailOut
<1>4. todo = <<>> /\ task = "none" /\ error = "none"
  BY <1>1, <1>3 DEF ControlInv
<1>5. ~ Lent /\ \A p \in DOMAIN internal_buffers : ~ InPlace(p)
  BY <1>3, <1>4, NothingInPlace
<1>6. holes = <<>> /\ finalized_position = position /\ processor = "window"
  BY <1>1, <1>3, <1>4, NothingLeft DEF ControlInv, External
<1>7. size \in Nat
  BY WriterAssumption
<1>8. client \in [position : Nat, finalized : Nat, bytes : Memory] /\ output_position \in Nat
  BY <1>1 DEF TypeInv
<1> DEFINE kept == [p \in {q \in DOMAIN client.bytes : q < client.position} |-> client.bytes[p]]
<1>9. /\ kept \in Memory /\ DOMAIN kept = {q \in DOMAIN client.bytes : q < client.position}
      /\ \A q \in DOMAIN kept : kept[q] = client.bytes[q]
  <2> DEFINE K == {q \in DOMAIN client.bytes : q < client.position}
  <2>1. DOMAIN client.bytes \subseteq Nat /\ \A q \in DOMAIN client.bytes : client.bytes[q] \in Names \X Nat
    BY <1>8, MemoryFacts
  <2>2. K \in SUBSET Nat /\ \A q \in K : kept[q] = client.bytes[q] /\ kept[q] \in Names \X Nat
    BY <2>1
  <2>3. DOMAIN kept = K /\ kept = [p \in K |-> kept[p]]
    OBVIOUS
  <2> HIDE DEF kept, K
  <2>4. kept \in Memory
    BY <2>2, <2>3, MakeMemory
  <2> QED BY <2>2, <2>3, <2>4 DEF K
<1>10. client'.bytes = kept /\ client'.position = client.position /\ client'.finalized = client.finalized
  BY <1>3, <1>8
<1> HIDE DEF kept
<1>11. client' \in [position : Nat, finalized : Nat, bytes : Memory]
  <2>1. PICK m \in Memory : m = kept
    BY <1>9
  <2>2. client' = [client EXCEPT !.bytes = m]
    BY <1>3, <1>8, <2>1 DEF kept
  <2> QED BY <1>8, <2>2
<1>12. TypeInv'
  BY <1>1, <1>3, <1>7, <1>11 DEF TypeInv
<1>13. PlanInv' /\ Written' = Written /\ WholeFile' = WholeFile
  BY <1>1, <1>3, PlanCalm
<1>14. ~ Lent'
  BY <1>3, <1>5 DEF Lent
<1>15. ControlInv'
  BY <1>1, <1>3, <1>4, <1>6, <1>14 DEF ControlInv, External, Seeks
<1>16. ChunkInv'
  BY <1>1, <1>3, <1>5, <1>13 DEF WrapperInv, ChunkInv, Chunk, Lent
<1>17. client.position = output_position
  BY <1>1, <1>3 DEF WrapperInv, WindowInv
<1>18. DirectInv'
  <2>1. /\ output_position <= finalized_position
        /\ \A p \in DOMAIN internal_buffers :
             internal_buffers[p].written > 0 => p + internal_buffers[p].written > output_position
        /\ \A q \in Written : q >= output_position => Covered(q)
        /\ \A q \in 0 .. output_position - 1 : Right(q)
        /\ DOMAIN client.bytes \subseteq Written
    BY <1>1, <1>6 DEF WrapperInv, DirectInv, Seeks, Chunk
  <2>2. \A q : Covered(q) => Covered(q)'
    BY <1>3 DEF Covered, Covers, Chunk
  <2>3. \A q \in 0 .. output_position - 1 : Right(q)'
    <3>1. \A q \in 0 .. output_position - 1 : q < client.position
      BY <1>8, <1>17
    <3> QED BY <1>9, <1>10, <1>13, <2>1, <3>1 DEF Right
  <2>4. DOMAIN client'.bytes \subseteq Written'
    BY <1>9, <1>10, <1>13, <2>1
  <2> QED BY <1>3, <1>13, <2>1, <2>2, <2>3, <2>4 DEF DirectInv, Chunk
<1>19. WindowInv'
  <2>1. \A p \in DOMAIN internal_buffers' : ~ InPlace(p)'
    BY <1>3, <1>5 DEF InPlace, Chunk
  <2> QED BY <1>3, <1>10, <1>14, <1>17, <2>1 DEF WindowInv
<1>20. StreamInv' /\ SeekInv'
  BY <1>3, <1>6 DEF StreamInv, SeekInv, Seeks
<1> QED BY <1>1, <1>3, <1>12, <1>13, <1>15, <1>16, <1>18, <1>19, <1>20, InvNext, JxlpStays DEF WrapperInv

-----------------------------------------------------------------------------
(* The loop of ReleaseBuffer.                                              *)

\* The chunk just filled is the only one that ends at the position.
LEMMA LastFilledIs ==
  ASSUME Inv, task = "append"
  PROVE  /\ LastFilled \in DOMAIN internal_buffers /\ LastFilled <= output_position
         /\ LastFilled + internal_buffers[LastFilled].written = position
         /\ Len(internal_buffers[LastFilled].data) = internal_buffers[LastFilled].written
         /\ \A p \in DOMAIN internal_buffers : p + internal_buffers[p].written = position => p = LastFilled
         /\ output_position < position /\ Seeks /\ ~ stop_requested /\ ~ Lent /\ client.position = output_position
<1>1. TypeInv /\ ChunkInv /\ ControlInv /\ SeekInv
  BY DEF Inv
<1>2. Seeks /\ ~ stop_requested /\ ~ Lent
  BY <1>1 DEF ControlInv
<1>3. /\ output_position < position /\ client.position = output_position
      /\ \E p \in DOMAIN internal_buffers : /\ p <= output_position
                                            /\ p + internal_buffers[p].written = position
                                            /\ internal_buffers[p].data # <<>>
  BY <1>1, <1>2 DEF SeekInv, Chunk
<1>4. PICK s \in DOMAIN internal_buffers : /\ s <= output_position
                                           /\ s + internal_buffers[s].written = position
                                           /\ internal_buffers[s].data # <<>>
  BY <1>3
<1>5. \A p \in DOMAIN internal_buffers : p + internal_buffers[p].written = position => p = s
  <2>1. position \in Nat
    BY <1>1 DEF TypeInv
  <2>2. \A p \in DOMAIN internal_buffers : p \in Nat /\ internal_buffers[p].written \in Nat \ {0}
    BY <1>1, <1>2, ChunksAre
  <2>3. \A p, q \in DOMAIN internal_buffers : p < q => p + internal_buffers[p].written <= q
    BY <1>1, <1>2, ChunksAre
  <2> TAKE p \in DOMAIN internal_buffers
  <2> HAVE p + internal_buffers[p].written = position
  <2>4. CASE p < s
    BY <1>4, <2>1, <2>2, <2>3, <2>4
  <2>5. CASE s < p
    BY <1>4, <2>1, <2>2, <2>3, <2>5
  <2> QED BY <2>2, <2>4, <2>5
<1>6. LastFilled = s
  BY <1>4, <1>5 DEF LastFilled
<1>7. Len(internal_buffers[s].data) = internal_buffers[s].written
  BY <1>1, <1>2, <1>4, ChunksAre
<1> QED BY <1>2, <1>3, <1>4, <1>5, <1>6, <1>7

LEMMA InvAppendReleased ==
  ASSUME Inv, AppendReleased, status = "RUNNING", UNCHANGED writerVars
  PROVE  Inv'
<1> DEFINE s == LastFilled
           D == DOMAIN internal_buffers
<1>1. TypeInv /\ JxlpInv /\ PlanInv /\ ControlInv /\ WrapperInv
  BY InvIs
<1>2. /\ task = "append" /\ error = "none"
      /\ UNCHANGED <<job, added, processed, jxlp_counter, todo, holes, status>>
      /\ UNCHANGED <<processor, avail_out, position, finalized_position, buffer, error>>
  BY DEF AppendReleased, writerVars
<1>3. /\ s \in D /\ s <= output_position /\ s + internal_buffers[s].written = position
      /\ Len(internal_buffers[s].data) = internal_buffers[s].written
      /\ \A p \in D : p + internal_buffers[p].written = position => p = s
      /\ output_position < position /\ Seeks /\ ~ stop_requested /\ ~ Lent /\ client.position = output_position
  BY <1>2, LastFilledIs
<1> HIDE DEF s, D
<1>4. PICK size \in Sizes :
        LET n == Smaller(size, position - output_position)
            done == output_position + n = position
        IN IF size = 0
           THEN /\ stop_requested' = TRUE /\ task' = "none"
                /\ UNCHANGED <<internal_buffers, output_position, client>>
           ELSE /\ output_position' = output_position + n
                /\ client' = Copied(s, n)
                /\ task' = (IF done THEN "none" ELSE "append")
                /\ internal_buffers' = (IF done THEN [internal_buffers EXCEPT ![s].data = <<>>]
                                        ELSE internal_buffers)
                /\ UNCHANGED stop_requested
  BY DEF AppendReleased, s
<1>5. PlanInv' /\ Written' = Written /\ WholeFile' = WholeFile
  BY <1>1, <1>2, PlanCalm
<1>6. ~ Lent'
  BY <1>2, <1>3 DEF Lent
<1>7. todo # <<>>
  BY <1>1, <1>2 DEF ControlInv
<1>8. /\ client.finalized = finalized_position /\ finalized_position <= output_position
      /\ \A q \in Written : Covered(q) \/ \A p \in D : q < p
      /\ \A p \in D : internal_buffers[p].data # <<>> => p + internal_buffers[p].written = position
      /\ \A q \in Written : (q < output_position \/ q >= position) => Right(q)
      /\ \A q \in Written : Covered(q)
      /\ DOMAIN client.bytes \subseteq Written
  <2>1. SeekInv
    BY <1>1 DEF WrapperInv
  <2>2. output_position \in Nat /\ position \in Nat
    BY <1>1 DEF TypeInv
  <2>3. output_position # position
    BY <1>3, <2>2
  <2> QED BY <1>3, <2>1, <2>3 DEF SeekInv, Chunk, D
<1>9. CASE size = 0
  <2>1. /\ stop_requested' = TRUE /\ task' = "none"
        /\ UNCHANGED <<internal_buffers, output_position, client>>
    BY <1>4, <1>9
  <2>2. TypeInv'
    BY <1>1, <1>2, <2>1 DEF TypeInv
  <2>3. ControlInv'
    BY <1>1, <1>2, <1>6, <1>7, <2>1 DEF ControlInv, External, Seeks
  <2>4. ChunkInv'
    BY <1>1, <1>2, <1>3, <1>5, <2>1 DEF WrapperInv, ChunkInv, Chunk, Lent
  <2>5. DirectInv' /\ WindowInv' /\ StreamInv'
    BY <1>2, <1>3 DEF DirectInv, WindowInv, StreamInv, Seeks, External
  <2>6. SeekInv'
    <3>1. \A q : Covered(q)' <=> Covered(q)
      BY <2>1 DEF Covered, Covers, Chunk
    <3>2. s \in DOMAIN internal_buffers
      BY <1>3 DEF D
    <3> QED BY <1>2, <1>3, <1>5, <1>6, <1>8, <2>1, <3>1, <3>2 DEF SeekInv, Chunk, D
  <2> QED BY <1>1, <1>2, <1>5, <2>2, <2>3, <2>4, <2>5, <2>6, InvNext, JxlpStays DEF WrapperInv
<1>10. CASE size # 0
  <2> DEFINE n == Smaller(size, position - output_position)
             done == output_position + n = position
  <2>1. /\ output_position \in Nat /\ position \in Nat /\ finalized_position \in Nat
        /\ client \in [position : Nat, finalized : Nat, bytes : Memory] /\ client.bytes \in Memory
        /\ DOMAIN internal_buffers \subseteq Nat
        /\ \A p \in D : internal_buffers[p] \in ChunkRecords
    BY <1>1, ChunkFacts DEF TypeInv, D
  <2>2. n \in Nat \ {0} /\ output_position + n <= position
    <3>1. size \in Nat \ {0}
      BY <1>10, SizesAssumption
    <3>2. position - output_position \in Nat \ {0}
      BY <1>3, <2>1
    <3> QED BY <2>1, <3>1, <3>2 DEF Smaller
  <2>3. /\ output_position' = output_position + n
        /\ client' = Copied(s, n)
        /\ task' = (IF done THEN "none" ELSE "append")
        /\ internal_buffers' = (IF done THEN [internal_buffers EXCEPT ![s].data = <<>>] ELSE internal_buffers)
        /\ UNCHANGED stop_requested
    BY <1>4, <1>10
  <2> HIDE DEF n
  <2>4. /\ Pending(s, n) \in Data /\ Len(Pending(s, n)) = n
        /\ \A k \in 1 .. n : Pending(s, n)[k] = WholeFile[output_position + k]
    <3>1. s \in DOMAIN internal_buffers /\ s <= output_position
      BY <1>3 DEF D
    <3>2. output_position + n <= s + Len(internal_buffers[s].data)
      BY <1>3, <2>2
    <3>3. \A k \in 1 .. Len(internal_buffers[s].data) : internal_buffers[s].data[k] = WholeFile[s + k]
      BY <1>1, <3>1 DEF WrapperInv, ChunkInv, Chunk
    <3> QED BY <1>1, <2>2, <3>1, <3>2, <3>3, PendingIs
  <2> DEFINE f == Stored(client.bytes, output_position, Pending(s, n))
  <2>5. /\ f \in Memory
        /\ DOMAIN f = DOMAIN client.bytes \union output_position .. output_position + n - 1
        /\ \A q \in output_position .. output_position + n - 1 : f[q] = WholeFile[q + 1]
        /\ \A q \in DOMAIN client.bytes : ~ (output_position <= q /\ q < output_position + n) => f[q] = client.bytes[q]
    <3>1. PICK data \in Data : data = Pending(s, n)
      BY <2>4
    <3>2. Len(data) = n /\ \A k \in 1 .. Len(data) : data[k] = WholeFile[output_position + k]
      BY <2>4, <3>1
    <3> DEFINE g == Stored(client.bytes, output_position, data)
    <3>3. output_position \in Nat /\ client.bytes \in Memory
      BY <2>1
    <3>4. \A k \in 1 .. Len(data) : data[k] = WholeFile[output_position + k]
      BY <3>2
    <3>5. /\ g \in Memory
          /\ DOMAIN g = DOMAIN client.bytes \union output_position .. output_position + Len(data) - 1
          /\ \A q \in output_position .. output_position + Len(data) - 1 : g[q] = WholeFile[q + 1]
          /\ \A q \in DOMAIN client.bytes :
               ~ (output_position <= q /\ q < output_position + Len(data)) => g[q] = client.bytes[q]
      <4> HIDE DEF n, done
      <4> QED BY ONLY <3>3, <3>4, data \in Data, StoredRight
    <3> QED BY <3>1, <3>2, <3>5
  <2>6. /\ client'.bytes = f /\ client'.position = output_position' /\ client'.finalized = client.finalized
        /\ client' \in [position : Nat, finalized : Nat, bytes : Memory]
    <3> HIDE DEF f
    <3>1. PICK m \in Memory : m = f
      BY <2>5
    <3>2. PICK k \in Nat : k = output_position + n
      BY <2>1, <2>2
    <3>3. client' = [client EXCEPT !.bytes = m, !.position = k]
      BY <1>3, <2>3, <3>1, <3>2 DEF Copied, f
    <3> QED BY <2>1, <2>3, <3>1, <3>2, <3>3
  <2> HIDE DEF f
  <2> DEFINE rest == [internal_buffers[s] EXCEPT !.data = <<>>]
  <2>7. /\ DOMAIN internal_buffers' = D
        /\ internal_buffers' = [p \in D |-> internal_buffers'[p]]
        /\ \A p \in D : internal_buffers'[p].written = internal_buffers[p].written
        /\ \A p \in D : internal_buffers'[p].data = internal_buffers[p].data \/ internal_buffers'[p].data = <<>>
        /\ \A p \in D : internal_buffers'[p] \in ChunkRecords
        /\ done => internal_buffers'[s].data = <<>>
        /\ ~ done => internal_buffers' = internal_buffers
    <3>1. internal_buffers = [p \in D |-> internal_buffers[p]]
      BY <1>1, ChunkFacts DEF D
    <3>2. CASE ~ done
      <4>1. internal_buffers' = internal_buffers
        BY <2>3, <3>2
      <4> HIDE DEF done
      <4> QED BY <2>1, <3>1, <3>2, <4>1 DEF D
    <3>3. CASE done
      <4>1. internal_buffers' = [internal_buffers EXCEPT ![s] = rest]
        BY <2>3, <3>3
      <4>2. rest.written = internal_buffers[s].written /\ rest.data = <<>> /\ rest \in ChunkRecords
        <5>1. internal_buffers[s] \in ChunkRecords
          BY <1>3, <2>1
        <5> QED BY <5>1, EmptyData DEF ChunkRecords
      <4> HIDE DEF rest, done
      <4>3. /\ internal_buffers'[s] = rest /\ \A p \in D : p # s => internal_buffers'[p] = internal_buffers[p]
            /\ DOMAIN internal_buffers' = D
            /\ internal_buffers' = [p \in D |-> internal_buffers'[p]]
        BY <1>3, <3>1, <4>1 DEF D
      <4> QED BY <1>3, <2>1, <3>3, <4>2, <4>3
    <3> QED BY <3>2, <3>3
  <2>8. TypeInv'
    <3>1. internal_buffers' \in ChunkSet
      <4>1. D \in SUBSET Nat
        BY <2>1 DEF D
      <4> HIDE DEF done, rest
      <4> QED BY <2>7, <4>1, MakeChunks
    <3>2. output_position' \in Nat /\ task' \in {"none", "append", "flush", "settle"}
      BY <2>1, <2>2, <2>3
    <3> QED BY <1>1, <1>2, <2>3, <2>6, <3>1, <3>2 DEF TypeInv
  <2>9. ControlInv'
    BY <1>1, <1>2, <1>3, <1>6, <1>7, <2>3 DEF ControlInv, External, Seeks
  <2>10. ChunkInv'
    <3>1. ASSUME NEW p \in D
          PROVE  /\ internal_buffers'[p].written # 0
                 /\ internal_buffers'[p].data = <<>> \/ Len(internal_buffers'[p].data) = internal_buffers'[p].written
                 /\ \A q \in p .. p + internal_buffers'[p].written - 1 : q \in Written'
                 /\ \A k \in 1 .. Len(internal_buffers'[p].data) : internal_buffers'[p].data[k] = WholeFile'[p + k]
      <4>1. /\ internal_buffers[p].written # 0
            /\ internal_buffers[p].data = <<>> \/ Len(internal_buffers[p].data) = internal_buffers[p].written
            /\ \A q \in p .. p + internal_buffers[p].written - 1 : q \in Written
            /\ \A k \in 1 .. Len(internal_buffers[p].data) : internal_buffers[p].data[k] = WholeFile[p + k]
        BY <1>1, <1>3 DEF WrapperInv, ChunkInv, Chunk, D
      <4>2. CASE internal_buffers'[p].data = <<>>
        <5>1. 1 .. Len(<<>>) = {}
          BY EmptyData
        <5> QED BY <1>5, <2>7, <4>1, <4>2, <5>1
      <4>3. CASE internal_buffers'[p].data # <<>>
        BY <1>5, <2>7, <4>1, <4>3
      <4> QED BY <4>2, <4>3
    <3>2. \A p, q \in D : p < q => p + internal_buffers'[p].written <= q
      BY <1>1, <2>7 DEF WrapperInv, ChunkInv, Chunk, D
    <3>3. /\ \A q \in Written' : q < Len(WholeFile')
          /\ \A q \in 0 .. finalized_position' - 1 : q \in Written'
          /\ finalized_position' <= position'
      BY <1>1, <1>2, <1>5 DEF WrapperInv, ChunkInv
    <3> QED BY <2>7, <3>1, <3>2, <3>3 DEF ChunkInv, Chunk
  <2>11. DirectInv' /\ WindowInv' /\ StreamInv'
    BY <1>2, <1>3 DEF DirectInv, WindowInv, StreamInv, Seeks, External
  <2>12. SeekInv'
    <3>1. \A q \in Written' : Covered(q)'
      <4>1. \A q : Covered(q) => Covered(q)'
        BY <2>7 DEF Covered, Covers, Chunk, D
      <4> QED BY <1>5, <1>8, <4>1
    <3>2. \A p \in D : internal_buffers'[p].data # <<>> => p + internal_buffers'[p].written = position'
      BY <1>2, <1>8, <2>7
    <3>3. done => \A p \in D : internal_buffers'[p].data = <<>>
      <4> SUFFICES ASSUME done, NEW p \in D, internal_buffers'[p].data # <<>> PROVE FALSE
        OBVIOUS
      <4>1. p = s
        BY <1>2, <1>3, <2>7, <3>2
      <4> HIDE DEF done
      <4> QED BY <2>7, <4>1
    <3>4. \A q \in Written : q \in Nat
      BY <1>1, WrittenIs DEF PlanInv, Written
    <3>5. ASSUME NEW q \in Written', q < output_position' \/ q >= position'
          PROVE  Right(q)'
      <4>1. q \in Written /\ q \in Nat
        BY <1>5, <3>4
      <4>2. CASE q \in output_position .. output_position + n - 1
        BY <1>5, <2>5, <2>6, <4>2 DEF Right
      <4>3. CASE q \notin output_position .. output_position + n - 1
        <5>1. ~ (output_position <= q /\ q < output_position + n)
          BY <2>1, <2>2, <4>1, <4>3
        <5>2. q < output_position \/ q >= position
          BY <1>2, <2>1, <2>2, <2>3, <3>5, <4>1, <5>1
        <5>3. Right(q)
          BY <1>8, <4>1, <5>2
        <5> QED BY <1>5, <2>5, <2>6, <5>1, <5>3 DEF Right
      <4> QED BY <4>2, <4>3
    <3>6. DOMAIN client'.bytes \subseteq Written'
      <4>1. \A q \in s .. s + internal_buffers[s].written - 1 : q \in Written
        BY <1>1, <1>3 DEF WrapperInv, ChunkInv, Chunk, D
      <4>2. s \in Nat
        BY <1>3, <2>1 DEF D
      <4>3. \A q \in output_position .. output_position + n - 1 : q \in s .. position - 1
        BY <1>3, <2>1, <2>2, <4>2
      <4>5. s + internal_buffers[s].written - 1 = position - 1
        <5>1. s + internal_buffers[s].written = position
          BY <1>3
        <5>2. internal_buffers[s].written \in Nat /\ position \in Nat
          <6>1. internal_buffers[s] \in ChunkRecords
            BY <1>3, <2>1
          <6> QED BY <2>1, <6>1 DEF ChunkRecords
        <5> QED BY <4>2, <5>1, <5>2
      <4>6. \A q \in s .. position - 1 : q \in Written
        BY <4>1, <4>5
      <4>4. \A q \in output_position .. output_position + n - 1 : q \in Written
        BY <4>3, <4>6
      <4> QED BY <1>5, <1>8, <2>5, <2>6, <4>4
    <3>7. finalized_position' <= output_position' /\ client'.finalized = finalized_position'
      BY <1>2, <1>8, <2>1, <2>2, <2>3, <2>6
    <3>8. CASE done
      <4>1. output_position' = position' /\ task' = "none"
        BY <1>2, <2>3, <3>8
      <4> HIDE DEF done
      <4> QED BY <1>2, <1>3, <1>6, <2>3, <2>6, <2>7, <3>1, <3>3, <3>5, <3>6, <3>7, <3>8, <4>1 DEF SeekInv, Chunk, Seeks
    <3>9. CASE ~ done
      <4>1. output_position' < position' /\ task' = "append"
        BY <1>2, <2>1, <2>2, <2>3, <3>9
      <4> HIDE DEF done
      <4>2. s \in D /\ s <= output_position' /\ s + internal_buffers'[s].written = position'
            /\ internal_buffers'[s].data # <<>>
        <5>1. s \in Nat /\ s <= output_position'
          BY <1>3, <2>1, <2>2, <2>3 DEF D
        <5>2. internal_buffers[s].data # <<>>
          <6>1. Len(internal_buffers[s].data) # 0
            <7>1. s \in Nat /\ s < position
              BY <1>3, <2>1 DEF D
            <7> QED BY <1>3, <2>1, <7>1
          <6> QED BY <6>1, EmptyData
        <5> QED BY <1>2, <1>3, <2>7, <3>9, <5>1, <5>2
      <4> QED BY <1>2, <1>3, <1>6, <2>3, <2>6, <2>7, <3>1, <3>2, <3>5, <3>6, <3>7, <4>1, <4>2 DEF SeekInv, Chunk, Seeks
    <3> QED BY <3>8, <3>9
  <2> QED BY <1>1, <1>2, <1>5, <2>8, <2>9, <2>10, <2>11, <2>12, InvNext, JxlpStays DEF WrapperInv
<1> QED BY <1>9, <1>10

-----------------------------------------------------------------------------
(* FlushOutput.                                                            *)

\* What is there to flush is in the lowest chunk.
LEMMA FlushReady ==
  ASSUME Inv, task \in {"flush", "settle"}
  PROVE  /\ ~ Lent /\ finalized_position = position
         /\ output_position \in Nat /\ position \in Nat /\ avail_out \in Nat
         /\ MoreToFlush =>
              /\ CanFlush
              /\ First \in DOMAIN internal_buffers /\ First \in Nat /\ LastByte \in Nat
              /\ internal_buffers[First].written \in Nat \ {0}
              /\ First <= output_position /\ output_position < position
              /\ \A p \in DOMAIN internal_buffers \ {First} : p \in Nat /\ LastByte <= p
              /\ ~ Seeks => output_position < LastByte
              /\ Seeks => stop_requested /\ task = "flush" /\ holes = <<>>
              /\ task = "settle" => /\ First = output_position /\ LastByte = position
                                    /\ internal_buffers[First].data = <<>>
<1>1. TypeInv /\ PlanInv /\ ControlInv /\ ChunkInv /\ DirectInv /\ StreamInv /\ SeekInv
  BY DEF Inv
<1>2. /\ ~ Lent /\ output_position \in Nat /\ position \in Nat /\ avail_out \in Nat
      /\ processor \in {"window", "stream", "seek"}
  BY <1>1 DEF ControlInv, TypeInv
<1>3. finalized_position = position
  <2>1. CASE task = "flush"
    BY <1>1, <2>1 DEF ControlInv
  <2>2. CASE task = "settle"
    BY <1>1, <2>2 DEF ControlInv, StreamInv
  <2> QED BY <2>1, <2>2
<1>4. ASSUME MoreToFlush
      PROVE  /\ CanFlush
             /\ First \in DOMAIN internal_buffers /\ First \in Nat /\ LastByte \in Nat
             /\ internal_buffers[First].written \in Nat \ {0}
             /\ First <= output_position /\ output_position < position
             /\ \A p \in DOMAIN internal_buffers \ {First} : p \in Nat /\ LastByte <= p
             /\ ~ Seeks => output_position < LastByte
             /\ Seeks => stop_requested /\ task = "flush" /\ holes = <<>>
             /\ task = "settle" => /\ First = output_position /\ LastByte = position
                                   /\ internal_buffers[First].data = <<>>
  <2>1. output_position < position
    BY <1>3, <1>4 DEF MoreToFlush
  <2>2. Seeks => /\ stop_requested /\ task = "flush" /\ holes = <<>>
                 /\ \E p \in DOMAIN internal_buffers : p <= output_position
                 /\ \A p \in DOMAIN internal_buffers :
                      internal_buffers[p].data # <<>> => p + internal_buffers[p].written = position
    <3> SUFFICES ASSUME Seeks
                 PROVE  /\ stop_requested /\ task = "flush" /\ holes = <<>>
                        /\ \E p \in DOMAIN internal_buffers : p <= output_position
                        /\ \A p \in DOMAIN internal_buffers :
                             internal_buffers[p].data # <<>> => p + internal_buffers[p].written = position
      OBVIOUS
    <3>1. task = "flush" /\ holes = <<>>
      BY <1>1 DEF ControlInv, Seeks
    <3>2. output_position # position
      BY <1>2, <2>1
    <3> QED BY <1>1, <3>1, <3>2 DEF SeekInv, Chunk
  <2>3. /\ \A p \in DOMAIN internal_buffers : p \in Nat /\ internal_buffers[p].written \in Nat \ {0}
        /\ \A p, q \in DOMAIN internal_buffers : p < q => p + internal_buffers[p].written <= q
    BY <1>1, <1>2, ChunksAre
  <2>4. ~ Seeks => /\ \E p \in DOMAIN internal_buffers : p <= output_position
                   /\ \A p \in DOMAIN internal_buffers : p + internal_buffers[p].written > output_position
    <3> SUFFICES ASSUME ~ Seeks
                 PROVE  /\ \E p \in DOMAIN internal_buffers : p <= output_position
                        /\ \A p \in DOMAIN internal_buffers : p + internal_buffers[p].written > output_position
      OBVIOUS
    <3>1. output_position \in Written
      BY <1>1, <1>2, <1>3, <2>1 DEF ChunkInv
    <3>2. Covered(output_position)
      BY <1>1, <1>2, <3>1 DEF DirectInv
    <3>3. \A p \in DOMAIN internal_buffers : p + internal_buffers[p].written > output_position
      BY <1>1, <2>3 DEF DirectInv, Chunk
    <3> QED BY <3>2, <3>3 DEF Covered, Covers
  <2>5. PICK p \in DOMAIN internal_buffers : p <= output_position
    BY <2>2, <2>4
  <2>6. /\ First \in DOMAIN internal_buffers /\ First \in Nat
        /\ \A m \in DOMAIN internal_buffers : First <= m
    BY <1>1, <2>5, FirstIs
  <2>7. First <= output_position /\ internal_buffers[First].written \in Nat \ {0}
    BY <1>2, <2>3, <2>5, <2>6
  <2>8. LastByte = First + internal_buffers[First].written /\ LastByte \in Nat
    BY <2>6, <2>7 DEF LastByte
  <2>9. \A m \in DOMAIN internal_buffers \ {First} : m \in Nat /\ LastByte <= m
    <3> TAKE m \in DOMAIN internal_buffers \ {First}
    <3>1. m \in Nat /\ First < m
      BY <2>3, <2>6
    <3> QED BY <2>3, <2>6, <2>8, <3>1
  <2>10. ~ Seeks => output_position < LastByte
    BY <2>4, <2>6, <2>8
  <2>11. internal_buffers[First].data # <<>> => output_position < LastByte
    <3>1. CASE Seeks
      BY <2>1, <2>2, <2>6, <2>8, <3>1
    <3>2. CASE ~ Seeks
      BY <2>10, <3>2
    <3> QED BY <3>1, <3>2
  <2>12. CanFlush
    BY <1>2, <2>6, <2>7, <2>8, <2>11 DEF CanFlush
  <2>13. ASSUME task = "settle"
         PROVE  First = output_position /\ LastByte = position /\ internal_buffers[First].data = <<>>
    <3>1. processor = "stream"
      BY <1>1, <2>13 DEF ControlInv
    <3>2. output_position # position
      BY <1>2, <2>1
    <3>3. output_position \in DOMAIN internal_buffers /\ InPlace(output_position)
      BY <1>1, <2>13, <3>1, <3>2 DEF StreamInv
    <3>4. output_position + internal_buffers[output_position].written = position
      BY <1>1, <3>1, <3>3 DEF StreamInv, Chunk
    <3>5. First = output_position
      <4>1. First # output_position => LastByte <= output_position
        BY <2>9, <3>3
      <4> QED BY <1>2, <2>8, <2>10, <3>1, <4>1 DEF Seeks
    <3> QED BY <2>8, <3>3, <3>4, <3>5 DEF InPlace, Chunk
  <2> QED BY <2>1, <2>2, <2>6, <2>7, <2>8, <2>9, <2>10, <2>12, <2>13
<1> QED BY <1>2, <1>3, <1>4

\* Moving the output on by what the client then holds keeps everything right.
LEMMA InvMoves ==
  ASSUME Inv, task \in {"flush", "settle"}, MoreToFlush, status = "RUNNING", error = "none",
         UNCHANGED writerVars,
         NEW n \in Int, NEW holds \in [position : Nat, finalized : Nat, bytes : Memory],
         Moves(n, holds),
         output_position + n \in Nat, First <= output_position + n, output_position + n <= position,
         ~ Seeks => n > 0 /\ output_position + n <= LastByte,
         ~ Seeks => \A q \in Nat : q < output_position + n =>
                      q \in DOMAIN holds.bytes /\ holds.bytes[q] = WholeFile[q + 1],
         ~ Seeks => DOMAIN holds.bytes \subseteq Written,
         ~ External => /\ n <= avail_out /\ holds.position = output_position + n
                       /\ \A q \in Nat : Right(q) => q \in DOMAIN holds.bytes /\ holds.bytes[q] = WholeFile[q + 1],
         processor = "stream" /\ task = "flush" => holds.position = output_position + n,
         processor = "stream" /\ task = "settle" => holds = client /\ output_position + n = LastByte,
         Seeks => holds.finalized = client.finalized
  PROVE  Inv'
<1> DEFINE D == DOMAIN internal_buffers
           gone == output_position + n = LastByte
           D1 == IF gone THEN D \ {First} ELSE D
           out == output_position + n
<1>1. TypeInv /\ JxlpInv /\ PlanInv /\ ControlInv /\ WrapperInv
  BY InvIs
<1>2. /\ output_position' = out
      /\ avail_out' = (IF External THEN avail_out ELSE avail_out - n)
      /\ internal_buffers' = (IF gone THEN Without(internal_buffers, First) ELSE internal_buffers)
      /\ client' = (IF processor = "stream" THEN [holds EXCEPT !.finalized = out] ELSE holds)
      /\ UNCHANGED <<processor, position, finalized_position, stop_requested, buffer, task, error>>
      /\ UNCHANGED <<job, added, processed, jxlp_counter, todo, holes, status>>
  BY DEF Moves, writerVars
<1>3. /\ ~ Lent /\ finalized_position = position
      /\ output_position \in Nat /\ position \in Nat /\ avail_out \in Nat
      /\ First \in D /\ First \in Nat /\ LastByte \in Nat
      /\ First <= output_position /\ output_position < position
      /\ \A p \in D \ {First} : p \in Nat /\ LastByte <= p
      /\ ~ Seeks => output_position < LastByte
      /\ Seeks => stop_requested /\ task = "flush" /\ holes = <<>>
      /\ task = "settle" => /\ First = output_position /\ LastByte = position
                            /\ internal_buffers[First].data = <<>>
  BY FlushReady
<1>4. out \in Nat /\ out <= position /\ First <= out
  OBVIOUS
<1>5. LastByte = First + internal_buffers[First].written
  BY DEF LastByte
<1>6. /\ \A p \in D : p \in Nat /\ internal_buffers[p].written \in Nat \ {0}
      /\ D \subseteq Nat /\ \A p \in D : internal_buffers[p] \in ChunkRecords
      /\ internal_buffers = [p \in D |-> internal_buffers[p]]
  BY <1>1, <1>3, ChunksAre, ChunkFacts DEF WrapperInv, ChunkRecords
<1> HIDE DEF D
<1>7. /\ DOMAIN internal_buffers' = D1 /\ D1 \subseteq D
      /\ internal_buffers' = [p \in D1 |-> internal_buffers'[p]]
      /\ \A p \in D1 : internal_buffers'[p] = internal_buffers[p]
  <2>1. CASE gone
    <3>1. internal_buffers' = [p \in D \ {First} |-> internal_buffers[p]]
      BY <1>2, <2>1 DEF Without, D
    <3> HIDE DEF gone
    <3> QED BY <2>1, <3>1
  <2>2. CASE ~ gone
    <3>1. internal_buffers' = internal_buffers
      BY <1>2, <2>2
    <3> HIDE DEF gone
    <3> QED BY <1>6, <2>2, <3>1 DEF D
  <2> QED BY <2>1, <2>2
<1>8. internal_buffers' \in ChunkSet
  BY <1>6, <1>7, MakeChunks
<1>9. \A p \in D1 : p = First => ~ gone
  OBVIOUS
<1>10. PlanInv' /\ Written' = Written /\ WholeFile' = WholeFile
  BY <1>1, <1>2, PlanCalm
<1>11. \A q \in Written : q \in Nat
  BY <1>1, WrittenIs DEF PlanInv, Written
<1>12. ~ Lent'
  BY <1>2, <1>3 DEF Lent
<1>13. /\ client' \in [position : Nat, finalized : Nat, bytes : Memory]
       /\ client'.bytes = holds.bytes /\ client'.position = holds.position
       /\ processor = "stream" => client'.finalized = out
       /\ Seeks => client'.finalized = client.finalized
  <2>1. PICK k \in Nat : k = out
    BY <1>4
  <2>2. CASE processor = "stream"
    <3>1. client' = [holds EXCEPT !.finalized = k]
      BY <1>2, <2>1, <2>2
    <3> QED BY <2>1, <2>2, <3>1 DEF Seeks
  <2>3. CASE processor # "stream"
    <3>1. client' = holds
      BY <1>2, <2>3
    <3> QED BY <2>3, <3>1
  <2> QED BY <2>2, <2>3
<1>14. \A q : Right(q)' <=> q \in DOMAIN holds.bytes /\ holds.bytes[q] = WholeFile[q + 1]
  BY <1>10, <1>13 DEF Right
<1> HIDE DEF gone, D1, out
<1>15. TypeInv'
  <2>1. avail_out' \in Nat
    BY <1>2, <1>3
  <2> QED BY <1>1, <1>2, <1>4, <1>8, <1>13, <2>1 DEF TypeInv
<1>16. ControlInv'
  BY <1>1, <1>2, <1>12 DEF ControlInv, External, Seeks
<1>17. ChunkInv'
  <2>1. /\ \A q \in Written : q < Len(WholeFile)
        /\ \A q \in 0 .. finalized_position - 1 : q \in Written
        /\ finalized_position <= position
        /\ \A p \in D :
             /\ internal_buffers[p].written # 0
             /\ internal_buffers[p].data = <<>> \/ Len(internal_buffers[p].data) = internal_buffers[p].written
             /\ \A q \in p .. p + internal_buffers[p].written - 1 : q \in Written
             /\ \A k \in 1 .. Len(internal_buffers[p].data) : internal_buffers[p].data[k] = WholeFile[p + k]
        /\ \A p, q \in D : p < q => p + internal_buffers[p].written <= q
    BY <1>1, <1>3 DEF WrapperInv, ChunkInv, Chunk, D
  <2> QED BY <1>2, <1>7, <1>10, <2>1 DEF ChunkInv, Chunk
<1>18. ASSUME NEW q \in Nat, Covered(q), gone => q >= LastByte
       PROVE  Covered(q)'
  <2>1. PICK p \in D : p <= q /\ q < p + internal_buffers[p].written
    BY <1>18 DEF Covered, Covers, Chunk, D
  <2>2. p \in D1
    BY <1>5, <1>18, <2>1, <1>3 DEF D1
  <2> QED BY <1>7, <2>1, <2>2 DEF Covered, Covers, Chunk
<1>19. DirectInv'
  <2>1. CASE Seeks
    BY <1>2, <2>1 DEF DirectInv, Seeks
  <2>2. CASE ~ Seeks
    <3>0. n > 0 /\ out <= LastByte /\ out = output_position + n
      BY <2>2 DEF out
    <3>1. output_position' <= finalized_position'
      BY <1>2, <1>3, <1>4
    <3>2. ASSUME NEW p \in D1 PROVE p + internal_buffers'[p].written > output_position'
      <4>1. CASE p = First
        <5>1. out < LastByte
          BY <1>3, <1>4, <1>9, <3>0, <4>1 DEF gone, out
        <5> QED BY <1>2, <1>5, <1>7, <4>1, <5>1
      <4>2. CASE p # First
        <5>1. p \in Nat /\ LastByte <= p /\ internal_buffers[p].written \in Nat \ {0}
          BY <1>3, <1>6, <1>7, <4>2
        <5> QED BY <1>2, <1>3, <1>4, <1>7, <3>0, <5>1
      <4> QED BY <4>1, <4>2
    <3>3. ASSUME NEW q \in Written', q >= output_position' PROVE Covered(q)'
      <4>1. q \in Written /\ q \in Nat /\ q >= out
        BY <1>2, <1>10, <1>11, <3>3
      <4>2. q >= output_position
        BY <1>3, <1>4, <3>0, <4>1
      <4>3. Covered(q)
        BY <1>1, <2>2, <4>1, <4>2 DEF WrapperInv, DirectInv
      <4>4. gone => q >= LastByte
        <5>1. gone => out = LastByte
          BY DEF gone, out
        <5> QED BY <4>1, <5>1
      <4> QED BY <1>18, <4>1, <4>3, <4>4
    <3>4. \A q \in 0 .. output_position' - 1 : Right(q)'
      <4>1. \A q \in Nat : q < out => q \in DOMAIN holds.bytes /\ holds.bytes[q] = WholeFile[q + 1]
        BY <2>2 DEF out
      <4>2. \A q \in 0 .. out - 1 : Right(q)'
        BY <1>4, <1>14, <4>1
      <4> QED BY <1>2, <4>2
    <3>5. DOMAIN client'.bytes \subseteq Written'
      BY <1>10, <1>13, <2>2
    <3> QED BY <1>7, <3>1, <3>2, <3>3, <3>4, <3>5 DEF DirectInv, Chunk
  <2> QED BY <2>1, <2>2
<1>20. \A p \in D1 : InPlace(p)' <=> InPlace(p)
  BY <1>7 DEF InPlace, Chunk
<1>21. WindowInv'
  <2>1. CASE External
    BY <1>2, <2>1 DEF WindowInv, External
  <2>2. CASE ~ External
    <3>1. out + avail_out' = output_position + avail_out
      BY <1>2, <1>3, <2>2 DEF out
    <3>2. client'.position = output_position'
      BY <1>2, <1>13, <2>2 DEF out
    <3>3. ASSUME NEW p \in D1, InPlace(p)'
          PROVE  /\ p + internal_buffers'[p].written <= output_position' + avail_out'
                 /\ \A q \in p .. p + internal_buffers'[p].written - 1 : Right(q)'
      <4>1. p \in D /\ InPlace(p) /\ internal_buffers'[p] = internal_buffers[p]
        BY <1>7, <1>20, <3>3
      <4>2. /\ p + internal_buffers[p].written <= output_position + avail_out
            /\ \A q \in p .. p + internal_buffers[p].written - 1 : Right(q)
        BY <1>1, <2>2, <4>1 DEF WrapperInv, WindowInv, Chunk, D
      <4>3. \A q \in p .. p + internal_buffers[p].written - 1 : q \in Nat
        BY <1>6, <4>1
      <4>4. \A q \in Nat : Right(q) => Right(q)'
        BY <1>14, <2>2
      <4> QED BY <1>2, <3>1, <4>1, <4>2, <4>3, <4>4
    <3> QED BY <1>7, <1>12, <3>2, <3>3 DEF WindowInv, Chunk
  <2> QED BY <2>1, <2>2
<1>22. StreamInv'
  <2>1. CASE processor # "stream"
    BY <1>2, <2>1 DEF StreamInv
  <2>2. CASE processor = "stream"
    <3>1. client'.finalized = output_position'
      BY <1>2, <1>13, <2>2
    <3>2. \A p \in D : InPlace(p) => task = "settle" /\ p = output_position
      BY <1>1, <2>2 DEF WrapperInv, StreamInv, D
    <3>3. CASE task = "flush"
      <4>1. \A p \in D1 : ~ InPlace(p)'
        BY <1>7, <1>20, <3>2, <3>3
      <4>2. client'.position = output_position'
        BY <1>2, <1>13, <2>2, <3>3 DEF out
      <4> QED BY <1>2, <1>7, <1>12, <3>1, <3>3, <4>1, <4>2 DEF StreamInv
    <3>4. CASE task = "settle"
      <4>1. gone /\ out = position /\ holds = client
        BY <1>3, <2>2, <3>4 DEF gone, out
      <4>2. \A p \in D1 : ~ InPlace(p)'
        BY <1>3, <1>7, <1>9, <1>20, <3>2, <3>4, <4>1
      <4>3. /\ client.position = position /\ \A q \in 0 .. position - 1 : Right(q)
        BY <1>1, <2>2, <3>4 DEF WrapperInv, StreamInv
      <4>4. \A q \in 0 .. position - 1 : Right(q)'
        BY <1>14, <4>1, <4>3 DEF Right
      <4>5. client'.position = position' /\ finalized_position' = position' /\ output_position' = position'
        BY <1>2, <1>3, <1>13, <4>1, <4>3
      <4>6. \A q \in 0 .. position' - 1 : Right(q)'
        BY <1>2, <4>4
      <4> QED BY <1>2, <1>7, <1>12, <3>1, <3>4, <4>2, <4>5, <4>6 DEF StreamInv
    <3> QED BY <3>3, <3>4
  <2> QED BY <2>1, <2>2
<1>23. SeekInv'
  <2>1. CASE ~ Seeks
    BY <1>2, <2>1 DEF SeekInv, Seeks
  <2>2. CASE Seeks
    <3>1. /\ client.finalized = finalized_position
          /\ \A q \in Written : Covered(q) \/ \A p \in D : q < p
          /\ \A p \in D : internal_buffers[p].data # <<>> => p + internal_buffers[p].written = position
      <4>1. output_position # position
        BY <1>3
      <4> QED BY <1>1, <2>2, <4>1 DEF WrapperInv, SeekInv, Chunk, D
    <3>2. ASSUME NEW q \in Written'
          PROVE  Covered(q)' \/ \A p \in D1 : q < p
      <4>1. q \in Written /\ q \in Nat
        BY <1>10, <1>11
      <4>2. CASE Covered(q)
        <5>1. CASE gone /\ q < LastByte
          <6>1. \A p \in D1 : p \in Nat /\ LastByte <= p
            BY <1>3, <5>1 DEF D1
          <6> QED BY <1>3, <4>1, <5>1, <6>1
        <5>2. CASE ~ (gone /\ q < LastByte)
          BY <1>3, <1>18, <4>1, <4>2, <5>2
        <5> QED BY <5>1, <5>2
      <4>3. CASE \A p \in D : q < p
        BY <1>7, <4>3
      <4> QED BY <3>1, <4>1, <4>2, <4>3
    <3>3. ASSUME output_position' # position'
          PROVE  /\ output_position' < position'
                 /\ \E p \in D1 : p <= output_position'
      <4>1. out < position
        BY <1>2, <1>3, <1>4, <3>3
      <4>2. CASE ~ gone
        BY <1>2, <1>3, <1>4, <4>1, <4>2 DEF D1
      <4>3. CASE gone
        <5>1. out = LastByte
          BY <4>3 DEF gone, out
        <5>2. out \in Written
          BY <1>1, <1>3, <1>4, <2>2, <4>1, NoHoleWritten
        <5>3. ~ \A p \in D : out < p
          BY <1>3, <1>4
        <5>4. Covered(out)
          BY <3>1, <5>2, <5>3
        <5>5. PICK p \in D : p <= out /\ out < p + internal_buffers[p].written
          BY <5>4 DEF Covered, Covers, Chunk, D
        <5>6. p # First
          BY <1>3, <1>5, <5>1, <5>5
        <5> QED BY <1>2, <4>1, <4>3, <5>5, <5>6 DEF D1
      <4> QED BY <4>2, <4>3
    <3>4. \A p \in D1 : internal_buffers'[p].data # <<>> => p + internal_buffers'[p].written = position'
      BY <1>2, <1>7, <3>1
    <3>5. client'.finalized = finalized_position'
      BY <1>2, <1>13, <2>2, <3>1
    <3>6. stop_requested'
      BY <1>2, <1>3, <2>2
    <3> QED BY <1>7, <1>12, <3>2, <3>3, <3>4, <3>5, <3>6 DEF SeekInv, Chunk
  <2> QED BY <2>1, <2>2
<1> QED BY <1>1, <1>2, <1>10, <1>15, <1>16, <1>17, <1>19, <1>21, <1>22, <1>23, InvNext, JxlpStays DEF WrapperInv

\* What FlushOutput passes on reaches to the end of the chunk.
LEMMA ToWrite ==
  ASSUME Inv, task \in {"flush", "settle"}, MoreToFlush
  PROVE  /\ NumToWrite \in Int /\ output_position + NumToWrite = Smaller(LastByte, position)
         /\ Smaller(LastByte, position) \in Nat
         /\ ~ Seeks => NumToWrite > 0
         /\ internal_buffers[First].data # <<>> => NumToWrite > 0
<1>1. /\ finalized_position = position /\ output_position \in Nat /\ position \in Nat
      /\ CanFlush /\ LastByte \in Nat /\ output_position < position
      /\ ~ Seeks => output_position < LastByte
  BY FlushReady
<1>2. NumToWrite = Smaller(LastByte, position) - output_position
  BY <1>1 DEF NumToWrite
<1>3. internal_buffers[First].data # <<>> => output_position < LastByte
  BY <1>1 DEF CanFlush
<1> QED BY <1>1, <1>2, <1>3 DEF Smaller

LEMMA InvFlushOwned ==
  ASSUME Inv, task \in {"flush", "settle"}, MoreToFlush, status = "RUNNING", error = "none",
         UNCHANGED writerVars, FlushOwned
  PROVE  Inv'
<1>1. TypeInv /\ JxlpInv /\ PlanInv /\ ControlInv /\ WrapperInv
  BY InvIs
<1>2. /\ ~ Lent /\ finalized_position = position
      /\ output_position \in Nat /\ position \in Nat /\ avail_out \in Nat
      /\ First \in DOMAIN internal_buffers /\ First \in Nat /\ LastByte \in Nat
      /\ internal_buffers[First].written \in Nat \ {0}
      /\ First <= output_position /\ output_position < position
      /\ task = "settle" => internal_buffers[First].data = <<>>
  BY FlushReady
<1>3. internal_buffers[First].data # <<>>
  BY DEF FlushOwned
<1>4. task = "flush"
  BY <1>2, <1>3
<1>5. /\ NumToWrite \in Int /\ output_position + NumToWrite = Smaller(LastByte, position) /\ NumToWrite > 0
  BY <1>3, ToWrite
<1>6. output_position + NumToWrite <= LastByte /\ output_position + NumToWrite <= position
  BY <1>2, <1>5 DEF Smaller
<1>7. PICK size : /\ size \in (IF External THEN Sizes \ {0} ELSE {avail_out})
                  /\ Moves(Smaller(NumToWrite, size), Copied(First, Smaller(NumToWrite, size)))
  BY DEF FlushOwned
<1>8. size \in Nat \ {0} /\ (~ External => size = avail_out)
  BY <1>2, <1>7, SizesAssumption DEF MoreToFlush
<1>9. PICK n \in Nat \ {0} : n = Smaller(NumToWrite, size)
  BY <1>5, <1>8 DEF Smaller
<1>10. n <= NumToWrite /\ n <= size
  BY <1>5, <1>8, <1>9 DEF Smaller
<1>11. /\ output_position + n \in Nat /\ First <= output_position + n
       /\ output_position + n <= LastByte /\ output_position + n <= position
       /\ ~ External => n <= avail_out
  BY <1>2, <1>5, <1>6, <1>8, <1>9, <1>10
<1>12. LastByte = First + Len(internal_buffers[First].data)
  <2>1. Len(internal_buffers[First].data) = internal_buffers[First].written
    BY <1>1, <1>2, <1>3, ChunksAre DEF WrapperInv
  <2> QED BY <2>1 DEF LastByte
<1>13. /\ Pending(First, n) \in Data /\ Len(Pending(First, n)) = n
       /\ \A k \in 1 .. n : Pending(First, n)[k] = WholeFile[output_position + k]
  <2>1. \A k \in 1 .. Len(internal_buffers[First].data) : internal_buffers[First].data[k] = WholeFile[First + k]
    BY <1>1, <1>2 DEF WrapperInv, ChunkInv, Chunk
  <2>2. output_position + n <= First + Len(internal_buffers[First].data)
    BY <1>11, <1>12
  <2> QED BY <1>1, <1>2, <1>9, <2>1, <2>2, PendingIs
<1>14. PICK data \in Data : data = Pending(First, n)
  BY <1>13
<1>15. Len(data) = n /\ \A k \in 1 .. Len(data) : data[k] = WholeFile[output_position + k]
  BY <1>13, <1>14
<1>16. PICK holds : holds = Copied(First, n)
  OBVIOUS
<1>17. Moves(n, holds)
  BY <1>7, <1>9, <1>16
<1>18. /\ client \in [position : Nat, finalized : Nat, bytes : Memory]
       /\ client.position \in Nat /\ client.bytes \in Memory
  BY <1>1 DEF TypeInv
<1> DEFINE m == Stored(client.bytes, client.position, data)
<1>19. m \in Memory
  BY <1>18, StoredFacts
<1>20. /\ holds \in [position : Nat, finalized : Nat, bytes : Memory]
       /\ holds.bytes = m /\ holds.position = client.position + n /\ holds.finalized = client.finalized
  <2>1. PICK f \in Memory : f = m
    BY <1>19
  <2>2. PICK k \in Nat : k = client.position + n
    BY <1>9, <1>18
  <2>3. holds = [client EXCEPT !.bytes = f, !.position = k]
    BY <1>14, <1>16, <1>18, <2>1, <2>2 DEF Copied
  <2> HIDE DEF m
  <2> QED BY <1>18, <2>1, <2>2, <2>3
<1> HIDE DEF m
<1>21. CASE Seeks
  <2>1. External /\ processor # "stream"
    BY <1>21 DEF Seeks, External
  <2> QED BY <1>4, <1>9, <1>11, <1>17, <1>20, <1>21, <2>1, InvMoves
<1>22. CASE ~ Seeks
  <2>1. client.position = output_position
    <3>1. CASE ~ External
      BY <1>1, <3>1 DEF WrapperInv, WindowInv
    <3>2. CASE External
      BY <1>1, <1>4, <1>22, <3>2 DEF WrapperInv, StreamInv, External, Seeks, TypeInv
    <3> QED BY <3>1, <3>2
  <2>2. /\ DOMAIN m = DOMAIN client.bytes \union output_position .. output_position + Len(data) - 1
        /\ \A q \in output_position .. output_position + Len(data) - 1 : m[q] = WholeFile[q + 1]
        /\ \A q \in DOMAIN client.bytes :
             ~ (output_position <= q /\ q < output_position + Len(data)) => m[q] = client.bytes[q]
    <3>1. m = Stored(client.bytes, output_position, data)
      BY <2>1 DEF m
    <3>2. \A k \in 1 .. Len(data) : data[k] = WholeFile[output_position + k]
      BY <1>15
    <3>3. output_position \in Nat /\ client.bytes \in Memory
      BY <1>2, <1>18
    <3>4. data \in Data
      BY <1>14
    <3>5. DOMAIN Stored(client.bytes, output_position, data) = DOMAIN client.bytes \union output_position .. output_position + Len(data) - 1
      <4>1. PICK bytes \in Memory : bytes = client.bytes
        BY <3>3
      <4>2. PICK at \in Nat : at = output_position
        BY <3>3
      <4>3. \A k \in 1 .. Len(data) : data[k] = WholeFile[at + k]
        BY <3>2, <4>2
      <4>4. DOMAIN Stored(bytes, at, data) = DOMAIN bytes \union at .. at + Len(data) - 1
        BY ONLY <3>4, <4>3, at \in Nat, bytes \in Memory, StoredRight
      <4> QED BY <4>1, <4>2, <4>4
    <3>6. \A q \in output_position .. output_position + Len(data) - 1 :
            Stored(client.bytes, output_position, data)[q] = WholeFile[q + 1]
      BY ONLY <3>2, <3>3, <3>4, StoredRight
    <3>7. \A q \in DOMAIN client.bytes :
            ~ (output_position <= q /\ q < output_position + Len(data)) =>
              Stored(client.bytes, output_position, data)[q] = client.bytes[q]
      BY ONLY <3>2, <3>3, <3>4, StoredRight
    <3> QED BY <3>1, <3>5, <3>6, <3>7
  <2>3. \A q \in Nat : output_position <= q /\ q < output_position + n => q \in DOMAIN m /\ m[q] = WholeFile[q + 1]
    <3> TAKE q \in Nat
    <3> HAVE output_position <= q /\ q < output_position + n
    <3>1. q \in output_position .. output_position + Len(data) - 1
      BY <1>2, <1>9, <1>15
    <3> QED BY <2>2, <3>1
  <2>4. \A q \in Nat : Right(q) => q \in DOMAIN m /\ m[q] = WholeFile[q + 1]
    <3> TAKE q \in Nat
    <3> HAVE Right(q)
    <3>1. CASE output_position <= q /\ q < output_position + n
      BY <2>3, <3>1
    <3>2. CASE ~ (output_position <= q /\ q < output_position + n)
      BY <1>15, <2>2, <3>2 DEF Right
    <3> QED BY <3>1, <3>2
  <2>5. /\ \A q \in 0 .. output_position - 1 : Right(q)
        /\ DOMAIN client.bytes \subseteq Written
    BY <1>1, <1>22 DEF WrapperInv, DirectInv
  <2>6. \A q \in Nat : q < output_position + n => q \in DOMAIN holds.bytes /\ holds.bytes[q] = WholeFile[q + 1]
    <3> TAKE q \in Nat
    <3> HAVE q < output_position + n
    <3>1. CASE q < output_position
      <4>1. q \in 0 .. output_position - 1
        BY <1>2, <3>1
      <4>2. Right(q)
        BY <2>5, <4>1
      <4> QED BY <1>20, <2>4, <4>2
    <3>2. CASE ~ (q < output_position)
      BY <1>2, <1>20, <2>3, <3>2
    <3> QED BY <3>1, <3>2
  <2>7. DOMAIN holds.bytes \subseteq Written
    <3>1. \A q \in First .. First + internal_buffers[First].written - 1 : q \in Written
      BY <1>1, <1>2, ChunksAre DEF WrapperInv
    <3>2. \A q \in output_position .. output_position + Len(data) - 1 :
            q \in First .. First + internal_buffers[First].written - 1
      <4>1. First + internal_buffers[First].written - 1 = LastByte - 1
        <5>1. LastByte = First + internal_buffers[First].written
          BY DEF LastByte
        <5>2. LastByte \in Nat /\ First \in Nat /\ internal_buffers[First].written \in Nat
          BY <1>2
        <5> QED BY ONLY <5>1, <5>2
      <4>2. \A q \in output_position .. output_position + n - 1 : q \in First .. LastByte - 1
        <5>1. output_position \in Nat /\ First \in Nat /\ LastByte \in Nat /\ n \in Nat
              /\ First <= output_position /\ output_position + n <= LastByte
          BY <1>2, <1>9, <1>11
        <5> QED BY ONLY <5>1
      <4> QED BY <1>15, <4>1, <4>2
    <3> QED BY <1>20, <2>2, <2>5, <3>1, <3>2
  <2>8. holds.position = output_position + n
    BY <1>20, <2>1
  <2>9. \A q \in Nat : Right(q) => q \in DOMAIN holds.bytes /\ holds.bytes[q] = WholeFile[q + 1]
    BY <1>20, <2>4
  <2>10. n \in Int /\ n > 0
    BY <1>9
  <2> QED BY <1>4, <1>11, <1>17, <1>20, <1>22, <2>6, <2>7, <2>8, <2>9, <2>10, InvMoves
<1> QED BY <1>21, <1>22

LEMMA InvFlushLent ==
  ASSUME Inv, task \in {"flush", "settle"}, MoreToFlush, status = "RUNNING", error = "none",
         UNCHANGED writerVars, FlushLent
  PROVE  Inv'
<1>1. TypeInv /\ JxlpInv /\ PlanInv /\ ControlInv /\ WrapperInv
  BY InvIs
<1>2. /\ ~ Lent /\ finalized_position = position
      /\ output_position \in Nat /\ position \in Nat /\ avail_out \in Nat
      /\ First \in DOMAIN internal_buffers /\ First \in Nat /\ LastByte \in Nat
      /\ internal_buffers[First].written \in Nat \ {0}
      /\ First <= output_position /\ output_position < position
      /\ ~ Seeks => output_position < LastByte
      /\ Seeks => task = "flush" /\ holes = <<>>
      /\ task = "settle" => First = output_position /\ LastByte = position
  BY FlushReady
<1>3. InPlace(First)
  BY <1>2 DEF FlushLent, InPlace, Chunk
<1>4. PICK n \in Int : n = NumToWrite
  BY ToWrite
<1>5. /\ output_position + n = Smaller(LastByte, position)
      /\ output_position + n \in Nat /\ output_position + n <= LastByte /\ output_position + n <= position
      /\ ~ Seeks => n > 0
  BY <1>2, <1>4, ToWrite DEF Smaller
<1>6. LastByte = First + internal_buffers[First].written
  BY DEF LastByte
<1>7. First <= output_position + n
  BY <1>2, <1>5, <1>6 DEF Smaller
<1>8. PICK holds : holds = IF External THEN client ELSE [client EXCEPT !.position = @ + n]
  OBVIOUS
<1>9. Moves(n, holds)
  BY <1>4, <1>8 DEF FlushLent
<1>10. client \in [position : Nat, finalized : Nat, bytes : Memory] /\ client.position \in Nat
  BY <1>1 DEF TypeInv
<1>11. CASE Seeks
  <2>1. External /\ processor # "stream" /\ holds = client
    BY <1>8, <1>11 DEF Seeks, External
  <2> QED BY <1>5, <1>7, <1>9, <1>10, <1>11, <2>1, InvMoves
<1>12. CASE processor = "stream"
  <2>1. ~ Seeks /\ External /\ holds = client
    BY <1>8, <1>12 DEF Seeks, External
  <2>2. task = "settle"
    BY <1>1, <1>2, <1>3, <1>12 DEF WrapperInv, StreamInv
  <2>3. /\ \A q \in 0 .. position - 1 : Right(q)
        /\ DOMAIN client.bytes \subseteq Written
    BY <1>1, <1>12, <2>1, <2>2 DEF WrapperInv, DirectInv, StreamInv
  <2>4. output_position + n = LastByte
    BY <1>2, <1>5, <2>2 DEF Smaller
  <2>5. \A q \in Nat : q < output_position + n => q \in DOMAIN holds.bytes /\ holds.bytes[q] = WholeFile[q + 1]
    <3> TAKE q \in Nat
    <3> HAVE q < output_position + n
    <3>1. q \in 0 .. position - 1
      BY <1>2, <1>5
    <3> QED BY <2>1, <2>3, <3>1 DEF Right
  <2> QED BY <1>5, <1>7, <1>9, <1>10, <2>1, <2>2, <2>3, <2>4, <2>5, InvMoves
<1>13. CASE ~ External
  <2>1. ~ Seeks /\ processor # "stream"
    BY <1>13 DEF Seeks, External
  <2>2. /\ client.position = output_position
        /\ LastByte <= output_position + avail_out
        /\ \A q \in First .. LastByte - 1 : Right(q)
    BY <1>1, <1>2, <1>3, <1>6, <1>13 DEF WrapperInv, WindowInv, Chunk
  <2>3. n <= avail_out
    BY <1>2, <1>5, <2>2
  <2>4. /\ holds \in [position : Nat, finalized : Nat, bytes : Memory]
        /\ holds.bytes = client.bytes /\ holds.position = output_position + n
    <3>1. PICK k \in Nat : k = output_position + n
      BY <1>5
    <3>2. holds = [client EXCEPT !.position = k]
      BY <1>8, <1>10, <1>13, <2>2, <3>1
    <3> QED BY <1>10, <3>1, <3>2
  <2>5. /\ \A q \in 0 .. output_position - 1 : Right(q)
        /\ DOMAIN client.bytes \subseteq Written
    BY <1>1, <2>1 DEF WrapperInv, DirectInv
  <2>6. \A q \in Nat : q < output_position + n => q \in DOMAIN holds.bytes /\ holds.bytes[q] = WholeFile[q + 1]
    <3> TAKE q \in Nat
    <3> HAVE q < output_position + n
    <3>1. q \in 0 .. output_position - 1 \/ q \in First .. LastByte - 1
      BY <1>2, <1>5
    <3> QED BY <2>2, <2>4, <2>5, <3>1 DEF Right
  <2>7. \A q \in Nat : Right(q) => q \in DOMAIN holds.bytes /\ holds.bytes[q] = WholeFile[q + 1]
    BY <2>4 DEF Right
  <2>8. n > 0 /\ DOMAIN holds.bytes \subseteq Written
    BY <1>5, <2>1, <2>4, <2>5
  <2> QED BY <1>5, <1>7, <1>9, <2>1, <2>3, <2>4, <2>6, <2>7, <2>8, InvMoves
<1>14. processor \in {"window", "stream", "seek"}
  BY <1>1 DEF TypeInv
<1> QED BY <1>11, <1>12, <1>13, <1>14 DEF Seeks, External

\* FlushOutput ends when everything is out, the window is full or the processor refuses.
LEMMA InvLeaveFlush ==
  ASSUME Inv, task \in {"flush", "settle"}, status = "RUNNING", error = "none", UNCHANGED writerVars,
         LeaveFlush,
         \/ ~ MoreToFlush /\ UNCHANGED stop_requested
         \/ External /\ task = "flush" /\ stop_requested' = TRUE
  PROVE  Inv'
<1>1. TypeInv /\ JxlpInv /\ PlanInv /\ ControlInv /\ WrapperInv
  BY InvIs
<1>2. /\ ~ Lent /\ finalized_position = position
      /\ output_position \in Nat /\ position \in Nat /\ avail_out \in Nat
  BY FlushReady
<1>3. /\ task' = "none"
      /\ error' = (IF task = "settle" /\ {output_position, finalized_position} # {position}
                   THEN "ensure" ELSE error)
      /\ UNCHANGED <<processor, avail_out, internal_buffers, position, finalized_position,
                     output_position, buffer, client>>
      /\ UNCHANGED <<job, added, processed, jxlp_counter, todo, holes, status>>
      /\ stop_requested' \in BOOLEAN /\ (stop_requested' = stop_requested \/ (External /\ stop_requested' = TRUE))
  BY <1>1 DEF LeaveFlush, writerVars, TypeInv
<1>4. /\ ~ Seeks => output_position <= position
      /\ Seeks /\ output_position # position => output_position < position
  BY <1>1, <1>2 DEF WrapperInv, DirectInv, SeekInv
<1>5. ASSUME ~ MoreToFlush
      PROVE  IF External THEN output_position >= position
             ELSE output_position >= position \/ avail_out = 0
  BY <1>2, <1>5 DEF MoreToFlush
<1>6. IF External THEN stop_requested' \/ output_position = position
      ELSE output_position = position \/ avail_out = 0
  BY <1>2, <1>3, <1>4, <1>5
<1>7. task = "settle" => output_position = position
  <2>1. task = "settle" => processor = "stream"
    BY <1>1 DEF ControlInv
  <2> QED BY <1>2, <1>4, <1>5, <2>1 DEF Seeks, External
<1>8. error' = "none"
  BY <1>2, <1>3, <1>7
<1>9. TypeInv'
  BY <1>1, <1>3, <1>8 DEF TypeInv
<1>10. ~ Lent'
  BY <1>2, <1>3 DEF Lent
<1>11. ControlInv'
  BY <1>1, <1>2, <1>3, <1>6, <1>8, <1>10 DEF ControlInv, External, Seeks
<1>12. PlanInv' /\ Written' = Written /\ WholeFile' = WholeFile
  BY <1>1, <1>3, PlanCalm
<1>13. \A q : (Right(q)' <=> Right(q)) /\ (Covered(q)' <=> Covered(q))
  BY <1>3, <1>12 DEF Right, Covered, Covers, Chunk
<1>14. \A p : InPlace(p)' <=> InPlace(p)
  BY <1>3 DEF InPlace, Chunk
<1>15. ChunkInv'
  BY <1>1, <1>2, <1>3, <1>10, <1>12 DEF WrapperInv, ChunkInv, Chunk
<1>16. DirectInv'
  BY <1>1, <1>3, <1>12, <1>13 DEF WrapperInv, DirectInv, Seeks, Chunk
<1>17. WindowInv'
  BY <1>1, <1>3, <1>10, <1>13, <1>14 DEF WrapperInv, WindowInv, External, Chunk
<1>18. StreamInv'
  <2>1. CASE processor # "stream"
    BY <1>3, <2>1 DEF StreamInv
  <2>2. CASE processor = "stream"
    <3>1. client.finalized = output_position /\ client.position = output_position
      BY <1>1, <1>7, <2>2 DEF WrapperInv, StreamInv
    <3>2. \A p \in DOMAIN internal_buffers : ~ InPlace(p)
      <4> SUFFICES ASSUME NEW p \in DOMAIN internal_buffers, InPlace(p) PROVE FALSE
        OBVIOUS
      <4>1. task = "settle" /\ p = output_position /\ p + internal_buffers[p].written = position
        BY <1>1, <2>2 DEF WrapperInv, StreamInv, Chunk
      <4>2. internal_buffers[p].written \in Nat \ {0}
        BY <1>1, <1>2, ChunksAre DEF WrapperInv
      <4> QED BY <1>2, <1>7, <4>1, <4>2
    <3> QED BY <1>3, <1>10, <1>14, <3>1, <3>2 DEF StreamInv
  <2> QED BY <2>1, <2>2
<1>19. SeekInv'
  <2>1. CASE ~ Seeks
    BY <1>3, <2>1 DEF SeekInv, Seeks
  <2>2. CASE Seeks
    <3>1. task = "flush"
      BY <1>1, <2>2 DEF ControlInv, Seeks
    <3>2. /\ client.finalized = finalized_position
          /\ \A q \in Written : Covered(q) \/ \A p \in DOMAIN internal_buffers : q < p
          /\ output_position # position =>
               /\ output_position < position
               /\ \E p \in DOMAIN internal_buffers : p <= output_position
               /\ \A p \in DOMAIN internal_buffers :
                    internal_buffers[p].data # <<>> => p + internal_buffers[p].written = position
          /\ ~ stop_requested =>
               /\ client.position = output_position
               /\ finalized_position <= output_position
               /\ output_position = position
               /\ \A p \in DOMAIN internal_buffers : internal_buffers[p].data = <<>>
               /\ \A q \in Written : (q < output_position \/ q >= position) => Right(q)
               /\ \A q \in Written : Covered(q)
               /\ DOMAIN client.bytes \subseteq Written
      BY <1>1, <2>2, <3>1 DEF WrapperInv, SeekInv, Chunk
    <3>3. ~ stop_requested' => ~ stop_requested
      BY <1>3
    <3> QED BY <1>3, <1>10, <1>12, <1>13, <3>2, <3>3 DEF SeekInv, Chunk
  <2> QED BY <2>1, <2>2
<1> QED BY <1>1, <1>3, <1>9, <1>11, <1>12, <1>15, <1>16, <1>17, <1>18, <1>19, InvNext, JxlpStays DEF WrapperInv

LEMMA InvFlushOutput ==
  ASSUME Inv, FlushOutput, status = "RUNNING", UNCHANGED writerVars
  PROVE  Inv'
<1>1. task \in {"flush", "settle"} /\ error = "none"
  BY DEF FlushOutput
<1>2. CASE ~ MoreToFlush
  <2>1. LeaveFlush /\ UNCHANGED stop_requested
    BY <1>2 DEF FlushOutput
  <2> QED BY <1>1, <1>2, <2>1, InvLeaveFlush
<1>3. CASE MoreToFlush
  <2>1. FlushOwned \/ FlushLent \/ FlushStopped
    BY <1>1, <1>3, FlushReady DEF FlushOutput
  <2>2. CASE FlushOwned
    BY <1>1, <1>3, <2>2, InvFlushOwned
  <2>3. CASE FlushLent
    BY <1>1, <1>3, <2>3, InvFlushLent
  <2>4. CASE FlushStopped
    <3>1. /\ External /\ internal_buffers[First].data # <<>> /\ stop_requested' = TRUE /\ LeaveFlush
      BY <2>4 DEF FlushStopped
    <3>2. task = "flush"
      BY <1>1, <1>3, <3>1, FlushReady
    <3> QED BY <1>1, <3>1, <3>2, InvLeaveFlush
  <2> QED BY <2>1, <2>2, <2>3, <2>4
<1> QED BY <1>2, <1>3

-----------------------------------------------------------------------------
(* The theorems.                                                           *)

LEMMA InvAtFirst ==
  ASSUME Init
  PROVE  Inv
<1>1. /\ job \in Jobs /\ added = 0 /\ processed = 0 /\ jxlp_counter = 0
      /\ todo = <<>> /\ holes = <<>> /\ status = "SUCCESS"
      /\ processor \in {"window", "stream", "seek"} /\ avail_out = 0 /\ internal_buffers = <<>>
      /\ position = 0 /\ finalized_position = 0 /\ output_position = 0
      /\ stop_requested = FALSE /\ buffer = NoBuffer /\ task = "none" /\ error = "none"
      /\ client = [position |-> 0, finalized |-> 0, bytes |-> <<>>]
  BY DEF Init, OutputInit
<1>2. DOMAIN internal_buffers = {} /\ DOMAIN client.bytes = {}
  BY <1>1
<1>3. internal_buffers \in ChunkSet /\ client.bytes \in Memory
  <2>1. \A S : <<>> \in [{} -> S]
    OBVIOUS
  <2> QED BY <1>1, <2>1 DEF ChunkSet, Memory
<1>4. client \in [position : Nat, finalized : Nat, bytes : Memory]
      /\ client.position = 0 /\ client.finalized = 0
  BY <1>1, <1>3
<1>5. TypeInv
  <2>1. Len(job.inputs) \in Nat
    BY <1>1, JobFacts
  <2>2. buffer \in [size : Nat, owned : BOOLEAN, at : Nat]
    BY <1>1 DEF NoBuffer
  <2>3. todo \in Seq(OrderSet) /\ holes \in Seq(Holes)
    BY <1>1
  <2>4. added \in 0 .. Len(job.inputs) /\ processed \in 0 .. added
    BY <1>1, <2>1
  <2>5. /\ jxlp_counter \in Nat /\ avail_out \in Nat
        /\ position \in Nat /\ finalized_position \in Nat /\ output_position \in Nat
        /\ stop_requested \in BOOLEAN
        /\ status \in {"SUCCESS", "MORE", "RUNNING", "ERROR"}
        /\ task \in {"none", "append", "flush", "settle"}
        /\ error \in {"none", "stopped", "ensure"}
    BY <1>1
  <2> QED BY <1>1, <1>3, <1>4, <2>2, <2>3, <2>4, <2>5 DEF TypeInv
<1>6. JxlpInv
  BY <1>1 DEF JxlpInv
<1>7. Here \in Places /\ Here.holes = <<>> /\ Here.position = position
  BY <1>1, <1>5, HerePlace
<1>8. Goal = Here
  <2>1. Len(UpTo[processed]) = 0
    BY <1>1, UpToIs, EmptyData
  <2> QED BY <1>1, <2>1 DEF Goal, Here
<1>9. PlanInv
  <2>1. GoodPlace(Here)
    <3>1. Len(Here.holes) = 0 /\ 1 .. 0 = {}
      BY <1>7, EmptyData
    <3> QED BY <1>7, <3>1 DEF GoodPlace
  <2>2. Plan(todo, Here, Goal)
    BY <1>1, <1>7, <1>8, PlanNothing
  <2> QED BY <1>1, <2>1, <2>2 DEF PlanInv
<1>10. ~ Lent
  BY <1>1 DEF Lent
<1>11. ControlInv
  BY <1>1, <1>10 DEF ControlInv
<1>12. \A q : q \notin Written
  BY <1>1, <1>5, <1>9, NoHoleWritten
<1>13. 0 .. position - 1 = {} /\ position <= position
  BY <1>1
<1>14. ChunkInv
  BY <1>1, <1>2, <1>12, <1>13 DEF ChunkInv
<1>15. DirectInv
  BY <1>1, <1>2, <1>12, <1>13 DEF DirectInv
<1>16. WindowInv /\ StreamInv /\ SeekInv
  BY <1>1, <1>2, <1>4, <1>10, <1>12 DEF WindowInv, StreamInv, SeekInv
<1> QED BY <1>5, <1>6, <1>9, <1>11, <1>14, <1>15, <1>16 DEF Inv

LEMMA InvStep ==
  ASSUME Inv, [Next]_vars
  PROVE  Inv'
<1>1. CASE AddInput
  BY <1>1, InvAddInput
<1>2. CASE ProcessOutput
  BY <1>2, InvProcessOutput
<1>3. CASE FlushInput
  BY <1>3, InvFlushInput
<1>4. CASE TaskStep /\ Running /\ UNCHANGED writerVars
  <2>1. status = "RUNNING"
    BY <1>4 DEF Running
  <2>2. CASE AppendReleased
    BY <1>4, <2>1, <2>2, InvAppendReleased
  <2>3. CASE FlushOutput
    BY <1>4, <2>1, <2>3, InvFlushOutput
  <2> QED BY <1>4, <2>2, <2>3 DEF TaskStep
<1>5. CASE NothingToWrite
  BY <1>5, InvNothingToWrite
<1>6. CASE TakeBuffer
  BY <1>6, InvTakeBuffer
<1>7. CASE FillBuffer
  BY <1>7, InvFillBuffer
<1>8. CASE LeaveHole
  BY <1>8, InvLeaveHole
<1>9. CASE GoBack
  BY <1>9, InvGoBack
<1>10. CASE GoOn
  BY <1>10, InvGoOn
<1>11. CASE FinalizeOutput
  BY <1>11, InvFinalizeOutput
<1>12. CASE BeginInput
  BY <1>12, InvBeginInput
<1>13. CASE Return
  BY <1>13, InvReturn
<1>14. CASE ReturnError
  BY <1>14, InvReturnError
<1>15. CASE UNCHANGED vars
  BY <1>15, InvStutters
<1> QED BY <1>1, <1>2, <1>3, <1>4, <1>5, <1>6, <1>7, <1>8, <1>9, <1>10, <1>11, <1>12, <1>13, <1>14, <1>15
   DEF Next, ClientCall, EncoderStep, OrderStep

\* The encoder's place in the file, the orders it still has, what the wrapper holds
\* and what the client has got agree in every state, for every client and every way
\* it cuts its buffers.
THEOREM OutputInvariant == Spec => []Inv
<1>1. Init => Inv
  BY InvAtFirst
<1>2. Inv /\ [Next]_vars => Inv'
  BY InvStep
<1> QED BY <1>1, <1>2, PTL DEF Spec

\* No JXL_ENSURE of GetBuffer, Seek, ReleaseBuffer, FlushOutput or of the header
\* that is written back ever fails.
THEOREM EnsuresAlwaysHold == Spec => []EnsuresHold
<1>1. Inv => EnsuresHold
  BY DEF Inv, ControlInv, EnsuresHold
<1> QED BY <1>1, OutputInvariant, PTL

\* What counts as final.
LEMMA FinalIs ==
  ASSUME Inv
  PROVE  /\ Final = IF Seeks THEN finalized_position ELSE output_position
         /\ output_position \in Nat /\ finalized_position \in Nat /\ position \in Nat
         /\ processor \in {"window", "stream", "seek"}
<1>1. TypeInv /\ WindowInv /\ StreamInv /\ SeekInv
  BY DEF Inv
<1>2. processor \in {"window", "stream", "seek"}
  BY <1>1 DEF TypeInv
<1>3. Final = IF Seeks THEN finalized_position ELSE output_position
  <2>1. CASE processor = "window"
    BY <1>1, <2>1 DEF WindowInv, Final, External, Seeks
  <2>2. CASE processor = "stream"
    BY <1>1, <2>2 DEF StreamInv, Final, External, Seeks
  <2>3. CASE processor = "seek"
    BY <1>1, <2>3 DEF SeekInv, Final, External, Seeks
  <2> QED BY <1>2, <2>1, <2>2, <2>3
<1> QED BY <1>1, <1>3 DEF TypeInv

LEMMA FinalRight ==
  ASSUME Inv
  PROVE  FinalIsTheFile
<1>1. TypeInv /\ PlanInv /\ ChunkInv /\ DirectInv /\ SeekInv
  BY DEF Inv
<1>2. /\ Final = IF Seeks THEN finalized_position ELSE output_position
      /\ output_position \in Nat /\ finalized_position \in Nat /\ position \in Nat
  BY FinalIs
<1> SUFFICES ASSUME ~ (Seeks /\ stop_requested), NEW p \in 0 .. Final - 1
             PROVE  p < Len(WholeFile) /\ Right(p)
  BY DEF FinalIsTheFile, Right
<1>3. p \in Nat /\ p < Final
  BY <1>2
<1>4. CASE Seeks
  <2>1. /\ finalized_position <= output_position
        /\ \A q \in Written : q < output_position => Right(q)
    BY <1>1, <1>4 DEF SeekInv
  <2>2. p \in 0 .. finalized_position - 1
    BY <1>2, <1>3, <1>4
  <2>3. p \in Written
    BY <1>1, <2>2 DEF ChunkInv
  <2>4. p < output_position
    BY <1>2, <1>3, <1>4, <2>1
  <2> QED BY <1>1, <2>1, <2>3, <2>4 DEF ChunkInv
<1>5. CASE ~ Seeks
  <2>1. /\ output_position <= finalized_position
        /\ \A q \in 0 .. output_position - 1 : Right(q)
    BY <1>1, <1>5 DEF DirectInv
  <2>2. p \in 0 .. output_position - 1 /\ p \in 0 .. finalized_position - 1
    BY <1>2, <1>3, <1>5, <2>1
  <2>3. p \in Written
    BY <1>1, <2>2 DEF ChunkInv
  <2> QED BY <1>1, <2>1, <2>2, <2>3 DEF ChunkInv
<1> QED BY <1>4, <1>5

\* What the client may take as final is the beginning of the file byte for byte, each
\* header in its place although it was written after what it is the header of.
THEOREM FinalBytesAreTheFile == Spec => []FinalIsTheFile
<1>1. Inv => FinalIsTheFile
  BY FinalRight
<1> QED BY <1>1, OutputInvariant, PTL

\* A call that succeeds when everything was processed has given the client the whole
\* file, all of it final, and no byte beyond.
THEOREM SuccessGivesWholeFile == Spec => []SuccessIsWholeFile
<1>1. ASSUME Inv PROVE SuccessIsWholeFile
  <2> SUFFICES ASSUME status = "SUCCESS", processed = Len(job.inputs), ~ stop_requested
               PROVE  DOMAIN client.bytes = 0 .. Len(WholeFile) - 1 /\ Final = Len(WholeFile)
    BY DEF SuccessIsWholeFile
  <2>1. TypeInv /\ PlanInv /\ ControlInv /\ ChunkInv /\ DirectInv /\ SeekInv
    BY <1>1 DEF Inv
  <2>2. /\ Final = IF Seeks THEN finalized_position ELSE output_position
        /\ output_position \in Nat /\ finalized_position \in Nat /\ position \in Nat
    BY <1>1, FinalIs
  <2>3. todo = <<>> /\ task = "none"
    BY <2>1 DEF ControlInv
  <2>4. finalized_position = position /\ output_position = position
    BY <2>1, <2>3 DEF ControlInv
  <2>5. holes = <<>> /\ position = Len(WholeFile)
    BY <2>1, <2>3, NothingLeft DEF WholeFile
  <2>6. \A q : q \in Written <=> q \in Nat /\ q < position
    BY <2>1, <2>5, NoHoleWritten
  <2>7. DOMAIN client.bytes \subseteq Written
    BY <2>1 DEF DirectInv, SeekInv
  <2>8. ASSUME NEW q \in Written PROVE q \in DOMAIN client.bytes
    <3>1. CASE Seeks
      <4>1. q < output_position
        BY <2>4, <2>6
      <4> QED BY <2>1, <3>1, <4>1 DEF SeekInv, Right
    <3>2. CASE ~ Seeks
      <4>1. q \in 0 .. output_position - 1
        BY <2>2, <2>4, <2>6
      <4> QED BY <2>1, <3>2, <4>1 DEF DirectInv, Right
    <3> QED BY <3>1, <3>2
  <2>9. \A q : q \in 0 .. position - 1 <=> q \in Written
    BY <2>2, <2>6
  <2>10. DOMAIN client.bytes = 0 .. position - 1
    BY <2>7, <2>8, <2>9
  <2> QED BY <2>2, <2>4, <2>5, <2>10
<1> QED BY <1>1, OutputInvariant, PTL

\* What is out or final stays so; a step that learns of a stop hands nothing over.
Forward ==
  /\ processor' = processor /\ job' = job
  /\ finalized_position' >= finalized_position
  /\ ~ Seeks => output_position' >= output_position
  /\ client' = client \/ stop_requested' = stop_requested

LEMMA ForwardStays ==
  ASSUME Inv, UNCHANGED <<processor, job, finalized_position, output_position>>,
         client' = client \/ stop_requested' = stop_requested
  PROVE  Forward
<1>1. output_position \in Nat /\ finalized_position \in Nat
  BY FinalIs
<1> QED BY <1>1 DEF Forward

LEMMA ForwardSeek ==
  ASSUME Inv, NEW pos, Seek(pos), job' = job
  PROVE  Forward
<1>1. output_position \in Nat /\ finalized_position \in Nat
  BY FinalIs
<1> QED BY <1>1 DEF Forward, Seek, Seeks

LEMMA ForwardFill ==
  ASSUME Inv, FillBuffer
  PROVE  Forward
<1>1. PICK n \in 1 .. Smaller(buffer.size, Len(Order.data)) :
        ReleaseBuffer(SubSeq(Order.data, 1, n)) /\ job' = job
  BY DEF FillBuffer
<1>2. /\ output_position \in Nat /\ finalized_position \in Nat /\ position \in Nat
      /\ finalized_position <= position
  BY FinalIs, FinalWritten
<1>3. Lent
  BY <1>1 DEF ReleaseBuffer, Lent
<1>4. /\ Order.data \in Data /\ Len(Order.data) \in Nat /\ buffer.size \in Nat /\ Matches(Order.data, position)
  BY <1>3, LentFacts
<1>5. n \in 0 .. Len(Order.data)
  BY <1>4 DEF Smaller
<1>6. PICK data : data = SubSeq(Order.data, 1, n)
  OBVIOUS
<1>7. Len(data) \in Nat
  BY <1>2, <1>4, <1>5, <1>6, RestIs
<1>8. ReleaseBuffer(data)
  BY <1>1, <1>6
<1>9. processor' = processor /\ stop_requested' = stop_requested
  BY <1>8 DEF ReleaseBuffer, EnsureFails
<1>10. ~ Seeks => output_position' = output_position
  BY <1>8 DEF ReleaseBuffer, EnsureFails, ReleaseOwnBuffer, ReleaseUserBuffer
<1>11. finalized_position' = finalized_position \/ finalized_position' = position + Len(data)
  BY <1>8 DEF ReleaseBuffer, EnsureFails, ReleaseOwnBuffer, ReleaseUserBuffer
<1>12. finalized_position' >= finalized_position
  BY <1>2, <1>7, <1>11
<1> QED BY <1>1, <1>2, <1>9, <1>10, <1>12 DEF Forward

LEMMA ForwardTake ==
  ASSUME Inv, TakeBuffer
  PROVE  Forward
<1>1. UNCHANGED <<processor, job, finalized_position, output_position, client>>
  BY DEF TakeBuffer, GetBuffer, Refuse, EnsureFails, AskProcessor, OwnBuffer, LendWindow, Lend, writerVars
<1> QED BY <1>1, ForwardStays

LEMMA ForwardAppend ==
  ASSUME Inv, AppendReleased, UNCHANGED writerVars
  PROVE  Forward
<1>1. Seeks
  BY LastFilledIs DEF AppendReleased
<1>2. UNCHANGED <<processor, job, finalized_position>>
  BY DEF AppendReleased, writerVars
<1>3. client' = client \/ stop_requested' = stop_requested
  BY DEF AppendReleased
<1>4. finalized_position \in Nat
  BY FinalIs
<1> QED BY <1>1, <1>2, <1>3, <1>4 DEF Forward

LEMMA ForwardFlush ==
  ASSUME Inv, FlushOutput, UNCHANGED writerVars
  PROVE  Forward
<1>1. task \in {"flush", "settle"} /\ job' = job
  BY DEF FlushOutput, writerVars
<1>2. CASE ~ MoreToFlush
  <2>1. LeaveFlush /\ UNCHANGED stop_requested
    BY <1>2 DEF FlushOutput
  <2> QED BY <1>1, <2>1, ForwardStays DEF LeaveFlush
<1>3. CASE MoreToFlush
  <2>0. /\ output_position \in Nat /\ finalized_position \in Nat /\ avail_out \in Nat
    BY FinalIs DEF Inv, TypeInv
  <2>1. FlushOwned \/ FlushLent \/ FlushStopped
    BY <1>1, <1>3, FlushReady DEF FlushOutput
  <2>2. ASSUME NEW n \in Int, NEW holds, Moves(n, holds), ~ Seeks => n >= 0
        PROVE  Forward
    BY <1>1, <2>0, <2>2 DEF Moves, Forward
  <2>3. CASE FlushOwned
    <3>1. NumToWrite \in Int /\ NumToWrite > 0
      BY <1>1, <1>3, <2>3, ToWrite DEF FlushOwned
    <3>2. PICK size : /\ size \in (IF External THEN Sizes \ {0} ELSE {avail_out})
                      /\ Moves(Smaller(NumToWrite, size), Copied(First, Smaller(NumToWrite, size)))
      BY <2>3 DEF FlushOwned
    <3>3. size \in Nat
      BY <2>0, <3>2, SizesAssumption
    <3>4. Smaller(NumToWrite, size) \in Nat
      BY <3>1, <3>3 DEF Smaller
    <3>5. PICK n \in Nat : n = Smaller(NumToWrite, size)
      BY <3>4
    <3>6. PICK holds : holds = Copied(First, n)
      OBVIOUS
    <3>7. Moves(n, holds)
      BY <3>2, <3>5, <3>6
    <3> QED BY <2>2, <3>5, <3>7
  <2>4. CASE FlushLent
    <3>1. NumToWrite \in Int /\ (~ Seeks => NumToWrite > 0)
      BY <1>1, <1>3, ToWrite
    <3>2. PICK n \in Int : n = NumToWrite
      BY <3>1
    <3>3. PICK holds : Moves(n, holds)
      BY <2>4, <3>2 DEF FlushLent
    <3> QED BY <2>2, <3>1, <3>2, <3>3
  <2>5. CASE FlushStopped
    BY <1>1, <2>5, ForwardStays DEF FlushStopped, LeaveFlush
  <2> QED BY <2>1, <2>3, <2>4, <2>5
<1> QED BY <1>2, <1>3

LEMMA ForwardNext ==
  ASSUME Inv, Next
  PROVE  Forward
<1>1. CASE AddInput \/ FlushInput \/ Return \/ ReturnError \/ BeginInput \/ NothingToWrite
  BY <1>1, ForwardStays DEF AddInput, FlushInput, Return, ReturnError, BeginInput, NothingToWrite, outputVars
<1>2. CASE ProcessOutput
  BY <1>2, ForwardStays DEF ProcessOutput, SetAvailOut
<1>3. CASE TaskStep /\ Running /\ UNCHANGED writerVars
  BY <1>3, ForwardAppend, ForwardFlush DEF TaskStep
<1>4. CASE TakeBuffer
  BY <1>4, ForwardTake
<1>5. CASE FillBuffer
  BY <1>5, ForwardFill
<1>6. CASE LeaveHole
  BY <1>6, ForwardSeek DEF LeaveHole
<1>7. CASE GoBack
  BY <1>7, ForwardSeek DEF GoBack
<1>8. CASE GoOn
  <2>1. job' = job
    BY <1>8 DEF GoOn
  <2>2. CASE position = holes[1].after
    BY <1>8, <2>1, <2>2, ForwardSeek DEF GoOn
  <2>3. CASE position # holes[1].after
    BY <1>8, <2>1, <2>3, ForwardStays DEF GoOn, EnsureFails
  <2> QED BY <2>2, <2>3
<1>9. CASE FinalizeOutput
  <2>1. finalized_position <= position /\ finalized_position' = position /\ job' = job
        /\ UNCHANGED <<processor, output_position, stop_requested>>
    BY <1>9, FinalWritten DEF FinalizeOutput, SetFinalizedPosition
  <2>2. output_position \in Nat /\ finalized_position \in Nat /\ position \in Nat
    BY FinalIs
  <2> QED BY <2>1, <2>2 DEF Forward
<1> QED BY <1>1, <1>2, <1>3, <1>4, <1>5, <1>6, <1>7, <1>8, <1>9 DEF Next, ClientCall, EncoderStep, OrderStep

LEMMA FinalNext ==
  Inv' => FinalIsTheFile' /\ (Final = IF Seeks THEN finalized_position ELSE output_position)'
<1>1. Inv => FinalIsTheFile /\ (Final = IF Seeks THEN finalized_position ELSE output_position)
  BY FinalRight, FinalIs
<1> QED BY <1>1, PTL

\* Until a client asks to stop, its processor is never sent before what it was told is
\* final, and no byte there changes ("won't be changed by later writes", encode.h), in any
\* step of any run.
THEOREM FinalizedAlwaysStands == Spec => FinalizedStands
<1> DEFINE Stands ==
             ~ stop_requested =>
               /\ client'.position < client.position => client'.position >= Final
               /\ \A p \in DOMAIN client.bytes :
                    p < Final => p \in DOMAIN client'.bytes /\ client'.bytes[p] = client.bytes[p]
<1>1. ASSUME Inv, Inv', Next, ~ stop_requested
      PROVE  /\ client'.position < client.position => client'.position >= Final
             /\ \A p \in DOMAIN client.bytes :
                  p < Final => p \in DOMAIN client'.bytes /\ client'.bytes[p] = client.bytes[p]
  <2>1. /\ Final = IF Seeks THEN finalized_position ELSE output_position
        /\ output_position \in Nat /\ finalized_position \in Nat
        /\ client \in [position : Nat, finalized : Nat, bytes : Memory]
    BY <1>1, FinalIs DEF Inv, TypeInv
  <2>2. CASE client' = client
    BY <2>1, <2>2
  <2>3. CASE client' # client
    <3>1. /\ processor' = processor /\ job' = job /\ ~ stop_requested'
          /\ finalized_position' >= finalized_position
          /\ ~ Seeks => output_position' >= output_position
      BY <1>1, <2>3, ForwardNext DEF Forward
    <3>2. /\ output_position' \in Nat /\ finalized_position' \in Nat /\ position' \in Nat
          /\ processor \in {"window", "stream", "seek"}
          /\ finalized_position' <= position'
          /\ ~ Seeks => output_position' <= finalized_position'
      BY <1>1, <3>1 DEF Inv, TypeInv, ChunkInv, DirectInv, Seeks
    <3>3. client'.position >= Final
      <4>1. CASE processor = "window"
        <5>1. client'.position = output_position'
          BY <1>1, <3>1, <4>1 DEF Inv, WindowInv, External
        <5> QED BY <2>1, <3>1, <4>1, <5>1 DEF Seeks
      <4>2. CASE processor = "stream"
        <5>1. client'.position = output_position' \/ client'.position = position'
          BY <1>1, <3>1, <4>2 DEF Inv, StreamInv
        <5> QED BY <2>1, <3>1, <3>2, <4>2, <5>1 DEF Seeks
      <4>3. CASE processor = "seek"
        <5>1. client'.position = output_position' /\ finalized_position' <= output_position'
          BY <1>1, <3>1, <4>3 DEF Inv, SeekInv, Seeks
        <5> QED BY <2>1, <3>1, <3>2, <4>3, <5>1 DEF Seeks
      <4> QED BY <3>2, <4>1, <4>2, <4>3
    <3>4. ASSUME NEW p \in DOMAIN client.bytes, p < Final
          PROVE  p \in DOMAIN client'.bytes /\ client'.bytes[p] = client.bytes[p]
      <4>1. p \in Nat
        BY <2>1, MemoryFacts
      <4>2. FinalIsTheFile /\ FinalIsTheFile' /\ WholeFile' = WholeFile
        <5>1. FinalIsTheFile'
          BY <1>1, FinalNext
        <5> QED BY <1>1, <3>1, <5>1, FinalRight, JobStays
      <4>3. Final' = IF Seeks THEN finalized_position' ELSE output_position'
        <5>1. (Final = IF Seeks THEN finalized_position ELSE output_position)'
          BY <1>1, FinalNext
        <5> QED BY <3>1, <5>1 DEF Seeks
      <4>4. p \in 0 .. Final - 1 /\ p \in 0 .. Final' - 1
        BY <2>1, <3>1, <3>2, <3>4, <4>1, <4>3
      <4>5. client.bytes[p] = WholeFile[p + 1]
        BY <1>1, <4>2, <4>4 DEF FinalIsTheFile
      <4>6. p \in DOMAIN client'.bytes /\ client'.bytes[p] = WholeFile[p + 1]
        BY <3>1, <4>2, <4>4 DEF FinalIsTheFile
      <4> QED BY <4>5, <4>6
    <3> QED BY <3>3, <3>4
  <2> QED BY <2>2, <2>3
<1>2. Inv /\ Inv' /\ [Next]_vars => [Stands]_vars
  BY <1>1
<1> QED BY <1>2, OutputInvariant, PTL DEF Spec, FinalizedStands
================================================================================
