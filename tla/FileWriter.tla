------------------------------- MODULE FileWriter -------------------------------
(***************************************************************************)
(* How the C++ encoder writes its file: JxlEncoder::ProcessOneEnqueuedInput*)
(* and the calls that run it, JxlEncoderProcessOutput and                  *)
(* JxlEncoderFlushInput, on top of OutputProcessor.                        *)
(*                                                                         *)
(* What the encoder writes for one queued input is a list of orders to the *)
(* output processor (`todo`), worked off one step at a time.  A box or the *)
(* sections of a frame written as they come leave a hole for their header, *)
(* go back to it when their size is known, and on to their end; holes nest.*)
(* Bytes are named by what they belong to and their place in it.  What a   *)
(* box header or the counter of a jxlp box says is part of the name.       *)
(***************************************************************************)
EXTENDS OutputProcessor

CONSTANTS
  Jobs,         \* what clients encode: settings and the inputs they queue
  HeaderSize,   \* bytes of a box header (8 in the code; 16 for large boxes)
  PackedMin,    \* the least buffer of JxlFastLosslessOutputFrame (32 in the code)
  Windows       \* sizes of the slices given to JxlEncoderProcessOutput

ASSUME WriterAssumption ==
  /\ HeaderSize \in Nat \ {0} /\ PackedMin \in Nat \ {0}
  /\ Windows \subseteq Nat \ {0}

\* A frame is never empty (it has a header); a box may be.
FrameInputs == [kind : {"frame"}, name : STRING, size : Nat \ {0},
                body : {"oneshot", "streaming", "fast", "fast streaming"}]
BoxInputs == [kind : {"box"}, name : STRING, size : Nat]

ASSUME JobsAssumption ==
  Jobs \subseteq [container : BOOLEAN, level10 : BOOLEAN, store_jpeg_metadata : BOOLEAN,
                 jbrd : Nat, index : Nat, inputs : Seq(FrameInputs \union BoxInputs)]

VARIABLES
  job,           \* settings and all inputs of this client
  added,         \* how many of them it has queued
  processed,     \* how many the encoder has begun
  jxlp_counter,  \* jxlp_counter: partial codestream boxes so far
  todo,          \* orders still to be carried out for the current input
  holes,         \* headers left out, innermost first: where, how long, where it ended
  status         \* "RUNNING" during a call, else what the last one returned

writerVars == <<job, added, processed, jxlp_counter, todo, holes, status>>
vars == <<outputVars, writerVars>>

Running == status = "RUNNING"

IsFrame(input) == input.kind = "frame"

Bytes(name, n) == [k \in 1 .. n |-> <<name, k>>]

-----------------------------------------------------------------------------
(* Orders.                                                                 *)

\* Write `data`: in buffers as they come (AppendData), in one buffer, or in
\* buffers of at least PackedMin that need not be filled.
AppendData(data) == [op |-> "append", data |-> data]
InOneBuffer(data) == [op |-> "exact", data |-> data]
Packed(data) == [op |-> "packed", data |-> data]

Hole(n) == [op |-> "hole", size |-> n]
Back == [op |-> "back", header |-> "none"]
End == [op |-> "end"]
Finalize == [op |-> "finalize"]

\* A box header declares the type and the size of what follows it, a counter
\* the number of a partial codestream box and whether it is the last.
BoxHeader(type, size) == Bytes(<<type, size>>, HeaderSize)
Counter(number, last) == Bytes(<<number, last>>, 1)

\* The header of a box written by AppendBox, or of the box round a frame,
\* which holds the counter as well.
BackToBox(type) == [op |-> "back", header |-> "box", type |-> type]
BackToFrame(number, last) == [op |-> "back", header |-> "frame", number |-> number, last |-> last]

HeaderOrders(order, size) ==
  CASE order.header = "none" -> <<>>
    [] order.header = "box" -> <<InOneBuffer(BoxHeader(order.type, size))>>
    [] order.header = "frame" ->
         IF order.last /\ order.number = 0
         THEN <<AppendData(BoxHeader("jxlc", size))>>
         ELSE <<AppendData(BoxHeader("jxlp", size + 1) \o Counter(order.number, order.last))>>

AppendBox(type, contents) == <<Hole(HeaderSize), contents, BackToBox(type), End, Finalize>>

-----------------------------------------------------------------------------
(* What is written for an input.                                           *)

Signature == Bytes("JXL ftyp", 2)
LevelBox == Bytes("jxll", 2)
CodestreamHeader == Bytes("header", 2)

\* The codestream header goes into a box of its own, ahead of boxes and of
\* reconstruction data, and also where such data was to be stored and there is none.
PartialHeader == job.container /\ (job.store_jpeg_metadata \/ ~IsFrame(job.inputs[1]))

HasReconstruction == job.store_jpeg_metadata /\ job.jbrd > 0

\* What precedes the first input.
HeaderBoxes ==
  IF ~job.container THEN <<>>
  ELSE <<InOneBuffer(Signature)>>
       \o (IF job.level10 THEN <<InOneBuffer(LevelBox)>> ELSE <<>>)
       \o (IF PartialHeader
           THEN AppendBox("jxlp", InOneBuffer(Counter(0, FALSE) \o CodestreamHeader)) ELSE <<>>)
       \o (IF HasReconstruction THEN AppendBox("jbrd", AppendData(Bytes("jbrd", job.jbrd))) ELSE <<>>)

\* The frame itself: at once, section by section behind a hole for its header
\* and table of contents, or by the fast lossless encoder in either way.
Part(input, part) == Bytes(<<input.name, part>>, input.size)

FrameBody(input) ==
  CASE input.body = "oneshot" -> <<AppendData(Part(input, "frame"))>>
    [] input.body = "streaming" ->
         <<Hole(2 * input.size), AppendData(Part(input, "group 1")),
           AppendData(Part(input, "group 2")), Back, AppendData(Part(input, "toc")),
           AppendData(Part(input, "dc global")), End>>
    [] input.body = "fast" -> <<Packed(Part(input, "frame"))>>
    [] input.body = "fast streaming" ->
         <<Hole(2 * input.size), Packed(Part(input, "group 1")), Packed(Part(input, "group 2")),
           Back, AppendData(Part(input, "toc")), AppendData(Part(input, "dc global")), End>>

\* The codestream header is written with the first frame unless it has its box.
HeaderOf(n) ==
  IF PartialHeader \/ n > 1 THEN <<>> ELSE CodestreamHeader

\* Mutation of FrameOrders: the last frame leaves no room for a counter.
FrameOrdersNoCounter(n, number, last) ==
  LET frame == <<AppendData(HeaderOf(n))>> \o FrameBody(job.inputs[n])
      boxed == IF job.container
               THEN <<Hole(HeaderSize + IF last THEN 0 ELSE 1)>> \o frame
                    \o <<BackToFrame(number, last), End>>
               ELSE frame
  IN boxed \o <<Finalize>>

\* Mutation of FrameOrders: the frame is finalized before its box header is written.
FrameOrdersEarly(n, number, last) ==
  LET frame == <<AppendData(HeaderOf(n))>> \o FrameBody(job.inputs[n]) \o <<Finalize>>
      counter == IF last /\ number = 0 THEN 0 ELSE 1
  IN IF job.container
     THEN <<Hole(HeaderSize + counter)>> \o frame \o <<BackToFrame(number, last), End, Finalize>>
     ELSE frame

FrameOrders(n, number, last) ==
  LET input == job.inputs[n]
      frame == <<AppendData(HeaderOf(n))>> \o FrameBody(input)
      counter == IF last /\ number = 0 THEN 0 ELSE 1
      boxed == IF job.container
               THEN <<Hole(HeaderSize + counter)>> \o frame \o <<BackToFrame(number, last), End>>
               ELSE frame
  IN boxed \o <<Finalize>>
     \o (IF last /\ job.index > 0 THEN AppendBox("jxli", AppendData(Bytes("index", job.index)))
         ELSE <<>>)

BoxOrders(input) == AppendBox(input.name, AppendData(Bytes(input.name, input.size)))

\* The client closes the frames when it queues the last one (frames_closed).
LastFrame(n) == \A k \in n + 1 .. Len(job.inputs) : ~IsFrame(job.inputs[k])

Orders(n, number) ==
  (IF n = 1 THEN HeaderBoxes ELSE <<>>) \o <<Finalize>>
  \o (IF IsFrame(job.inputs[n]) THEN FrameOrders(n, number, LastFrame(n))
      ELSE BoxOrders(job.inputs[n]))

-----------------------------------------------------------------------------
(* Carrying the orders out.                                                *)

Init ==
  /\ OutputInit
  /\ job \in Jobs
  /\ added = 0 /\ processed = 0 /\ jxlp_counter = 0
  /\ todo = <<>> /\ holes = <<>>
  /\ status = "SUCCESS"

Order == Head(todo)
Ready(op) == Running /\ error = "none" /\ task = "none" /\ todo # <<>> /\ Order.op = op

Done == todo' = Tail(todo)

Rest(data, n) == SubSeq(data, n + 1, Len(data))

\* A loop that writes nothing, or no longer.
NothingToWrite ==
  /\ Running /\ error = "none" /\ task = "none" /\ todo # <<>>
  /\ Order.op \in {"append", "packed"} /\ Order.data = <<>>
  /\ Done
  /\ UNCHANGED <<outputVars, job, added, processed, jxlp_counter, holes, status>>

\* Take a buffer ...
MinSize == CASE Order.op = "append" -> 1
             [] Order.op = "exact" -> Len(Order.data)
             [] Order.op = "packed" -> PackedMin

TakeBuffer ==
  /\ \E op \in {"append", "exact", "packed"} : Ready(op)
  /\ Order.data # <<>>
  /\ GetBuffer(MinSize, Len(Order.data))
  /\ UNCHANGED writerVars

\* ... and fill it.  The fast lossless encoder keeps bits back and may leave
\* some of its buffer unused; into PackedMin bytes it always writes some, so that no
\* buffer is given back empty.
FillBuffer ==
  /\ \E op \in {"append", "exact", "packed"} : Ready(op)
  /\ \E n \in 1 .. Smaller(buffer.size, Len(Order.data)) :
       /\ Order.op # "packed" => n = Smaller(buffer.size, Len(Order.data))
       /\ ReleaseBuffer(SubSeq(Order.data, 1, n))
       /\ todo' = IF n = Len(Order.data) THEN Tail(todo)
                  ELSE <<[Order EXCEPT !.data = Rest(@, n)]>> \o Tail(todo)
  /\ UNCHANGED <<job, added, processed, jxlp_counter, holes, status>>

\* Leave room for a header.
LeaveHole ==
  /\ Ready("hole")
  /\ Seek(position + Order.size)
  /\ holes' = <<[start |-> position, after |-> position + Order.size, end |-> 0]>> \o holes
  /\ Done
  /\ UNCHANGED <<job, added, processed, jxlp_counter, status>>

\* Go back to the header, now that its size is known.
GoBack ==
  /\ Ready("back")
  /\ Seek(holes[1].start)
  /\ holes' = [holes EXCEPT ![1].end = position]
  /\ todo' = HeaderOrders(Order, position - holes[1].after) \o Tail(todo)
  /\ UNCHANGED <<job, added, processed, jxlp_counter, status>>

\* The header fills the room that was left; go on behind what it is the header of.
GoOn ==
  /\ Ready("end")
  /\ IF position = holes[1].after THEN Seek(holes[1].end) ELSE EnsureFails
  /\ holes' = Tail(holes)
  /\ Done
  /\ UNCHANGED <<job, added, processed, jxlp_counter, status>>

FinalizeOutput ==
  /\ Ready("finalize")
  /\ SetFinalizedPosition
  /\ Done
  /\ UNCHANGED <<job, added, processed, jxlp_counter, holes, status>>

OrderStep ==
  \/ NothingToWrite \/ TakeBuffer \/ FillBuffer
  \/ LeaveHole \/ GoBack \/ GoOn \/ FinalizeOutput

-----------------------------------------------------------------------------
(* The calls.                                                              *)

\* The client queues its next input between calls, and closes the frames with
\* the last.
AddInput ==
  /\ status \in {"SUCCESS", "MORE"}
  /\ added < Len(job.inputs)
  /\ added' = added + 1
  /\ UNCHANGED <<outputVars, job, processed, jxlp_counter, todo, holes, status>>

ProcessOutput ==
  /\ status \in {"SUCCESS", "MORE"}
  /\ added > 0
  /\ \E size \in Windows : SetAvailOut(size)
  /\ status' = "RUNNING"
  /\ UNCHANGED <<job, added, processed, jxlp_counter, todo, holes>>

FlushInput ==
  /\ status \in {"SUCCESS", "MORE"}
  /\ External /\ added > 0
  /\ status' = "RUNNING"
  /\ UNCHANGED <<outputVars, job, added, processed, jxlp_counter, todo, holes>>

Idle == Running /\ error = "none" /\ task = "none" /\ todo = <<>>

GoesOn == processed < added /\ (External \/ avail_out > 0)

\* ProcessOneEnqueuedInput.
BeginInput ==
  /\ Idle /\ GoesOn
  /\ processed' = processed + 1
  /\ LET number == IF processed = 0 /\ PartialHeader THEN 1 ELSE jxlp_counter
     IN /\ todo' = Orders(processed + 1, number)
        /\ jxlp_counter' =
             IF /\ job.container /\ IsFrame(job.inputs[processed + 1])
                /\ ~(LastFrame(processed + 1) /\ number = 0)
             THEN number + 1 ELSE number
  /\ UNCHANGED <<outputVars, job, added, holes, status>>

\* Mutation of HasOutputToWrite: only a closed gap counts.
HasWholeOutput == output_position > finalized_position

HasOutputToWrite == output_position < finalized_position

Return ==
  /\ Idle /\ ~GoesOn
  /\ status' = IF ~External /\ (processed < added \/ HasOutputToWrite) THEN "MORE" ELSE "SUCCESS"
  /\ UNCHANGED <<outputVars, job, added, processed, jxlp_counter, todo, holes>>

ReturnError ==
  /\ Running /\ error # "none"
  /\ status' = "ERROR"
  /\ UNCHANGED <<outputVars, job, added, processed, jxlp_counter, todo, holes>>

EncoderStep == (TaskStep /\ Running /\ UNCHANGED writerVars) \/ OrderStep
               \/ BeginInput \/ Return \/ ReturnError

ClientCall == AddInput \/ ProcessOutput \/ FlushInput

Next == ClientCall \/ EncoderStep

\* A call runs until it returns; the client queues all of its inputs sooner or
\* later, however often it calls in between (so strongly fair), and calls
\* again when it is told to.
Fairness ==
  /\ WF_vars(EncoderStep)
  /\ SF_vars(AddInput)
  /\ WF_vars(status = "MORE" /\ ProcessOutput)
  /\ WF_vars(processed < added /\ (ProcessOutput \/ FlushInput))

Spec == Init /\ [][Next]_vars /\ Fairness

-----------------------------------------------------------------------------
(* The file as it should be, from its parts in their order.                *)

Boxed(type, contents) == BoxHeader(type, Len(contents)) \o contents

WholeBody(input) ==
  IF input.body \in {"oneshot", "fast"} THEN Part(input, "frame")
  ELSE Part(input, "toc") \o Part(input, "dc global") \o Part(input, "group 1") \o Part(input, "group 2")

\* Parts of the codestream ahead of the n-th input.
PartsBefore(n) ==
  (IF PartialHeader THEN 1 ELSE 0) + Cardinality({k \in 1 .. n - 1 : IsFrame(job.inputs[k])})

WholeInput(n) ==
  LET input == job.inputs[n]
      last == IsFrame(input) /\ LastFrame(n)
      stream == HeaderOf(n) \o WholeBody(input)
      index == IF last /\ job.index > 0 THEN Boxed("jxli", Bytes("index", job.index)) ELSE <<>>
  IN IF ~IsFrame(input) THEN Boxed(input.name, Bytes(input.name, input.size))
     ELSE IF ~job.container THEN stream \o index
     ELSE IF last /\ PartsBefore(n) = 0 THEN Boxed("jxlc", stream) \o index
     ELSE Boxed("jxlp", Counter(PartsBefore(n), last) \o stream) \o index

WholeHeader ==
  (IF job.container THEN Signature ELSE <<>>)
  \o (IF job.container /\ job.level10 THEN LevelBox ELSE <<>>)
  \o (IF PartialHeader THEN Boxed("jxlp", Counter(0, FALSE) \o CodestreamHeader) ELSE <<>>)
  \o (IF job.container /\ HasReconstruction THEN Boxed("jbrd", Bytes("jbrd", job.jbrd)) ELSE <<>>)

\* The file up to its n-th input; nothing is written before there is one.
UpTo[n \in 0 .. Len(job.inputs)] ==
  IF n = 0 THEN <<>>
  ELSE UpTo[n - 1] \o (IF n = 1 THEN WholeHeader ELSE <<>>) \o WholeInput(n)

WholeFile == UpTo[Len(job.inputs)]

-----------------------------------------------------------------------------
(* Properties.                                                             *)

\* None of the checks the encoder makes of itself (JXL_ENSURE in GetBuffer, Seek,
\* ReleaseBuffer and FlushOutput) fails, however the client cuts its buffers.
EnsuresHold == error # "ensure"

\* What the client may take as final: what its window holds, or what it was told.
Final == IF External THEN client.finalized ELSE client.position

\* What is final is the beginning of the file, byte for byte, with each header in
\* its place although it was written after what it is the header of.  (After a stop
\* a processor that can seek is told more than it has.)
FinalIsTheFile ==
  ~(Seeks /\ stop_requested) =>
    \A p \in 0 .. Final - 1 :
      p < Len(WholeFile) /\ p \in DOMAIN client.bytes /\ client.bytes[p] = WholeFile[p + 1]

\* When everything was processed and the client never asked to stop, success means
\* that it has the whole file and that all of it is final.
SuccessIsWholeFile ==
  (status = "SUCCESS" /\ processed = Len(job.inputs) /\ ~stop_requested) =>
    /\ DOMAIN client.bytes = 0 .. Len(WholeFile) - 1
    /\ Final = Len(WholeFile)

\* Until a client asks to stop, its processor is never sent before what it was told is
\* final, and bytes there never change ("won't be changed by later writes", encode.h).
FinalizedStands ==
  [][ ~stop_requested =>
      /\ client'.position < client.position => client'.position >= Final
      /\ \A p \in DOMAIN client.bytes :
           p < Final => p \in DOMAIN client'.bytes /\ client'.bytes[p] = client.bytes[p] ]_vars

\* A client that queues its inputs and calls again when told to gets its file, or an
\* error after it has asked to stop.
FileFinishes ==
  <>(status = "ERROR" \/ (status = "SUCCESS" /\ processed = Len(job.inputs)))
==============================================================================
