---------------------------- MODULE OutputProcessor ----------------------------
(***************************************************************************)
(* JxlEncoderOutputProcessorWrapper of lib/jxl/encode.cc and               *)
(* encode_internal.h: how the C++ encoder hands its bytes to a client.     *)
(*                                                                         *)
(* The client takes them in one of three ways: "window", a slice of memory *)
(* per JxlEncoderProcessOutput; "stream", an output processor that cannot  *)
(* seek; "seek", one that can.  The encoder writes out of order, with Seek,*)
(* and the wrapper keeps in chunks of its own what cannot be passed on yet.*)
(*                                                                         *)
(* A buffer the wrapper lends out is filled and released in the next step. *)
(* FlushOutput and the loop of ReleaseBuffer take one step per iteration,  *)
(* since each may ask the client for a buffer; `task` says which of them   *)
(* runs.  Bytes are values of any kind.                                    *)
(***************************************************************************)
EXTENDS Integers, Sequences, FiniteSets

CONSTANT Sizes   \* what get_buffer may answer; 0 asks the library to stop

ASSUME SizesAssumption == Sizes \subseteq Nat

VARIABLES
  processor,           \* how the client takes its output
  avail_out,           \* *avail_out_
  internal_buffers,    \* internal_buffers_: start -> [written, data]
  position,            \* position_: where the next byte goes
  finalized_position,  \* finalized_position_
  output_position,     \* output_position_
  stop_requested,      \* stop_requested_
  buffer,              \* the JxlOutputProcessorBuffer in use (has_buffer_)
  task,                \* the loop that runs: "none", "append", "flush", "settle"
  error,               \* why the running call fails: "none", "stopped", "ensure"
  client               \* the client: where it writes, what it holds

outputVars == <<processor, avail_out, internal_buffers, position, finalized_position,
                output_position, stop_requested, buffer, task, error, client>>

External == processor # "window"
Seeks == processor = "seek"

NoBuffer == [size |-> 0, owned |-> FALSE, at |-> 0]

\* client.position is where *next_out points or where the processor stands,
\* client.finalized the last set_finalized_position, client.bytes its memory.
OutputInit ==
  /\ processor \in {"window", "stream", "seek"}
  /\ avail_out = 0
  /\ internal_buffers = <<>>
  /\ position = 0 /\ finalized_position = 0 /\ output_position = 0
  /\ stop_requested = FALSE
  /\ buffer = NoBuffer
  /\ task = "none"
  /\ error = "none"
  /\ client = [position |-> 0, finalized |-> 0, bytes |-> <<>>]

Lowest(S) == CHOOSE n \in S : \A m \in S : n <= m

Smaller(a, b) == IF a < b THEN a ELSE b
Larger(a, b) == IF a > b THEN a ELSE b

\* `bytes` with `data` stored from `at` on.
Stored(bytes, at, data) ==
  [p \in DOMAIN bytes \union at .. at + Len(data) - 1 |->
     IF at <= p /\ p < at + Len(data) THEN data[p - at + 1] ELSE bytes[p]]

Without(chunks, start) == [p \in DOMAIN chunks \ {start} |-> chunks[p]]

\* A JXL_ENSURE that does not hold ends the call with an error.
EnsureFails ==
  /\ error' = "ensure"
  /\ UNCHANGED <<processor, avail_out, internal_buffers, position, finalized_position,
                 output_position, stop_requested, buffer, task, client>>

-----------------------------------------------------------------------------
(* GetBuffer.                                                              *)

AdditionalSize == position - output_position

\* A chunk for the bytes at position_; std::map::emplace keeps one that is there.
Emplace ==
  [p \in DOMAIN internal_buffers \union {position} |->
     IF p \in DOMAIN internal_buffers THEN internal_buffers[p] ELSE [written |-> 0, data |-> <<>>]]

Lend(size, owned, at) ==
  /\ buffer' = [size |-> size, owned |-> owned, at |-> at]
  /\ internal_buffers' = Emplace
  /\ UNCHANGED <<processor, avail_out, position, finalized_position, output_position,
                 stop_requested, task, error, client>>

\* A buffer of the wrapper's own ends where the next chunk starts.
OwnSize(wanted) ==
  Lowest({wanted} \union {p - position : p \in {q \in DOMAIN internal_buffers : q > position}})

OwnBuffer(min, wanted) ==
  IF OwnSize(wanted) >= min THEN Lend(OwnSize(wanted), TRUE, 0) ELSE EnsureFails

\* The client has asked to stop, now or before: no buffer.
Refuse ==
  /\ stop_requested' = TRUE
  /\ error' = "stopped"
  /\ UNCHANGED <<processor, avail_out, internal_buffers, position, finalized_position,
                 output_position, buffer, task, client>>

\* The processor is asked only for bytes at its own position; a buffer that is
\* too small goes back at once.
AskProcessor(min, wanted) ==
  \E size \in Sizes :
    \/ size = 0 /\ Refuse
    \/ size > 0 /\ size < min /\ OwnBuffer(min, wanted)
    \/ size > 0 /\ size >= min /\ Lend(size, FALSE, client.position)

FitsWindow(min) == min + AdditionalSize < avail_out

\* Mutation of LendWindow: the buffer starts at next_out.
LendFromNextOut == Lend(avail_out - AdditionalSize, FALSE, client.position)

LendWindow == Lend(avail_out - AdditionalSize, FALSE, client.position + AdditionalSize)

GetBuffer(min, requested) ==
  LET wanted == Larger(min, requested) IN
  /\ task = "none" /\ error = "none" /\ buffer = NoBuffer
  /\ IF stop_requested THEN Refuse
     ELSE IF AdditionalSize < 0 \/ (Seeks /\ AdditionalSize # 0) THEN EnsureFails
     ELSE \/ External /\ AdditionalSize = 0 /\ AskProcessor(min, wanted)
          \/ External /\ AdditionalSize > 0 /\ OwnBuffer(min, wanted)
          \/ ~External /\ FitsWindow(min) /\ LendWindow
          \/ ~External /\ ~FitsWindow(min) /\ OwnBuffer(min, wanted)

-----------------------------------------------------------------------------
(* ReleaseBuffer: the buffer in use was filled with `data`.                *)

Filled(data) ==
  [p \in DOMAIN internal_buffers \union {position} |->
     IF p = position THEN [written |-> Len(data), data |-> IF buffer.owned THEN data ELSE <<>>]
     ELSE internal_buffers[p]]

\* What was written must not reach into the next chunk; a processor that can seek
\* stands where the encoder writes, not before what is final.
CanRelease(data) ==
  /\ \A p \in DOMAIN internal_buffers : p > position => p >= position + Len(data)
  /\ (Seeks /\ ~buffer.owned) =>
       output_position = position /\ position + Len(data) >= finalized_position

\* Of a buffer the client gave, the bytes are where they belong.  A processor
\* that cannot seek can also be told that they are final.
ReleaseUserBuffer(data) ==
  /\ position' = position + Len(data)
  /\ client' = [client EXCEPT !.bytes = Stored(@, buffer.at, data),
                              !.position = IF External THEN @ + Len(data) ELSE @]
  /\ output_position' = IF Seeks THEN output_position + Len(data) ELSE output_position
  /\ finalized_position' = IF processor = "stream" THEN position' ELSE finalized_position
  /\ task' = IF processor = "stream" THEN "settle" ELSE "none"

\* What was buffered goes out at once to a processor that can seek.
ReleaseOwnBuffer(data) ==
  /\ position' = position + Len(data)
  /\ output_position' = IF Seeks THEN position ELSE output_position
  /\ client' = IF Seeks THEN [client EXCEPT !.position = position] ELSE client
  /\ task' = IF Seeks THEN "append" ELSE "none"
  /\ UNCHANGED finalized_position

ReleaseBuffer(data) ==
  /\ buffer # NoBuffer
  /\ IF ~CanRelease(data) THEN EnsureFails
     ELSE /\ internal_buffers' = Filled(data)
          /\ IF buffer.owned THEN ReleaseOwnBuffer(data) ELSE ReleaseUserBuffer(data)
          /\ buffer' = NoBuffer
          /\ UNCHANGED <<processor, avail_out, stop_requested, error>>

-----------------------------------------------------------------------------
(* The loops that pass on what the wrapper holds.                          *)

\* The chunk that ends at position_, the one ReleaseBuffer has just filled.
LastFilled == CHOOSE p \in DOMAIN internal_buffers : p + internal_buffers[p].written = position

\* `count` bytes of the chunk at `start`, from output_position_ on.
Pending(start, count) ==
  SubSeq(internal_buffers[start].data, output_position - start + 1, output_position - start + count)

\* `n` bytes of the chunk at `start` are copied to where the client writes.
Copied(start, n) ==
  [client EXCEPT !.bytes = Stored(@, client.position, Pending(start, n)), !.position = @ + n]

\* One iteration of the loop of ReleaseBuffer: AppendBufferToExternalProcessor
\* with a buffer of some size.  A stop leaves the loop, and ReleaseBuffer succeeds.
AppendReleased ==
  /\ task = "append" /\ error = "none"
  /\ \E size \in Sizes :
       LET n == Smaller(size, position - output_position)
           done == output_position + n = position
       IN IF size = 0
          THEN /\ stop_requested' = TRUE
               /\ task' = "none"
               /\ UNCHANGED <<internal_buffers, output_position, client>>
          ELSE /\ output_position' = output_position + n
               /\ client' = Copied(LastFilled, n)
               /\ task' = IF done THEN "none" ELSE "append"
               /\ internal_buffers' = IF done THEN [internal_buffers EXCEPT ![LastFilled].data = <<>>]
                                      ELSE internal_buffers
               /\ UNCHANGED stop_requested
  /\ UNCHANGED <<processor, avail_out, position, finalized_position, buffer, error>>

MoreToFlush == output_position < finalized_position /\ (External \/ avail_out > 0)

\* The lowest chunk and where it ends.
First == Lowest(DOMAIN internal_buffers)
LastByte == First + internal_buffers[First].written

\* What FlushOutput ensures: there is a chunk, and it was written ("this is a
\* library programming error").
CanFlush ==
  /\ DOMAIN internal_buffers # {}
  /\ output_position >= First
  /\ internal_buffers[First].written # 0
  /\ internal_buffers[First].data # <<>> => LastByte > output_position

\* Below zero when the chunk lies below the output position; size_t wraps, and
\* adding it comes to the same.
NumToWrite == Smaller(LastByte, finalized_position) - output_position

\* The output moves on by `n` bytes to what `holds` says the client has then.
\* A finished chunk goes; a processor that cannot seek is told what is final.
Moves(n, holds) ==
  /\ output_position' = output_position + n
  /\ avail_out' = IF External THEN avail_out ELSE avail_out - n
  /\ internal_buffers' = IF output_position + n = LastByte THEN Without(internal_buffers, First)
                         ELSE internal_buffers
  /\ client' = IF processor = "stream" THEN [holds EXCEPT !.finalized = output_position + n] ELSE holds
  /\ UNCHANGED <<processor, position, finalized_position, stop_requested, buffer, task, error>>

\* Bytes the wrapper holds go into the window or into a buffer of the processor's.
FlushOwned ==
  /\ internal_buffers[First].data # <<>>
  /\ \E size \in IF External THEN Sizes \ {0} ELSE {avail_out} :
       LET n == Smaller(NumToWrite, size) IN Moves(n, Copied(First, n))

\* Bytes that are in the client's memory already.
FlushLent ==
  /\ internal_buffers[First].data = <<>>
  /\ Moves(NumToWrite, IF External THEN client ELSE [client EXCEPT !.position = @ + NumToWrite])

\* Within ReleaseBuffer ("settle") everything written must be out by then.
LeaveFlush ==
  /\ task' = "none"
  /\ error' = IF task = "settle" /\ {output_position, finalized_position} # {position}
              THEN "ensure" ELSE error
  /\ UNCHANGED <<processor, avail_out, internal_buffers, position, finalized_position,
                 output_position, buffer, client>>

\* The processor gives no buffer: FlushOutput leaves the rest and succeeds.
FlushStopped ==
  /\ External
  /\ internal_buffers[First].data # <<>>
  /\ 0 \in Sizes
  /\ stop_requested' = TRUE
  /\ LeaveFlush

\* One iteration of FlushOutput.
FlushOutput ==
  /\ task \in {"flush", "settle"} /\ error = "none"
  /\ IF ~MoreToFlush THEN LeaveFlush /\ UNCHANGED stop_requested
     ELSE IF CanFlush THEN FlushOwned \/ FlushLent \/ FlushStopped
     ELSE EnsureFails

TaskStep == AppendReleased \/ FlushOutput

-----------------------------------------------------------------------------
(* Seek, SetFinalizedPosition and SetAvailOut.                             *)

\* A processor that can seek is told before the check.
Seek(pos) ==
  /\ client' = IF Seeks THEN [client EXCEPT !.position = pos] ELSE client
  /\ output_position' = IF Seeks THEN pos ELSE output_position
  /\ IF pos >= finalized_position
     THEN position' = pos /\ UNCHANGED error
     ELSE error' = "ensure" /\ UNCHANGED position
  /\ UNCHANGED <<processor, avail_out, internal_buffers, finalized_position, stop_requested,
                 buffer, task>>

SetFinalizedPosition ==
  /\ client' = IF Seeks THEN [client EXCEPT !.finalized = position] ELSE client
  /\ finalized_position' = position
  /\ task' = "flush"
  /\ UNCHANGED <<processor, avail_out, internal_buffers, position, output_position,
                 stop_requested, buffer, error>>

\* Mutation of SetAvailOut: what is pending waits for the next SetFinalizedPosition.
SetAvailOutOnly(size) ==
  /\ ~External
  /\ avail_out' = size
  /\ client' = [client EXCEPT !.bytes = [p \in {q \in DOMAIN @ : q < client.position} |-> @[p]]]
  /\ UNCHANGED <<processor, internal_buffers, position, finalized_position, output_position,
                 stop_requested, buffer, error, task>>

\* A new window starts where the last one ended; what the encoder wrote into the
\* old one beyond next_out is not the client's output.
SetAvailOut(size) ==
  /\ ~External
  /\ avail_out' = size
  /\ client' = [client EXCEPT !.bytes = [p \in {q \in DOMAIN @ : q < client.position} |-> @[p]]]
  /\ task' = "flush"
  /\ UNCHANGED <<processor, internal_buffers, position, finalized_position, output_position,
                 stop_requested, buffer, error>>
==============================================================================
