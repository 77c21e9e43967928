---------------------------- MODULE CodestreamInput ----------------------------
(***************************************************************************)
(* How the C++ decoder takes its input (decode.cc): HandleBoxes walks the  *)
(* boxes of the file, and JxlDecoderProcessCodestream reads the codestream *)
(* that is spread over them. Codestream bytes it could not use yet are kept*)
(* in codestream_copy; those of them that are still in the client's buffer *)
(* too are codestream_unconsumed, so that the client is only told that     *)
(* bytes were processed when they were. The client may take its buffer     *)
(* back after any call and hand over the unprocessed bytes with more.      *)
(*                                                                         *)
(* A byte of the file is a byte of the codestream, named by its place in   *)
(* it, or Other. A file is a sequence of boxes or the bare codestream.     *)
(* Boxes start at file.starts and have headers of HeaderSize; the index of *)
(* a jxlp box and the brand of an ftyp box are one byte; a box may run to  *)
(* the end of the file (unbounded). An item of the codestream is a header, *)
(* a frame's sections, or what is passed over unread; file.items says where*)
(* they end (for sections, each of them).                                  *)
(***************************************************************************)
EXTENDS Integers, Sequences, FiniteSets

CONSTANTS
  Files,          \* the files that are tried
  HeaderSize,     \* bytes of a box header
  Pieces,         \* how many bytes more a client hands over at a time
  Skips           \* where clients skip a frame: see SkipCurrentFrame

Other == -1

\* The bytes of a box before its part of the codestream, if it has one.
Before(box) == HeaderSize + (IF box.type = "jxlp" THEN 1 ELSE 0)
Carries(box) == box.type \in {"jxlc", "jxlp"}
BoxLength(box) == HeaderSize + box.size

\* Boxes follow each other from the start of the file and hold the bytes their
\* types say. A file may be shorter than its boxes say.
BoxesFit(f) ==
  /\ f.boxes \in Seq([type : STRING, size : Nat, unbounded : BOOLEAN])
  /\ f.starts \in Seq(Nat) /\ Len(f.starts) = Len(f.boxes) + 1 /\ f.starts[1] = 0
  /\ Len(f.bytes) <= f.starts[Len(f.boxes) + 1]
  /\ \A k \in 1 .. Len(f.boxes) :
       LET box == f.boxes[k]
       IN  /\ box.type \in {"ftyp", "jxlp"} => box.size > 0
           /\ f.starts[k + 1] = f.starts[k] + BoxLength(box)
           /\ box.unbounded => k = Len(f.boxes)
           /\ \A i \in f.starts[k] + 1 .. f.starts[k + 1] :
                i <= Len(f.bytes) =>
                  (f.bytes[i] # Other <=> Carries(box) /\ i > f.starts[k] + Before(box))

\* Items follow each other in the codestream, and so do the sections of one. A
\* frame has a header, and so has what is passed over.
ItemsFit(items) ==
  /\ items \in Seq([kind : {"header", "sections", "skip"}, ends : Seq(Nat)])
  /\ \A k \in 1 .. Len(items) :
       /\ items[k].kind # "header" => k > 1 /\ items[k - 1].kind = "header"
       /\ items[k].ends # <<>>
       /\ items[k].kind = "header" => Len(items[k].ends) = 1
       /\ \A i, j \in 1 .. Len(items[k].ends) : i <= j => items[k].ends[i] <= items[k].ends[j]
  /\ \A k \in 1 .. Len(items) - 1 :
       items[k].ends[Len(items[k].ends)] <= items[k + 1].ends[1]

\* The bytes of the codestream among the first of a file.
CarriedIn(bytes, upto) == Cardinality({i \in 1 .. upto : bytes[i] # Other})

ASSUME InputAssumption ==
  /\ HeaderSize \in Nat \ {0}
  /\ Pieces \subseteq Nat \ {0}
  /\ Skips \subseteq {"inside", "between", "unset"}

ASSUME FilesAssumption ==
  \A f \in Files :
    /\ {f.container, f.wanted} \subseteq BOOLEAN
    /\ f.bytes \in Seq(Int)
    /\ \A i \in 1 .. Len(f.bytes) : f.bytes[i] \in {Other, CarriedIn(f.bytes, i - 1)}
    /\ IF f.container THEN BoxesFit(f) ELSE \A i \in 1 .. Len(f.bytes) : f.bytes[i] # Other
    /\ ItemsFit(f.items)

VARIABLES
  file,                \* the file, whether JXL_DEC_BOX is wanted
  at,                  \* where the program is: client, boxes, codestream
  status,              \* what ProcessInput returned last
  (* JxlDecoder *)
  file_pos, avail_in,
  input_closed,
  box_stage,
  header_size,
  box_contents_end, box_contents_unbounded,
  codestream_copy, codestream_unconsumed, codestream_pos,
  (* the parser of the codestream *)
  span,                \* what GetCodestreamInput gave it, or NoSpan
  item,                \* the part of the codestream that is next
  section,             \* 0, or next_section while frame_stage is kFull
  seen,                \* the last section of the frame that was there before
  paused               \* a progression event was returned for this frame

inputVars == <<file_pos, avail_in, codestream_copy, codestream_unconsumed, codestream_pos>>
boxVars == <<box_stage, header_size, box_contents_end, box_contents_unbounded>>
parserVars == <<span, item, section, seen, paused>>
vars == <<file, at, status, inputVars, input_closed, boxVars, parserVars>>

-----------------------------------------------------------------------------
(* Where the file and the codestream are.                                  *)

NoSpan == <<-2>>

BoxAt(p) == file.boxes[CHOOSE k \in 1 .. Len(file.boxes) : file.starts[k] = p]

\* Where items and sections of the next one end, and how much was parsed.
Items == file.items
ItemEnd(k) == IF k = 0 THEN 0 ELSE Items[k].ends[Len(Items[k].ends)]
EndOf(m) == IF m > 0 THEN Items[item].ends[m] ELSE ItemEnd(item - 1)
Parsed == EndOf(section - 1)
Finished == item > Len(Items)

Supplied == file_pos + avail_in

-----------------------------------------------------------------------------
(* AdvanceInput and the functions around codestream_copy, as functions of  *)
(* the input they find.                                                    *)

Least(a, b) == IF a < b THEN a ELSE b

Input ==
  [ file_pos |-> file_pos, avail_in |-> avail_in, copy |-> codestream_copy,
    unconsumed |-> codestream_unconsumed, pos |-> codestream_pos ]

SetsInput(in) ==
  /\ file_pos' = in.file_pos /\ avail_in' = in.avail_in
  /\ codestream_copy' = in.copy
  /\ codestream_unconsumed' = in.unconsumed
  /\ codestream_pos' = in.pos

AdvanceInput(in, size) ==
  [in EXCEPT !.file_pos = @ + size, !.avail_in = @ - size]

AvailableCodestream(in) ==
  IF box_contents_unbounded THEN in.avail_in
  ELSE Least(in.avail_in, box_contents_end - in.file_pos)

AdvanceCodestream(in, size) ==
  LET avail == AvailableCodestream(in)
      pos == in.pos + size
  IN  IF in.copy = <<>>
        THEN [AdvanceInput(in, Least(size, avail)) EXCEPT
                !.pos = IF size <= avail THEN @ ELSE size - avail]
      ELSE IF pos + in.unconsumed >= Len(in.copy)
        THEN [AdvanceInput(in, Least(in.unconsumed, in.unconsumed + pos - Len(in.copy)))
                EXCEPT !.pos = pos - Least(pos, Len(in.copy)), !.unconsumed = 0,
                       !.copy = <<>>]
      ELSE [in EXCEPT !.pos = pos]

\* Mutation of RequestMoreInput: what is copied already stays unconsumed.
RequestKeepsUnconsumed(in) ==
  LET avail == AvailableCodestream(in)
      taken == SubSeq(file.bytes, in.file_pos + 1, in.file_pos + avail)
  IN  IF in.copy = <<>> THEN [AdvanceInput(in, avail) EXCEPT !.copy = taken]
      ELSE AdvanceInput(in, in.unconsumed)

\* What RequestMoreInput does before it returns JXL_DEC_NEED_MORE_INPUT.
RequestMoreInput(in) ==
  LET avail == AvailableCodestream(in)
      taken == SubSeq(file.bytes, in.file_pos + 1, in.file_pos + avail)
  IN  IF in.copy = <<>> THEN [AdvanceInput(in, avail) EXCEPT !.copy = taken]
      ELSE [AdvanceInput(in, in.unconsumed) EXCEPT !.unconsumed = 0]

-----------------------------------------------------------------------------
Init ==
  /\ file \in Files
  /\ at = "client" /\ status = "none"
  /\ file_pos = 0 /\ avail_in = 0 /\ input_closed = FALSE
  /\ box_stage = "header" /\ header_size = 0
  /\ box_contents_end = 0 /\ box_contents_unbounded = FALSE
  /\ codestream_copy = <<>> /\ codestream_unconsumed = 0 /\ codestream_pos = 0
  /\ span = NoSpan /\ item = 1 /\ section = 0 /\ seen = 0 /\ paused = FALSE

-----------------------------------------------------------------------------
(* The client.                                                             *)

Over == status \in {"success", "error"}

\* JxlDecoderReleaseInput and JxlDecoderSetInput with the unprocessed bytes and
\* more, and JxlDecoderCloseInput after the last of them. Input that was
\* asked for comes.
SetInput ==
  /\ at = "client" /\ ~ Over /\ ~ input_closed /\ Supplied < Len(file.bytes)
  /\ \E more \in Pieces : avail_in' = Least(Len(file.bytes), Supplied + more) - file_pos
  /\ input_closed' \in {FALSE, file_pos + avail_in' = Len(file.bytes)}
  /\ status' = IF status = "need more" THEN "fed" ELSE status
  /\ UNCHANGED <<file, at, file_pos, codestream_copy, codestream_unconsumed,
                 codestream_pos, boxVars, parserVars>>

CloseInput ==
  /\ at = "client" /\ ~ Over /\ ~ input_closed /\ Supplied = Len(file.bytes)
  /\ input_closed' = TRUE
  /\ UNCHANGED <<file, at, status, inputVars, boxVars, parserVars>>

\* JxlDecoderSkipCurrentFrame, while the sections of a frame are read: inside a
\* box of the codestream, between them, or when the client has taken its buffer
\* back.
SkipCurrentFrame ==
  /\ at = "client" /\ ~ Over /\ section > 0
  /\ \E where \in Skips :
       /\ where = "inside" => box_stage = "codestream" /\ header_size = 0
       /\ SetsInput(AdvanceCodestream(
            [Input EXCEPT !.avail_in = IF where = "unset" THEN 0 ELSE @],
            ItemEnd(item) - Parsed))
  /\ status' = "skipped"
  /\ item' = item + 1 /\ section' = 0 /\ seen' = 0 /\ paused' = FALSE
  /\ UNCHANGED <<file, at, input_closed, boxVars, span>>

\* JxlDecoderProcessInput is called again; it is not when more input was asked
\* for and there is none, unless the input is closed.
ProcessInput ==
  /\ at = "client" /\ ~ Over /\ (status = "need more" => input_closed)
  /\ at' = "boxes"
  /\ UNCHANGED <<file, status, inputVars, input_closed, boxVars, parserVars>>

-----------------------------------------------------------------------------
(* HandleBoxes.                                                            *)

\* The end of JxlDecoderProcessInput.
Returns(result) ==
  /\ at' = "client"
  /\ status' = IF result = "need more" /\ input_closed THEN "error"
               ELSE IF result = "success" /\ ~ Finished THEN "error"
               ELSE result

\* The loop starts by passing over the header of the box.
EnterBox ==
  /\ at = "boxes" /\ box_stage # "header" /\ header_size > 0
  /\ SetsInput(AdvanceInput(Input, header_size))
  /\ header_size' = 0
  /\ UNCHANGED <<file, at, status, input_closed, box_stage, box_contents_end,
                 box_contents_unbounded, parserVars>>

InStage(stage) == at = "boxes" /\ box_stage = stage /\ (stage # "header" => header_size = 0)

BareCodestream ==
  /\ InStage("header") /\ ~ file.container
  /\ IF Finished
       THEN Returns("success") /\ UNCHANGED <<box_stage, box_contents_unbounded>>
       ELSE /\ box_stage' = "codestream" /\ box_contents_unbounded' = TRUE
            /\ UNCHANGED <<at, status>>
  /\ UNCHANGED <<file, inputVars, input_closed, header_size, box_contents_end,
                 parserVars>>

\* Between boxes there may be nothing more.
EndOfBoxes ==
  /\ InStage("header") /\ file.container /\ avail_in = 0
  /\ Returns(IF ~ Finished THEN "need more"
             ELSE IF input_closed \/ ~ file.wanted THEN "success" ELSE "need more")
  /\ UNCHANGED <<file, inputVars, input_closed, boxVars, parserVars>>

HeaderIncomplete ==
  /\ InStage("header") /\ file.container /\ avail_in \in 1 .. HeaderSize - 1
  /\ Returns("need more")
  /\ UNCHANGED <<file, inputVars, input_closed, boxVars, parserVars>>

StageOf(box) ==
  IF box.type = "jxlc" THEN "codestream"
  ELSE IF box.type = "jxlp" THEN "partial"
  ELSE IF box.type = "ftyp" THEN "ftyp" ELSE "skip"

ReadBoxHeader ==
  /\ InStage("header") /\ file.container /\ avail_in >= HeaderSize
  /\ LET box == BoxAt(file_pos)
     IN  /\ box_contents_unbounded' = box.unbounded
         /\ box_contents_end' = IF box.unbounded THEN 0 ELSE file_pos + BoxLength(box)
         /\ box_stage' = StageOf(box)
  /\ header_size' = HeaderSize
  /\ IF file.wanted THEN Returns("box") ELSE UNCHANGED <<at, status>>
  /\ UNCHANGED <<file, inputVars, input_closed, parserVars>>

\* The brand of ftyp, or the index of jxlp.
ReadBoxStart ==
  /\ at = "boxes" /\ box_stage \in {"ftyp", "partial"} /\ header_size = 0
  /\ IF avail_in = 0 THEN Returns("need more")
            /\ UNCHANGED <<inputVars, box_stage>>
     ELSE /\ SetsInput(AdvanceInput(Input, 1))
          /\ box_stage' = IF box_stage = "ftyp" THEN "skip" ELSE "codestream"
          /\ UNCHANGED <<at, status>>
  /\ UNCHANGED <<file, input_closed, header_size, box_contents_end,
                 box_contents_unbounded, parserVars>>

EnterCodestream ==
  /\ InStage("codestream")
  /\ at' = "codestream"
  /\ UNCHANGED <<file, status, inputVars, input_closed, boxVars, parserVars>>

\* What is left of a box is passed over, as far as it is there.
SkipBox ==
  /\ InStage("skip")
  /\ IF box_contents_unbounded THEN Returns("success") /\ UNCHANGED <<inputVars, box_stage>>
     ELSE LET remaining == box_contents_end - file_pos
          IN  /\ SetsInput(AdvanceInput(Input, Least(avail_in, remaining)))
              /\ IF avail_in < remaining THEN Returns("need more") /\ UNCHANGED box_stage
                 ELSE box_stage' = "header" /\ UNCHANGED <<at, status>>
  /\ UNCHANGED <<file, input_closed, header_size, box_contents_end,
                 box_contents_unbounded, parserVars>>

-----------------------------------------------------------------------------
(* JxlDecoderProcessCodestream, item by item.                              *)

\* Mutation of AsksForMore: the client is asked at the end of a box, too.
AsksAtEndOfBox == Returns("need more") /\ UNCHANGED box_stage

\* HandleBoxes, when JxlDecoderProcessCodestream has asked for more: at the end
\* of a box it goes on to the next one.
AsksForMore ==
  IF file_pos' = box_contents_end /\ ~ box_contents_unbounded
    THEN at' = "boxes" /\ box_stage' = "header" /\ UNCHANGED status
    ELSE Returns("need more") /\ UNCHANGED box_stage

restOfBox == <<header_size, box_contents_end, box_contents_unbounded>>

\* Mutation of CopyForSpan: bytes that are in the copy are copied again.
CopiesAgain(in) ==
  LET avail == AvailableCodestream(in)
  IN  [in EXCEPT !.copy = @ \o SubSeq(file.bytes, in.file_pos + 1, in.file_pos + avail),
                 !.unconsumed = avail]

\* GetCodestreamInput, when there is a copy: new bytes are added to it.
CopyForSpan(in) ==
  LET avail == AvailableCodestream(in)
  IN  [in EXCEPT !.copy = @ \o SubSeq(file.bytes, in.file_pos + in.unconsumed + 1, in.file_pos + avail),
                 !.unconsumed = avail]

Wants(kinds) == at = "codestream" /\ ~ Finished /\ Items[item].kind \in kinds

\* GetCodestreamInput: first what is left to skip, then the span. Its own two
\* checks of codestream_pos and codestream_unconsumed are in ReleaseIsExact.
GetCodestreamInput ==
  LET skip == IF codestream_copy = <<>> THEN Least(codestream_pos, AvailableCodestream(Input)) ELSE 0
      in == [AdvanceInput(Input, skip) EXCEPT !.pos = @ - skip]
  IN  /\ Wants({"header", "sections"}) /\ span = NoSpan
      /\ Items[item].kind = "sections" => section > 0
      /\ IF in.copy = <<>> /\ (in.pos > 0 \/ AvailableCodestream(in) = 0)
           THEN /\ SetsInput(RequestMoreInput(in))
                /\ AsksForMore
                /\ UNCHANGED span
           ELSE /\ IF in.copy = <<>>
                     THEN /\ SetsInput(in)
                          /\ span' = SubSeq(file.bytes, in.file_pos + 1,
                                            in.file_pos + AvailableCodestream(in))
                     ELSE /\ SetsInput(CopyForSpan(in))
                          /\ span' = SubSeq(CopyForSpan(in).copy, in.pos + 1, Len(CopyForSpan(in).copy))
                /\ UNCHANGED <<at, status, box_stage>>
      /\ UNCHANGED <<file, input_closed, restOfBox, item, section, seen, paused>>

\* Events are returned after some items.
GoesOn == (UNCHANGED <<at, status>>) \/ Returns("event")

\* The sections of a frame come next; a buffer may be asked for first.
EnterFrame ==
  /\ Wants({"sections"}) /\ section = 0
  /\ section' = 1
  /\ GoesOn
  /\ UNCHANGED <<file, inputVars, input_closed, boxVars, span, item, seen, paused>>

\* A header is read when all of it is there.
ReadHeader ==
  LET size == ItemEnd(item) - Parsed
  IN  /\ Wants({"header"}) /\ span # NoSpan
      /\ span' = NoSpan
      /\ IF Len(span) < size
           THEN SetsInput(RequestMoreInput(Input)) /\ AsksForMore /\ UNCHANGED item
           ELSE /\ SetsInput(AdvanceCodestream(Input, size))
                /\ item' = item + 1
                /\ GoesOn
                /\ UNCHANGED box_stage
      /\ UNCHANGED <<file, input_closed, restOfBox, section, seen, paused>>

\* The bytes of the next n sections, and how many sections are there in full.
SizeOf(n) == EndOf(section + n - 1) - Parsed
There ==
  CHOOSE n \in 0 .. Len(Items[item].ends) - section + 1 :
    /\ SizeOf(n) <= Len(span)
    /\ section + n <= Len(Items[item].ends) => SizeOf(n + 1) > Len(span)

\* JxlDecoderProcessSections and what follows it. A section that cannot be used
\* yet holds up those after it. Once a section is there that was not, it may
\* make a progression event, which leaves some for the next call.
ReadSections ==
  /\ Wants({"sections"}) /\ span # NoSpan
  /\ span' = NoSpan
  /\ \E n \in 0 .. There, event \in BOOLEAN :
       LET advanced == AdvanceCodestream(Input, SizeOf(n))
           last == section + There - 1
           all == section + n > Len(Items[item].ends)
       IN  IF all
             THEN /\ SetsInput(advanced)
                  /\ item' = item + 1 /\ section' = 0 /\ seen' = 0 /\ paused' = FALSE
                  /\ GoesOn
                  /\ UNCHANGED box_stage
           ELSE IF event
             THEN /\ ~ paused /\ last > seen /\ (n = 0 => There > 1)
                  /\ SetsInput(advanced)
                  /\ section' = section + n /\ seen' = last /\ paused' = TRUE
                  /\ Returns("progression")
                  /\ UNCHANGED <<item, box_stage>>
           ELSE /\ last < Len(Items[item].ends)
                /\ SetsInput(RequestMoreInput(advanced))
                /\ section' = section + n /\ seen' = last
                /\ AsksForMore
                /\ UNCHANGED <<item, paused>>
  /\ UNCHANGED <<file, input_closed, restOfBox>>

\* Frames nobody needs are passed over, however much of them is there.
SkipItem ==
  /\ Wants({"skip"})
  /\ SetsInput(AdvanceCodestream(Input, ItemEnd(item) - Parsed))
  /\ item' = item + 1
  /\ UNCHANGED <<file, at, status, input_closed, boxVars, span, section, seen, paused>>

\* The codestream is read; other boxes follow if the client wants them.
EndCodestream ==
  /\ at = "codestream" /\ Finished
  /\ IF file.wanted /\ ~ box_contents_unbounded
       THEN at' = "boxes" /\ box_stage' = "skip" /\ UNCHANGED status
       ELSE Returns("success") /\ UNCHANGED box_stage
  /\ UNCHANGED <<file, inputVars, input_closed, restOfBox, parserVars>>

-----------------------------------------------------------------------------
CallStep ==
  \/ EnterBox \/ BareCodestream \/ EndOfBoxes \/ HeaderIncomplete \/ ReadBoxHeader
  \/ ReadBoxStart \/ EnterCodestream \/ SkipBox
  \/ EnterFrame \/ GetCodestreamInput \/ ReadHeader \/ ReadSections \/ SkipItem \/ EndCodestream

Next == SetInput \/ CloseInput \/ SkipCurrentFrame \/ ProcessInput \/ CallStep

\* A call returns; the client keeps calling, and hands over all there is.
Fairness ==
  WF_vars(CallStep) /\ WF_vars(ProcessInput) /\ WF_vars(SetInput) /\ WF_vars(CloseInput)

Spec == Init /\ [][Next]_vars /\ Fairness

-----------------------------------------------------------------------------
\* The assertion of AdvanceInput alone: "JXL_DASSERT(avail_in >= size)".
AdvancesWithinInput == avail_in >= 0

Carried(upto) == CarriedIn(file.bytes, upto)
UsableUpTo == IF box_contents_unbounded THEN Supplied ELSE Least(Supplied, box_contents_end)

\* The parser is given the codestream from where it stopped up to the last byte
\* there is, once and without a gap, wherever the boxes, the client's buffers
\* and the frames that were skipped begin and end (GetCodestreamInput,
\* AdvanceCodestream, RequestMoreInput).
SpanContinuesCodestream ==
  span # NoSpan =>
    /\ Len(span) = Carried(UsableUpTo) - Parsed
    /\ \A i \in 1 .. Len(span) : span[i] = Parsed + i - 1

\* What JxlDecoderReleaseInput would return tells the client where the decoder
\* is: all is processed when more input is asked for, but for a box header or
\* the start of a box, and what is not processed at an event begins with what
\* is parsed next (decode.h, JxlDecoderStatus and JxlDecoderReleaseInput). Bytes
\* of the copy that count as unprocessed are still in the client's buffer, which
\* AdvanceInput and GetCodestreamInput check.
ReleaseIsExact ==
  /\ avail_in >= 0 /\ codestream_unconsumed <= Least(avail_in, Len(codestream_copy))
  /\ codestream_copy # <<>> => codestream_pos <= Len(codestream_copy)
  /\ at = "client" =>
       /\ status = "need more" => avail_in < HeaderSize /\ codestream_unconsumed = 0
       /\ status = "event" => codestream_copy = <<>> /\ codestream_pos = 0 /\ Carried(file_pos) = Parsed

\* A whole file is read to its end by a client that hands it over in any pieces,
\* and a call always returns; a file that is cut off fails once the client has
\* said so, and does not leave it waiting.
Whole == Carried(Len(file.bytes)) >= ItemEnd(Len(Items))
FileEnds == <> (status = "success" \/ (status = "error" /\ ~ Whole))
==============================================================================
