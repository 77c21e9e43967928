------------------------------- MODULE JxlFile -------------------------------
(***************************************************************************)
(* The files a decoder may be handed, reduced to what its control flow     *)
(* looks at: whether the codestream sits in a container, the boxes of that *)
(* container, and for every frame the header fields that decide whether it *)
(* is displayed, which reference slots it reads and which one it fills.    *)
(* Pixels, sizes and entropy-coded payloads are abstracted to one fault    *)
(* class per frame.                                                        *)
(***************************************************************************)
EXTENDS Integers, Sequences, FiniteSets

CONSTANT Files          \* the files the caller may hold

Slots == 0 .. 3         \* decode_session.Session.refs, and dc_refs, have 4 entries

\* A frame header (frame_header.zig) as far as control flow reads it.
FrameHeader ==
  [ regular  : BOOLEAN,           \* regular_frame or skip_progressive
    dc_level : 0 .. 4,            \* 1..4 for a dc_frame, otherwise 0
    timed    : BOOLEAN,           \* animation_frame.duration # 0
    is_last  : BOOLEAN,
    save_as_reference : Slots,
    save_before_ct    : BOOLEAN,  \* save_before_color_transform
    blends   : SUBSET Slots,      \* sources Session.compose reads, {} if it never runs
    patches  : SUBSET Slots,      \* references its patch dictionary names
    uses_dc  : BOOLEAN,           \* FrameFlags.use_dc_frame
    fault    : {"none", "header", "body"} ]

\* A box: its contents as stored, and once a "brob" payload is expanded.
Box == [brob : BOOLEAN, raw : Nat, plain : Nat]

File ==
  [ container : BOOLEAN,          \* BMFF container, otherwise raw codestream
    boxes     : Seq(Box),
    jbrds     : Nat,              \* number of boxes with JPEG reconstruction data
    jpeg_size : Nat,              \* bytes of the reconstructed JPEG
    fault     : {"none", "header"},
    preview   : {"none", "sound", "corrupt"},
    frames    : Seq(FrameHeader) ]

\* Only a regular frame carries timing and is_last; a dc_frame is saved
\* before the colour transform and never blends (frame_header.zig:408-520).
WellFormedHeader(h) ==
  /\ ~h.regular => ~h.timed /\ ~h.is_last /\ h.blends = {}
  /\ h.dc_level # 0 => ~h.regular /\ h.save_before_ct

ASSUME FilesAssumption ==
  /\ Files \subseteq File
  /\ \A f \in Files :
       /\ f.container \/ (f.boxes = <<>> /\ f.jbrds = 0)
       /\ f.jbrds > 0 => f.jpeg_size > 0
       /\ \A i \in 1 .. Len(f.frames) : WellFormedHeader(f.frames[i])

-----------------------------------------------------------------------------
\* FrameHeader.canBeReferenced: the header says the decoded frame is kept.
CanBeReferenced(h) ==
  ~h.is_last /\ h.dc_level = 0 /\ (~h.timed \/ h.save_as_reference # 0)

\* The frames a caller sees (ensureCurrentFrameParsed, dec.frame_displayed).
Displayed(h, coalesced) ==
  h.regular /\ (~coalesced \/ h.is_last \/ h.timed)

\* The frames that advance the visible frame index, whatever coalescing says.
Visible(h) == h.regular /\ (h.is_last \/ h.timed)

\* The session keeps the frame in slot save_as_reference.
Saves(h, coalesced) == CanBeReferenced(h) /\ (h.save_before_ct \/ coalesced)

\* Codestream units after the image header: the preview, then the frames.
PreviewUnits(f) == IF f.preview = "none" THEN 0 ELSE 1
FrameUnits(f) == PreviewUnits(f) + Len(f.frames)

\* The units a caller can hand over. The image header is a unit of a raw
\* codestream; a container is one unit, since it is parsed as a whole.
FileUnits(f) == IF f.container THEN 1 ELSE 1 + FrameUnits(f)
==============================================================================
