---------------------------- MODULE DecodeSession ----------------------------
(***************************************************************************)
(* lib/codec/decode_session.zig: the reference images a codestream         *)
(* accumulates while its frames are decoded. An image is the index of the  *)
(* frame it came from; 0 is an empty slot.                                 *)
(***************************************************************************)
EXTENDS JxlFile

VARIABLES
  file,                  \* the file being decoded, fixed for the behaviour
  refs,                  \* Session.refs: slot -> frame index, 0 if empty
  dc_refs,               \* Session.dc_refs: dc_level - 1 -> frame index, 0 if empty
  visible_frame_index,   \* seeds the noise of the next visible frame
  nonvisible_frame_index

sessionVars == <<refs, dc_refs, visible_frame_index, nonvisible_frame_index>>

EmptySlots == [s \in Slots |-> 0]

SessionInit ==
  /\ refs = EmptySlots
  /\ dc_refs = EmptySlots
  /\ visible_frame_index = 0
  /\ nonvisible_frame_index = 0

\* Session.deinit
SessionDeinit ==
  /\ refs' = EmptySlots
  /\ dc_refs' = EmptySlots
  /\ visible_frame_index' = 0
  /\ nonvisible_frame_index' = 0

-----------------------------------------------------------------------------
Header(i) == file.frames[i]
PreColor(i) == i # 0 /\ Header(i).save_before_ct

\* FrameDecoder.decodeFrame accepts the frame: its payload is sound, the low
\* frequency image it asks for exists and every patch names a pre-colour
\* reference.
FrameDecodes(i) ==
  /\ Header(i).fault = "none"
  /\ Header(i).uses_dc =>
       Header(i).dc_level < 4 /\ dc_refs[Header(i).dc_level] # 0
  /\ \A s \in Header(i).patches : PreColor(refs[s])

\* Session.compose accepts the frame: no channel is blended onto a reference
\* that was saved before the colour transform. An empty slot is a zero image.
FrameComposes(i, coalesced) ==
  (coalesced /\ Header(i).regular) =>
    \A s \in Header(i).blends : ~PreColor(refs[s])

SessionAccepts(i, coalesced) == FrameDecodes(i) /\ FrameComposes(i, coalesced)

\* Mutation of SessionDecode: a low frequency image of level l goes to slot l.
SessionDecodeOffByOne(i, coalesced) ==
  /\ SessionAccepts(i, coalesced)
  /\ refs' = IF Saves(Header(i), coalesced)
               THEN [refs EXCEPT ![Header(i).save_as_reference] = i]
               ELSE refs
  /\ dc_refs' = IF Header(i).dc_level \in 1 .. 3
                  THEN [dc_refs EXCEPT ![Header(i).dc_level] = i]
                  ELSE dc_refs
  /\ IF Visible(Header(i))
       THEN /\ visible_frame_index' = visible_frame_index + 1
            /\ nonvisible_frame_index' = 0
       ELSE /\ nonvisible_frame_index' = nonvisible_frame_index + 1
            /\ UNCHANGED visible_frame_index

\* Session.decode with Session.finish, when both succeed. A frame that fails
\* leaves the session as it was.
SessionDecode(i, coalesced) ==
  /\ SessionAccepts(i, coalesced)
  /\ refs' = IF Saves(Header(i), coalesced)
               THEN [refs EXCEPT ![Header(i).save_as_reference] = i]
               ELSE refs
  /\ dc_refs' = IF Header(i).dc_level # 0
                  THEN [dc_refs EXCEPT ![Header(i).dc_level - 1] = i]
                  ELSE dc_refs
  /\ IF Visible(Header(i))
       THEN /\ visible_frame_index' = visible_frame_index + 1
            /\ nonvisible_frame_index' = 0
       ELSE /\ nonvisible_frame_index' = nonvisible_frame_index + 1
            /\ UNCHANGED visible_frame_index

-----------------------------------------------------------------------------
(***************************************************************************)
(* The references the bitstream prescribes once its first n frames have    *)
(* all been decoded: slot s holds the last of them that saves to s.        *)
(***************************************************************************)
PrescribedRef(held, n, s, coalesced) ==
  /\ held \in 0 .. n
  /\ held # 0 => /\ Saves(Header(held), coalesced)
                 /\ Header(held).save_as_reference = s
  /\ \A j \in held + 1 .. n :
       ~(Saves(Header(j), coalesced) /\ Header(j).save_as_reference = s)

PrescribedDcRef(held, n, l) ==
  /\ held \in 0 .. n
  /\ held # 0 => Header(held).dc_level = l + 1
  /\ \A j \in held + 1 .. n : Header(j).dc_level # l + 1

SessionAt(n, coalesced) ==
  \A s \in Slots : /\ PrescribedRef(refs[s], n, s, coalesced)
                   /\ PrescribedDcRef(dc_refs[s], n, s)

\* The noise seeds after the first n frames.
SeedsAt(n) ==
  /\ visible_frame_index = Cardinality({j \in 1 .. n : Visible(Header(j))})
  /\ nonvisible_frame_index =
       Cardinality({j \in 1 .. n : \A k \in j .. n : ~Visible(Header(k))})
==============================================================================
