----------------------------- MODULE EncodedFile -----------------------------
(***************************************************************************)
(* What a client gives the encoder and the file the encoder core makes of  *)
(* it. Every item a reader of the file could tell apart is one byte: the   *)
(* signature of the container, each box, the image header, each frame.     *)
(***************************************************************************)
EXTENDS Naturals, Sequences

CONSTANTS
  Pictures,     \* main images, converted and packed
  Planes,       \* separate images of extra channels
  NoPlane,      \* no buffer was set for the channel
  LostPlane,    \* a buffer was set, and its memory is gone
  Names,        \* types of metadata boxes JxlEncoderAddBox accepts
  NoExtra,      \* JxlEncoderSetExtraChannelInfo was not called for the channel
  NoProfile,    \* no ICC profile
  MaxChannels   \* length of pending_extra_channels (256 in the code)

\* The fields of JxlBasicInfo the encoder looks at after validation; ticks
\* says whether animation.tps_* are set, which only have_animation demands.
\* The number of extra channels is not validated.
BasicInfo ==
  { i \in [channels : {1, 3}, extras : Nat, alpha : BOOLEAN,
           animated : BOOLEAN, ticks : BOOLEAN, container : BOOLEAN] :
      (i.alpha => i.extras > 0) /\ (i.animated => i.ticks) }

Color == [icc : BOOLEAN, channels : {1, 3}]
Profile == [channels : {1, 3}, cmyk : BOOLEAN]
ExtraInfo == [kind : {"alpha", "black", "other"}, subsampled : BOOLEAN, named : BOOLEAN]
Channel == 0 .. MaxChannels - 1

Frame == [picture : Pictures, interleaved : BOOLEAN, duration : Nat,
          planes : [Channel -> Planes \cup {NoPlane, LostPlane}]]

\* What describes the image as a whole.
Header(info, color, profile, extras) ==
  [ info |-> info, color |-> color, profile |-> profile,
    extras |-> [c \in 0 .. info.extras - 1 |-> extras[c]] ]

\* The image header and the frames, the last of them marked.
Codestream(header, frames) ==
  <<[header |-> header]>> \o
  [ i \in 1 .. Len(frames) |-> [frame |-> frames[i], is_last |-> i = Len(frames)] ]

Signature == <<[signature |-> "JXL "]>>
BoxItems(boxes) == [ i \in 1 .. Len(boxes) |-> [box |-> boxes[i]] ]

\* Boxes always make a container, with the codestream behind them.
WholeFile(header, boxes, frames) ==
  IF boxes = <<>> /\ ~header.info.container
  THEN Codestream(header, frames)
  ELSE Signature \o BoxItems(boxes) \o Codestream(header, frames)

\* What is left when the boxes cannot be wrapped: staged boxes have switched
\* the container of the encoder core off.
BareFile(header, frames) == Codestream(header, frames)
-----------------------------------------------------------------------------
(* What the encoder core refuses.                                          *)

AlphaInfoFits(info, extras) ==
  info.alpha /\ extras[0] # NoExtra => extras[0].kind = "alpha"

\* Channels without alpha, as far as pending_extra_channels goes.
SideChannels(info) == {c \in Channel : c < info.extras /\ (info.alpha => c > 0)}

\* Every such channel of the frame is there, alpha in exactly one place.
Packs(info, extras, frame) ==
  /\ info.alpha => (frame.interleaved # (frame.planes[0] # NoPlane))
  /\ \A c \in SideChannels(info) : extras[c] # NoExtra /\ frame.planes[c] # NoPlane

\* A separate alpha plane is copied without looking at its length; of the
\* other planes the length is checked.
ReadsLostPlane(info, frame) ==
  info.alpha /\ ~frame.interleaved /\ frame.planes[0] = LostPlane

\* Mutation of Encodable: the colour channels are not compared again.
EncodableUnchecked(header, extras, frames) ==
  /\ frames # <<>>
  /\ \A i \in 1 .. Len(frames) : Packs(header.info, extras, frames[i])
  /\ AlphaInfoFits(header.info, extras)
  /\ header.color.icc = (header.profile # NoProfile)

Encodable(header, extras, frames) ==
  LET info == header.info IN
  /\ frames # <<>>
  /\ \A i \in 1 .. Len(frames) :
       /\ Packs(info, extras, frames[i])
       /\ \A c \in 0 .. info.extras - 1 : frames[i].planes[c] # LostPlane
  /\ AlphaInfoFits(info, extras)
  /\ \A c \in SideChannels(info) : extras[c].kind # "alpha"
  /\ header.color.channels = info.channels
  /\ header.color.icc = (header.profile # NoProfile)
  /\ Len(frames) > 1 => info.ticks
==============================================================================
