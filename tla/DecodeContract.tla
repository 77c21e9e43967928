---------------------------- MODULE DecodeContract ----------------------------
(***************************************************************************)
(* A statement of lib/include/jxl/decode.h, the header libjxlz installs,   *)
(* that JxlDecoder does not keep, refuted by a run of its own.             *)
(***************************************************************************)
EXTENDS DecoderProperties

\* decode.h:463-464: it is not required to subscribe to any event, data can be
\* requested as soon as it is available; decode.h:544-545: frames are blended
\* if needed. A frame passed over without JXL_DEC_FULL_IMAGE is not decoded,
\* and a later one is blended onto an empty slot.
ShownOntoItsReferences ==
  [][ \A i \in 1 .. FrameCount : fate[i] # "shown" /\ fate'[i] = "shown" =>
        SessionAt(SessionPosition, coalescing) ]_vars
==============================================================================
