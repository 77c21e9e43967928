------------------------------ MODULE MCDecoder ------------------------------
(* Files and clients for checking Decoder with TLC.                         *)
EXTENDS DecoderInvariants

Plain ==
  [ regular |-> TRUE, dc_level |-> 0, timed |-> TRUE, is_last |-> FALSE,
    save_as_reference |-> 0, save_before_ct |-> FALSE, blends |-> {},
    patches |-> {}, uses_dc |-> FALSE, fault |-> "none" ]

Last(h) == [h EXCEPT !.is_last = TRUE]
Saved(h, s) == [h EXCEPT !.save_as_reference = s]
Hidden(h) == [h EXCEPT !.timed = FALSE]
OnTop(h, s) == [h EXCEPT !.blends = s]

Reference(s) ==
  [Plain EXCEPT !.regular = FALSE, !.timed = FALSE, !.save_as_reference = s,
                !.save_before_ct = TRUE]
LowFrequency(l) ==
  [Plain EXCEPT !.regular = FALSE, !.timed = FALSE, !.dc_level = l,
                !.save_before_ct = TRUE]

Raw(frames) ==
  [ container |-> FALSE, boxes |-> <<>>, jbrds |-> 0, jpeg_size |-> 0,
    fault |-> "none", preview |-> "none", frames |-> frames ]

\* An animation whose third frame is drawn over the first one and over a
\* layer that is not displayed on its own.
Animation ==
  Raw(<<Saved(Plain, 1), Saved(Hidden(Plain), 2), Last(OnTop(Plain, {1, 2}))>>)
\* A still image that samples patches and a low frequency frame.
Patched ==
  Raw(<<LowFrequency(1), Reference(3),
        Last([Plain EXCEPT !.patches = {3}, !.uses_dc = TRUE])>>)
\* The second of three frames is corrupt; the file ends without a last frame.
Corrupt == Raw(<<Plain, [Plain EXCEPT !.fault = "body"], Plain>>)
TwoFrames == Raw(<<Saved(Plain, 1), Last(OnTop(Plain, {1}))>>)

\* Taken whole or refused: a container, headers that cannot be read, a preview.
Contained == [TwoFrames EXCEPT !.container = TRUE]
Unreadable == [TwoFrames EXCEPT !.fault = "header"]
Previewed == [TwoFrames EXCEPT !.preview = "sound"]

FrameFiles == {Animation, Patched, Corrupt, Contained, Unreadable, Previewed}
FrameCalls == {"SubscribeEvents", "SetCoalescing", "SetInput", "ReleaseInput",
  "CloseInput", "SetImageOutBuffer", "SkipFrames", "SkipCurrentFrame", "Rewind",
  "Reset", "ProcessInput"}
FrameEvents == {{"FULL_IMAGE"}, {"BASIC_INFO", "FRAME", "FULL_IMAGE"}, {"BASIC_INFO", "FRAME"}}
\* Input in pieces: prefixes cut at a frame or inside one, and a continuation.
Piece(first, units, partial) == [first |-> first, units |-> units, partial |-> partial]
Pieces ==
  {Piece(0, n, p) : n \in {0, 1, 3}, p \in BOOLEAN} \cup {Piece(0, 4, FALSE), Piece(1, 3, FALSE)}
NoSizes == {}
OneSkip == {1}

-----------------------------------------------------------------------------
\* Boxes of 0 to 3 bytes; the compressed one expands from 1 byte to 3.
Boxed ==
  [Raw(<<Last(Plain)>>) EXCEPT !.container = TRUE,
     !.boxes = <<[brob |-> FALSE, raw |-> 2, plain |-> 2],
                 [brob |-> TRUE, raw |-> 1, plain |-> 3],
                 [brob |-> FALSE, raw |-> 0, plain |-> 0]>>]
\* A two-frame file with JPEG reconstruction data, one with two such boxes,
\* and one that starts with a preview.
Jpeg(n, frames) ==
  [Raw(frames) EXCEPT !.container = TRUE, !.jbrds = n, !.jpeg_size = 3]
WithPreview(p) == [TwoFrames EXCEPT !.container = TRUE, !.preview = p]

BufferFiles == {Boxed, Jpeg(1, TwoFrames.frames), Jpeg(2, <<Last(Plain)>>),
                WithPreview("sound"), WithPreview("corrupt")}
BufferCalls == {"SubscribeEvents", "SetInput", "SetBoxBuffer", "ReleaseBoxBuffer",
  "SetDecompressBoxes", "SetJPEGBuffer", "ReleaseJPEGBuffer",
  "SetPreviewOutBuffer", "SetImageOutBuffer", "SkipFrames", "Rewind", "ProcessInput"}
BufferEvents ==
  {{"BOX"}, {"BOX", "BOX_COMPLETE", "FRAME"},
   {"BASIC_INFO", "COLOR_ENCODING", "JPEG_RECONSTRUCTION", "FRAME", "FULL_IMAGE"},
   {"PREVIEW_IMAGE", "JPEG_RECONSTRUCTION"}, {"PREVIEW_IMAGE", "FULL_IMAGE"}}
OneUnit == {[first |-> 0, units |-> 1, partial |-> FALSE]}
SmallSizes == {0, 2}
==============================================================================
