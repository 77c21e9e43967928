------------------------------ MODULE MCEncoder ------------------------------
(* Clients for checking Encoder with TLC.                                   *)
EXTENDS EncoderProperties, TLC

CONSTANTS p1, p2, b1, s1, s2

Info(channels, extra, alpha, animated, container) ==
  [ channels |-> channels, extras |-> extra, alpha |-> alpha,
    animated |-> animated, ticks |-> animated, container |-> container ]
Rgb == [icc |-> FALSE, channels |-> 3]
Gray == [icc |-> FALSE, channels |-> 1]
Extra(kind) == [kind |-> kind, subsampled |-> FALSE, named |-> FALSE]

OnePicture == {p1}
TwoPictures == {p1, p2}
OnePlane == {b1}
OneName == {"Exif"}
OneId == {s1}
TwoIds == {s1, s2}
NameSymmetry == Permutations(TwoPictures) \cup Permutations(TwoIds)
NoSet == {}

-----------------------------------------------------------------------------
\* Animations with an alpha channel and one more; more channels than there is
\* room for.
FrameInfos ==
  {Info(3, 1, TRUE, TRUE, FALSE), Info(3, 2, TRUE, FALSE, TRUE), Info(3, 3, FALSE, FALSE, FALSE)}
FrameColors == {Rgb}
FrameExtras == {Extra("other")}
FrameDurations == {0, 2}
FrameFailures == {"pixels", "plane", "encode"}
OneRoom == {8}

-----------------------------------------------------------------------------
\* Settings made, changed and contradicted; boxes and frames through small
\* buffers.
OutputInfos ==
  {Info(1, 0, FALSE, FALSE, TRUE), Info(3, 1, FALSE, FALSE, FALSE),
   Info(3, 1, TRUE, TRUE, FALSE)}
OutputColors == {Rgb, Gray}
OutputProfiles ==
  {[channels |-> 3, cmyk |-> FALSE], [channels |-> 3, cmyk |-> TRUE],
   [channels |-> 1, cmyk |-> FALSE]}
OutputExtras ==
  {Extra("other"), Extra("black"), [Extra("alpha") EXCEPT !.subsampled = TRUE]}
OneDuration == {2}
OutputRooms == {0, 1, 3}
OutputFailures == {"pixels", "encode", "wrap"}
==============================================================================
