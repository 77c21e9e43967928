------------------------------- MODULE MCRunners -------------------------------
(* Ranges and pool sizes for checking Runners with TLC.                      *)
EXTENDS RunnerInvariants

\* Chunks of two values and of one, fewer values than threads, a range of one
\* value, and an empty one.
SmallRanges == {<<0, 4>>, <<1, 3>>, <<2, 3>>, <<2, 2>>}
OneRange == {<<0, 2>>}

\* The counters have the room that the proof of RunsEachOnce asks for.
ASSUME RangesHaveRoom == NoWrap
==============================================================================
