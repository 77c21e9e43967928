---------------------------- MODULE FrameDelivery ----------------------------
(***************************************************************************)
(* What JxlDecoder promises about the frames of one pass over a file:      *)
(* they are settled in codestream order, one at a time, each exactly once; *)
(* a frame that is not displayed never reaches the caller, a displayed one *)
(* is never swallowed; and the decoder reports the end only after the last *)
(* frame is settled. Only a rewind or a reset undoes anything.             *)
(***************************************************************************)
EXTENDS Integers, Sequences

CONSTANTS Settled, Silent    \* outcomes a displayed, a hidden frame may have

VARIABLES
  frames,       \* the headers of the file
  visible,      \* which of them are displayed, as the client chose
  started,      \* a pass is under way
  fate,         \* frame -> its outcome, or "pending"
  ended         \* the end was reported and nothing happened since

vars == <<frames, visible, started, fate, ended>>

Indexes == 1 .. Len(frames)

\* The frames up to n are all settled, the others are all pending.
SettledUpTo(n) == \A i \in Indexes : (fate[i] # "pending") <=> (i <= n)

Init ==
  /\ visible \in [Indexes -> BOOLEAN]
  /\ started = FALSE
  /\ fate = [i \in Indexes |-> "pending"]
  /\ ended = FALSE

\* The first call of a pass.
Begin == started' = TRUE /\ UNCHANGED <<frames, visible, fate, ended>>

\* The next frame in order gets its outcome.
SettleNext(i, outcome) ==
  /\ started
  /\ SettledUpTo(i - 1)
  /\ outcome \in IF visible[i] THEN Settled ELSE Silent
  /\ fate' = [fate EXCEPT ![i] = outcome]
  /\ ended' = FALSE
  /\ UNCHANGED <<frames, visible, started>>

\* The frames behind the last one do not belong to the image.
End ==
  /\ started
  /\ \E n \in Indexes : SettledUpTo(n) /\ frames[n].is_last
  /\ ended' = TRUE
  /\ UNCHANGED <<frames, visible, started, fate>>

\* A new call after the end.
Resume == ended' = FALSE /\ UNCHANGED <<frames, visible, started, fate>>

\* A rewind, a reset, or another choice of what is displayed before the start.
Restart ==
  /\ fate' = [i \in Indexes |-> "pending"]
  /\ visible' \in [Indexes -> BOOLEAN]
  /\ started' = FALSE
  /\ ended' = FALSE
  /\ UNCHANGED frames

Next ==
  \/ Begin
  \/ \E i \in Indexes, outcome \in Settled \cup Silent : SettleNext(i, outcome)
  \/ End
  \/ Resume
  \/ Restart

Spec == Init /\ [][Next]_vars
==============================================================================
