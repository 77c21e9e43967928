------------------------------ MODULE ByteStream ------------------------------
(***************************************************************************)
(* What an encoder promises about its output: the content is fixed at      *)
(* once and never changes; the client takes it in pieces, from the start   *)
(* and without gaps; success means all of it was taken; and once there is  *)
(* content, taking it cannot fail.                                         *)
(***************************************************************************)
EXTENDS SequencesExt

VARIABLES
  content,   \* <<>> until it is fixed
  taken,
  result     \* of the last attempt to take something

streamVars == <<content, taken, result>>

Empty == content = <<>> /\ taken = <<>>

Init == Empty /\ result = "IDLE"

\* There is no content yet, and this attempt does not make any.
Refuse ==
  /\ content = <<>>
  /\ result' = "ERROR"
  /\ UNCHANGED <<content, taken>>

Take ==
  /\ IsPrefix(taken, taken') /\ IsPrefix(taken', content')
  /\ result' = IF taken' = content' THEN "SUCCESS" ELSE "NEED_MORE_OUTPUT"

\* The attempt that makes the content may end there or take a piece of it.
Fix ==
  /\ content = <<>> /\ content' # <<>>
  /\ Take \/ (result' = "ERROR" /\ UNCHANGED taken)

Read ==
  /\ content # <<>>
  /\ UNCHANGED content
  /\ Take

Discard ==
  /\ content' = <<>> /\ taken' = <<>>
  /\ result' = "IDLE"

Next == Refuse \/ Fix \/ Read \/ Discard

Spec == Init /\ [][Next]_streamVars
==============================================================================
