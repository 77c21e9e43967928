------------------------------ MODULE ParallelRun ------------------------------
(***************************************************************************)
(* What JxlParallelRunner promises (lib/include/jxl/parallel_runner.h):    *)
(* between a call and its return the function is called once for every     *)
(* value of the range and for nothing else, in any order, and the call     *)
(* returns only when all of these calls are over.                          *)
(***************************************************************************)
EXTENDS Naturals

CONSTANT Task

VARIABLES
  running,   \* a call is in progress
  wanted,    \* the values of its range
  ran        \* how often the function was called for each value

runVars == <<running, wanted, ran>>

Init ==
  /\ running = FALSE
  /\ wanted = {}
  /\ ran = [t \in Task |-> 0]

Begin ==
  /\ ~ running
  /\ running' = TRUE
  /\ wanted' \in SUBSET Task
  /\ ran' = [t \in Task |-> 0]

Do(t) ==
  /\ running
  /\ ran[t] = 0
  /\ ran' = [ran EXCEPT ![t] = 1]
  /\ UNCHANGED <<running, wanted>>

Return ==
  /\ running
  /\ \A t \in wanted : ran[t] = 1
  /\ running' = FALSE
  /\ UNCHANGED <<wanted, ran>>

Next == Begin \/ Return \/ \E t \in wanted : Do(t)

Spec == Init /\ [][Next]_runVars
==============================================================================
