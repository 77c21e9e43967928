----------------------------- MODULE RunnerClient -----------------------------
(***************************************************************************)
(* The calls a client makes to a parallel runner, seen from the client:    *)
(* the function it passes and the values it is called for. Both runners of *)
(* lib/threads serve this interface; uint32_t values wrap at TaskLimit.    *)
(***************************************************************************)
EXTENDS Naturals

CONSTANTS
  TaskLimit,    \* 2^32: where uint32_t task numbers wrap around
  Ranges,       \* the ranges <<start_range, end_range>> clients ask for
  MaxWorkers    \* bound on the number of worker threads a runner is given

Task == 0 .. TaskLimit - 1
WorkerId == 0 .. MaxWorkers - 1

ASSUME RunnerAssumption ==
  /\ TaskLimit \in Nat \ {0}
  /\ Ranges \subseteq Task \X Task
  /\ MaxWorkers \in Nat /\ MaxWorkers < TaskLimit

VARIABLES
  wanted,    \* history: the values the current call, or the last one, is for
  ran        \* history: how often its function was called for each value

clientVars == <<wanted, ran>>

ClientInit ==
  /\ wanted = {}
  /\ ran = [t \in Task |-> 0]

Values(range) == range[1] .. range[2] - 1

\* A call begins.
Ask(values) ==
  /\ wanted' = values
  /\ ran' = [t \in Task |-> 0]

\* The client's function was called for a value and has returned.
Called(t) ==
  /\ ran' = [ran EXCEPT ![t] = @ + 1]
  /\ UNCHANGED wanted

AddTask(a, b) == (a + b) % TaskLimit
==============================================================================
