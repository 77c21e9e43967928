-------------------------------- MODULE Runners --------------------------------
(***************************************************************************)
(* The two parallel runners of lib/threads behind the one interface that   *)
(* clients use; a behaviour is that of one of them.                        *)
(***************************************************************************)
EXTENDS ThreadRunner, ResizableRunner

VARIABLE kind      \* which runner the client was given

vars == <<kind, threadVars, poolVars, clientVars>>

Init ==
  /\ kind \in {"thread", "resizable"}
  /\ ThreadInit /\ PoolInit /\ ClientInit

ThreadRuns == kind = "thread" /\ ThreadNext /\ UNCHANGED <<poolVars, kind>>
PoolRuns == kind = "resizable" /\ PoolNext /\ UNCHANGED <<threadVars, kind>>

Next == ThreadRuns \/ PoolRuns

\* A thread that can go on does so at some time. Nobody has to call.
Fairness ==
  /\ WF_vars(kind = "thread" /\ CallerStep /\ UNCHANGED <<poolVars, kind>>)
  /\ WF_vars(kind = "resizable" /\ OwnerStep /\ UNCHANGED <<threadVars, kind>>)
  /\ \A w \in WorkerId :
       /\ WF_vars(kind = "thread" /\ WorkerStep(w) /\ UNCHANGED <<poolVars, kind>>)
       /\ WF_vars(kind = "resizable" /\ MemberStep(w) /\ UNCHANGED <<threadVars, kind>>)

Spec == Init /\ [][Next]_vars /\ Fairness

\* With what condition variables may do besides.
WakesEarly ==
  kind = "thread" /\ (\E w \in WorkerId : SpuriousWake(w)) /\ UNCHANGED <<poolVars, kind>>

SpuriousSpec == Init /\ [][Next \/ WakesEarly]_vars

-----------------------------------------------------------------------------
CallerPlaces == {"none", "idle", "notify", "barrier", "blocked", "alone", "join"}
ThreadPlaces ==
  {"absent", "report", "wait", "woken", "once", "reserve", "run", "exited"}
OwnerPlaces == {"idle", "join", "single", "return", "dequeue", "call", "leave",
                "await", "blocked"}
MemberPlaces == {"absent", "check", "wait", "dequeue", "call", "leave", "gone"}

ThreadTypeOK ==
  /\ num_worker_threads \in 0 .. MaxWorkers
  /\ depth \in 0 .. MaxDepth
  /\ workers_ready \in 0 .. num_worker_threads
  /\ worker_start_command \in Command
  /\ num_reserved \in Task
  /\ caller \in [call : {"none", "create", "run", "each", "destroy"}, at : CallerPlaces]
  /\ worker \in [WorkerId -> [at : ThreadPlaces, command : Command,
                              next : 0 .. TaskLimit, stop : 0 .. TaskLimit]]

PoolTypeOK ==
  /\ num_desired_workers \in 0 .. MaxWorkers
  /\ max_running_workers \in Task
  /\ num_running_workers \in 0 .. MaxWorkers + 1
  /\ work_available \in BOOLEAN
  /\ next_task \in Task /\ end_task \in Task /\ init_threads \in 0 .. MaxWorkers + 1
  /\ owner \in [at : OwnerPlaces, task : Task]
  /\ member \in [WorkerId -> [at : MemberPlaces, task : Task]]

\* The variables of both runners keep their types; in particular the counts of
\* ready and of running workers stay within the number of threads there are.
TypeOK ==
  /\ kind \in {"thread", "resizable"}
  /\ ThreadTypeOK /\ PoolTypeOK
  /\ wanted \subseteq Task
  /\ ran \in [Task -> Nat]

-----------------------------------------------------------------------------
\* "After construction and between calls to Run, workers are ready, i.e.
\* waiting on worker_start_cv_": no worker of the thread runner is anywhere
\* else while the owner is outside a call, nor at the moment it notifies them
\* (thread_parallel_runner_internal.h, WorkersReadyBarrier and StartWorkers).
WorkersParked ==
  caller.at \in {"idle", "notify"} => \A w \in Workers : At(w) = "wait"

\* Between two calls no worker of the resizable runner is taking a value or
\* calling the client, so that Run may set func_ and end_task_, which workers
\* read without the mutex (DequeueTasks, WorkerBody).
QuietBetweenCalls ==
  owner.at \in {"idle", "join", "single", "return"} =>
    \A w \in WorkerId : member[w].at \notin {"dequeue", "call", "leave"}

\* The client's function is called with thread numbers below what its init
\* function was told (parallel_runner.h), although the resizable runner lets
\* workers in by max_running_workers_ and not by that number.
ThreadIdsFit ==
  \A w \in WorkerId : member[w].at = "call" => w + 1 < init_threads

InRun ==
  \/ caller.call \in {"run", "each"} /\ caller.at # "idle"
  \/ owner.at \notin {"idle", "join"}

Promise == INSTANCE ParallelRun WITH running <- InRun

\* Both runners implement the interface: the function is called once for
\* every value of the range before the call returns, and for no other value.
RunsEachOnce == Promise!Spec

\* Every call returns: creating and destroying a runner, changing the number
\* of its threads and running a function on a range (no lost notification).
CallsReturn ==
  /\ caller.at \notin {"none", "idle"} ~> caller.at \in {"none", "idle"}
  /\ owner.at # "idle" ~> owner.at = "idle"

\* The comment "Safely handle spurious worker wakeups" of WorkersReadyBarrier
\* and of the constructor, taken at its word: also when condition variables
\* wake threads by themselves, Runner does not return while a worker is still
\* calling the client's function.
SafeAgainstSpuriousWakeups ==
  caller.at = "idle" => \A w \in Workers : At(w) # "run"
==============================================================================
