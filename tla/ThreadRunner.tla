----------------------------- MODULE ThreadRunner -----------------------------
(***************************************************************************)
(* jpegxl::ThreadParallelRunner: a fixed set of worker threads that wait   *)
(* for a command, run chunks of the range they reserve with an atomic      *)
(* counter, and report back.                                               *)
(*                                                                         *)
(* A step is what a thread does between two points where another thread    *)
(* can tell: a critical section of mutex_, an operation on an atomic, one  *)
(* call of the client's function. Waiting on a condition variable releases *)
(* the mutex; a notified thread is "woken" until it has the mutex back.    *)
(***************************************************************************)
EXTENDS RunnerClient

CONSTANTS
  Share,        \* a worker reserves 1 / (Share * workers) of what is left; 4 in the code
  MaxDepth      \* bound on depth_

ASSUME ShareAssumption == Share \in Nat \ {0} /\ MaxDepth \in Nat \ {0}

VARIABLES
  num_worker_threads,
  depth,                  \* depth_: calls of Runner in progress
  workers_ready,
  worker_start_command,
  num_reserved,           \* atomic: values of the range handed to workers
  caller,                 \* the thread that owns the runner
  worker                  \* the worker threads

threadVars ==
  <<num_worker_threads, depth, workers_ready, worker_start_command,
    num_reserved, caller, worker>>

Command == {"wait", "once", "exit"} \X {<<0, 0>>} \cup {"range"} \X Ranges
Order(kind) == <<kind, <<0, 0>>>>
kWorkerWait == Order("wait")
kWorkerOnce == Order("once")
kWorkerExit == Order("exit")
RunCommand(range) == <<"range", range>>

Workers == 0 .. num_worker_threads - 1
NumThreads == IF num_worker_threads = 0 THEN 1 ELSE num_worker_threads

\* A thread of the pool: where it is, its copy of the command, and the rest of
\* the chunk it reserved.
Absent == [at |-> "absent", command |-> kWorkerWait, next |-> 0, stop |-> 0]
At(w) == worker[w].at
Moves(w, to) == worker' = [worker EXCEPT ![w].at = to]

CallerAt(to) == caller' = [caller EXCEPT !.at = to]
CallerIn(call, to) == caller' = [call |-> call, at |-> to]

ThreadInit ==
  /\ num_worker_threads = 0 /\ depth = 0 /\ workers_ready = 0
  /\ worker_start_command = kWorkerWait
  /\ num_reserved = 0
  /\ caller = [call |-> "none", at |-> "none"]
  /\ worker = [w \in WorkerId |-> Absent]

-----------------------------------------------------------------------------
(* The owner of the runner.                                                *)

\* The constructor: the threads run from now on; with none there is nothing to
\* wait for.
Create(n) ==
  /\ caller.at = "none"
  /\ num_worker_threads' = n
  /\ depth' = 0 /\ workers_ready' = 0 /\ num_reserved' = 0
  /\ worker_start_command' = kWorkerWait
  /\ worker' = [w \in WorkerId |->
                  IF w < n THEN [Absent EXCEPT !.at = "report"] ELSE Absent]
  /\ CallerIn("create", IF n = 0 THEN "idle" ELSE "barrier")
  /\ UNCHANGED clientVars

\* StartWorkers up to its unlock; the notification is a step of its own.
StartWorkers(command) ==
  /\ worker_start_command' = command
  /\ UNCHANGED <<num_worker_threads, workers_ready, worker>>

\* Runner with worker threads. An empty or reversed range and a failing init
\* return before anything changes. A range never equals a reserved command.
Run(range) ==
  /\ caller.at = "idle" /\ num_worker_threads > 0 /\ depth = 0
  /\ range[1] < range[2]
  /\ depth' = 1
  /\ num_reserved' = 0
  /\ StartWorkers(RunCommand(range))
  /\ CallerIn("run", "notify")
  /\ Ask(Values(range))

\* Runner without worker threads.
RunAlone(range) ==
  /\ caller.at = "idle" /\ num_worker_threads = 0
  /\ range[1] < range[2]
  /\ CallerIn("run", "alone")
  /\ Ask(Values(range))
  /\ UNCHANGED <<num_worker_threads, depth, workers_ready, worker_start_command,
                 num_reserved, worker>>

RunTaskAlone ==
  /\ caller.at = "alone"
  /\ \E t \in wanted :
       /\ ran[t] = 0 /\ \A s \in wanted : s < t => ran[s] = 1
       /\ Called(t)
  /\ UNCHANGED threadVars

ReturnAlone ==
  /\ caller.at = "alone"
  /\ \A t \in wanted : ran[t] = 1
  /\ CallerAt("idle")
  /\ UNCHANGED <<num_worker_threads, depth, workers_ready, worker_start_command,
                 num_reserved, worker, clientVars>>

\* Runner called by the function it runs, or after that happened: depth_ is
\* counted up, the error return does not count it down.
Reenter ==
  /\ num_worker_threads > 0
  /\ \/ caller.call = "run" /\ \E w \in WorkerId : At(w) = "run"
     \/ caller.at = "idle" /\ depth > 0
  /\ depth < MaxDepth
  /\ depth' = depth + 1
  /\ UNCHANGED <<num_worker_threads, workers_ready, worker_start_command,
                 num_reserved, caller, worker, clientVars>>

\* The function runs once on every thread, or on the caller if there is none.
RunOnEachThread ==
  /\ caller.at = "idle"
  /\ IF num_worker_threads = 0
       THEN CallerIn("each", "alone") /\ Ask({0}) /\ StartWorkers(worker_start_command)
       ELSE CallerIn("each", "notify") /\ Ask(Workers) /\ StartWorkers(kWorkerOnce)
  /\ UNCHANGED <<depth, num_reserved>>

\* The destructor joins the threads it has told to exit.
Destroy ==
  /\ caller.at = "idle"
  /\ IF num_worker_threads = 0
       THEN CallerIn("none", "none") /\ UNCHANGED worker_start_command
       ELSE CallerIn("destroy", "notify") /\ worker_start_command' = kWorkerExit
  /\ UNCHANGED <<num_worker_threads, depth, workers_ready, num_reserved,
                 worker, clientVars>>

\* notify_all reaches the threads that wait at this moment.
NotifyWorkers ==
  /\ caller.at = "notify"
  /\ worker' = [w \in WorkerId |->
                  IF At(w) = "wait" THEN [worker[w] EXCEPT !.at = "woken"]
                                    ELSE worker[w]]
  /\ CallerAt(IF caller.call = "destroy" THEN "join" ELSE "barrier")
  /\ UNCHANGED <<num_worker_threads, depth, workers_ready, worker_start_command,
                 num_reserved, clientVars>>

\* WorkersReadyBarrier finds a thread missing.
AwaitWorkers ==
  /\ caller.at = "barrier" /\ workers_ready # num_worker_threads
  /\ CallerAt("blocked")
  /\ UNCHANGED <<num_worker_threads, depth, workers_ready, worker_start_command,
                 num_reserved, worker, clientVars>>

\* Mutation of WorkersReadyBarrier: the count is left standing.
PassBarrierUncounted ==
  /\ caller.at = "barrier" /\ workers_ready = num_worker_threads
  /\ worker_start_command' = kWorkerWait
  /\ depth' = IF caller.call = "run" THEN depth - 1 ELSE depth
  /\ CallerAt("idle")
  /\ UNCHANGED <<num_worker_threads, workers_ready, num_reserved, worker, clientVars>>

\* It finds all of them; then the constructor, Runner or RunOnEachThread returns.
PassBarrier ==
  /\ caller.at = "barrier" /\ workers_ready = num_worker_threads
  /\ workers_ready' = 0
  /\ worker_start_command' = kWorkerWait
  /\ depth' = IF caller.call = "run" THEN depth - 1 ELSE depth
  /\ CallerAt("idle")
  /\ UNCHANGED <<num_worker_threads, num_reserved, worker, clientVars>>

Join ==
  /\ caller.at = "join"
  /\ \A w \in Workers : At(w) = "exited"
  /\ CallerIn("none", "none")
  /\ UNCHANGED <<num_worker_threads, depth, workers_ready, worker_start_command,
                 num_reserved, worker, clientVars>>

-----------------------------------------------------------------------------
(* Worker threads.                                                         *)

\* The thread counts itself ready and waits, in one critical section.
Report(w) ==
  /\ At(w) = "report"
  /\ workers_ready' = workers_ready + 1
  /\ Moves(w, "wait")
  /\ IF workers_ready' = NumThreads /\ caller.at = "blocked"
       THEN CallerAt("barrier")
       ELSE UNCHANGED caller
  /\ UNCHANGED <<num_worker_threads, depth, worker_start_command, num_reserved,
                 clientVars>>

\* The thread has the mutex back and reads the command. kWorkerWait sends it
\* to sleep again without counting it.
Resumed(command) ==
  CASE command = kWorkerWait -> "wait"
    [] command = kWorkerOnce -> "once"
    [] command = kWorkerExit -> "exited"
    [] OTHER -> "reserve"

Resume(w) ==
  /\ At(w) = "woken"
  /\ worker' = [worker EXCEPT ![w].at = Resumed(worker_start_command),
                              ![w].command = worker_start_command]
  /\ UNCHANGED <<num_worker_threads, depth, workers_ready, worker_start_command,
                 num_reserved, caller, clientVars>>

RunOnce(w) ==
  /\ At(w) = "once"
  /\ Called(w)
  /\ Moves(w, "report")
  /\ UNCHANGED <<num_worker_threads, depth, workers_ready, worker_start_command,
                 num_reserved, caller>>

\* Guided scheduling: chunks shrink with what is left, down to one.
Smaller(a, b) == IF a < b THEN a ELSE b
ChunkSize(tasks, seen) ==
  LET share == (tasks - Smaller(seen, tasks)) \div (num_worker_threads * Share)
  IN  IF share > 1 THEN share ELSE 1

\* Mutation of RunRange: reservations are rounded up past the end unchecked.
ReserveUnclipped(w) ==
  /\ At(w) = "reserve"
  /\ \E seen \in 0 .. num_reserved :
       LET begin == worker[w].command[2][1]
           tasks == worker[w].command[2][2] - begin
           size  == ChunkSize(tasks, seen)
           first == AddTask(begin, num_reserved)
           last  == AddTask(first, size)
       IN  /\ num_reserved' = AddTask(num_reserved, size)
           /\ IF first >= AddTask(begin, tasks)
                THEN Moves(w, "report")
                ELSE worker' = [worker EXCEPT ![w].at = "run",
                                  ![w].next = first, ![w].stop = last]
  /\ UNCHANGED <<num_worker_threads, depth, workers_ready, worker_start_command,
                 caller, clientVars>>

\* One round of RunRange up to the calls. The relaxed load may return any
\* earlier value of the counter; the addition that follows is atomic, so both
\* are one step.
Reserve(w) ==
  /\ At(w) = "reserve"
  /\ \E seen \in 0 .. num_reserved :
       LET begin == worker[w].command[2][1]
           tasks == worker[w].command[2][2] - begin
           size  == ChunkSize(tasks, seen)
           first == AddTask(begin, num_reserved)
           last  == Smaller(AddTask(first, size), AddTask(begin, tasks))
       IN  /\ num_reserved' = AddTask(num_reserved, size)
           /\ IF first >= last
                THEN Moves(w, "report")
                ELSE worker' = [worker EXCEPT ![w].at = "run",
                                  ![w].next = first, ![w].stop = last]
  /\ UNCHANGED <<num_worker_threads, depth, workers_ready, worker_start_command,
                 caller, clientVars>>

\* One call of data_func_.
RunTask(w) ==
  /\ At(w) = "run"
  /\ Called(worker[w].next)
  /\ worker' = [worker EXCEPT ![w].next = @ + 1,
                  ![w].at = IF worker[w].next + 1 = worker[w].stop THEN "reserve" ELSE "run"]
  /\ UNCHANGED <<num_worker_threads, depth, workers_ready, worker_start_command,
                 num_reserved, caller>>

\* What a condition variable may do at any time; worker_start_cv_.wait has no
\* predicate.
SpuriousWake(w) ==
  /\ At(w) = "wait"
  /\ Moves(w, "woken")
  /\ UNCHANGED <<num_worker_threads, depth, workers_ready, worker_start_command,
                 num_reserved, caller, clientVars>>

-----------------------------------------------------------------------------
WorkerStep(w) ==
  Report(w) \/ Resume(w) \/ RunOnce(w) \/ Reserve(w) \/ RunTask(w)

\* What the owner does inside a call.
CallerStep ==
  RunTaskAlone \/ ReturnAlone \/ NotifyWorkers \/ AwaitWorkers \/ PassBarrier \/ Join

CallerCall ==
  \/ \E n \in 0 .. MaxWorkers : Create(n)
  \/ \E range \in Ranges : Run(range) \/ RunAlone(range)
  \/ RunOnEachThread \/ Destroy

\* Without spurious wakeups.
ThreadNext ==
  CallerCall \/ CallerStep \/ Reenter \/ \E w \in WorkerId : WorkerStep(w)
==============================================================================
