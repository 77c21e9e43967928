---------------------------- MODULE ResizableRunner ----------------------------
(***************************************************************************)
(* jpegxl::ResizeableParallelRunner: workers that come and go. The caller  *)
(* takes part in the work; whoever takes a value takes one at a time.      *)
(* The granularity of steps is that of ThreadRunner.                       *)
(***************************************************************************)
EXTENDS RunnerClient

VARIABLES
  num_desired_workers,
  max_running_workers,
  num_running_workers,
  work_available,
  next_task,            \* atomic
  end_task,
  init_threads,         \* history: what init was told about the current call
  owner,                \* the thread that calls Run and SetNumThreads
  member                \* the workers: at, and the value taken last

poolVars ==
  <<num_desired_workers, max_running_workers, num_running_workers,
    work_available, next_task, end_task, init_threads, owner, member>>

\* Worker w is thread w + 1 of a call, the owner is thread 0.
Idle(at) == [at |-> at, task |-> 0]
Joinable == {w \in WorkerId : member[w].at # "absent"}
NumWorkers == CHOOSE n \in 0 .. MaxWorkers : Joinable = 0 .. n - 1

PoolInit ==
  /\ num_desired_workers = 0 /\ max_running_workers = 0 /\ num_running_workers = 0
  /\ work_available = FALSE
  /\ next_task = 0 /\ end_task = 0 /\ init_threads = 0
  /\ owner = Idle("idle")
  /\ member = [w \in WorkerId |-> Idle("absent")]

\* workers_can_proceed_.notify_all: a worker that waits looks again.
Notified == [w \in WorkerId |->
               IF member[w].at = "wait" THEN [member[w] EXCEPT !.at = "check"] ELSE member[w]]

-----------------------------------------------------------------------------
(* The owner.                                                              *)

\* SetNumThreads up to the joins. The thread of the owner counts as one.
SetNumThreads(num) ==
  /\ owner.at = "idle"
  /\ LET wanted_workers == IF num > 0 THEN num - 1 ELSE num
     IN  /\ num_desired_workers' = wanted_workers
         /\ member' = [w \in WorkerId |->
              IF w >= NumWorkers /\ w < wanted_workers THEN Idle("check") ELSE Notified[w]]
         /\ owner' = Idle(IF NumWorkers > wanted_workers THEN "join" ELSE "idle")
  /\ UNCHANGED <<max_running_workers, num_running_workers, work_available,
                 next_task, end_task, init_threads, clientVars>>

\* The joins, one wait for all, and workers_.resize.
JoinWorkers ==
  /\ owner.at = "join"
  /\ \A w \in Joinable : w >= num_desired_workers => member[w].at = "gone"
  /\ member' = [w \in WorkerId |->
                  IF w < num_desired_workers THEN member[w] ELSE Idle("absent")]
  /\ owner' = Idle("idle")
  /\ UNCHANGED <<num_desired_workers, max_running_workers, num_running_workers,
                 work_available, next_task, end_task, init_threads, clientVars>>

\* Run for one value: the owner calls the function itself.
RunSingle(range) ==
  /\ owner.at = "idle" /\ AddTask(range[1], 1) = range[2]
  /\ init_threads' = 1
  /\ owner' = [at |-> "single", task |-> range[1]]
  /\ Ask({range[1]})
  /\ UNCHANGED <<num_desired_workers, max_running_workers, num_running_workers,
                 work_available, next_task, end_task, member>>

\* Run up to the end of its critical section. A failing init returns before
\* anything changes; an empty range takes this path too.
RunRange(range) ==
  /\ owner.at = "idle" /\ AddTask(range[1], 1) # range[2] /\ range[1] <= range[2]
  /\ init_threads' = IF NumWorkers + 1 < range[2] - range[1]
                       THEN NumWorkers + 1 ELSE range[2] - range[1]
  /\ max_running_workers' = AddTask(range[2] - range[1], TaskLimit - 1)
  /\ next_task' = range[1] /\ end_task' = range[2]
  /\ work_available' = TRUE
  /\ num_running_workers' = num_running_workers + 1
  /\ member' = Notified
  /\ owner' = Idle("dequeue")
  /\ Ask(Values(range))
  /\ UNCHANGED num_desired_workers

RunSingleTask ==
  /\ owner.at = "single"
  /\ Called(owner.task)
  /\ owner' = Idle("return")
  /\ UNCHANGED <<num_desired_workers, max_running_workers, num_running_workers,
                 work_available, next_task, end_task, init_threads, member>>

ReturnSingle ==
  /\ owner.at = "return"
  /\ owner' = Idle("idle")
  /\ UNCHANGED <<num_desired_workers, max_running_workers, num_running_workers,
                 work_available, next_task, end_task, init_threads, member, clientVars>>

\* The loop at the end of Run: leave, or wait on work_done_.
AwaitDone ==
  /\ owner.at = "await"
  /\ owner' = Idle(IF num_running_workers = 0 THEN "idle" ELSE "blocked")
  /\ UNCHANGED <<num_desired_workers, max_running_workers, num_running_workers,
                 work_available, next_task, end_task, init_threads, member, clientVars>>

-----------------------------------------------------------------------------
(* DequeueTasks, which owner and workers share.                            *)

\* The thread takes a value. end_task is compared outside the mutex.
Taken(thread) ==
  [task |-> next_task, at |-> IF next_task >= end_task THEN "leave" ELSE "call"]

OwnerTakes ==
  /\ owner.at = "dequeue"
  /\ owner' = Taken(owner)
  /\ next_task' = AddTask(next_task, 1)
  /\ UNCHANGED <<num_desired_workers, max_running_workers, num_running_workers,
                 work_available, end_task, init_threads, member, clientVars>>

WorkerTakes(w) ==
  /\ member[w].at = "dequeue"
  /\ member' = [member EXCEPT ![w] = Taken(member[w])]
  /\ next_task' = AddTask(next_task, 1)
  /\ UNCHANGED <<num_desired_workers, max_running_workers, num_running_workers,
                 work_available, end_task, init_threads, owner, clientVars>>

OwnerCalls ==
  /\ owner.at = "call"
  /\ Called(owner.task)
  /\ owner' = [owner EXCEPT !.at = "dequeue"]
  /\ UNCHANGED <<num_desired_workers, max_running_workers, num_running_workers,
                 work_available, next_task, end_task, init_threads, member>>

WorkerCalls(w) ==
  /\ member[w].at = "call"
  /\ Called(member[w].task)
  /\ member' = [member EXCEPT ![w].at = "dequeue"]
  /\ UNCHANGED <<num_desired_workers, max_running_workers, num_running_workers,
                 work_available, next_task, end_task, init_threads, owner>>

\* Mutation of DequeueTasks: workers may still join when the values are gone.
StopKeepsWork ==
  /\ num_running_workers' = num_running_workers - 1
  /\ UNCHANGED <<num_desired_workers, max_running_workers, work_available,
                 next_task, end_task, init_threads, clientVars>>

\* No value is left: the critical section at the end of DequeueTasks.
Stop ==
  /\ num_running_workers' = num_running_workers - 1
  /\ work_available' = FALSE
  /\ UNCHANGED <<num_desired_workers, max_running_workers, next_task, end_task,
                 init_threads, clientVars>>

OwnerLeaves ==
  /\ owner.at = "leave"
  /\ Stop
  /\ owner' = Idle("await")
  /\ UNCHANGED member

\* Mutation of DequeueTasks: the last worker does not tell the owner.
WakesNobody == UNCHANGED owner

\* The last one to leave wakes the owner if it waits.
WakesOwner ==
  owner' = IF num_running_workers = 1 /\ owner.at = "blocked" THEN Idle("await") ELSE owner

WorkerLeaves(w) ==
  /\ member[w].at = "leave"
  /\ Stop
  /\ WakesOwner
  /\ member' = [member EXCEPT ![w] = Idle("check")]

-----------------------------------------------------------------------------
(* The rest of WorkerBody.                                                 *)

\* Mutation of WorkerBody: every worker joins, needed or not.
MayJoin(w) == work_available

HasWork(w) == work_available /\ w < max_running_workers

Quit(w) ==
  /\ member[w].at = "check" /\ w >= num_desired_workers
  /\ member' = [member EXCEPT ![w].at = "gone"]
  /\ UNCHANGED <<num_desired_workers, max_running_workers, num_running_workers,
                 work_available, next_task, end_task, init_threads, owner, clientVars>>

WaitForWork(w) ==
  /\ member[w].at = "check" /\ w < num_desired_workers /\ ~ HasWork(w)
  /\ member' = [member EXCEPT ![w].at = "wait"]
  /\ UNCHANGED <<num_desired_workers, max_running_workers, num_running_workers,
                 work_available, next_task, end_task, init_threads, owner, clientVars>>

JoinIn(w) ==
  /\ member[w].at = "check" /\ w < num_desired_workers /\ HasWork(w)
  /\ num_running_workers' = num_running_workers + 1
  /\ member' = [member EXCEPT ![w].at = "dequeue"]
  /\ UNCHANGED <<num_desired_workers, max_running_workers, work_available,
                 next_task, end_task, init_threads, owner, clientVars>>

\* Both waits may end without a notification; both look again.
Spurious ==
  /\ \/ /\ owner.at = "blocked"
        /\ owner' = Idle("await") /\ UNCHANGED member
     \/ /\ \E w \in WorkerId :
             member[w].at = "wait" /\ member' = [member EXCEPT ![w].at = "check"]
        /\ UNCHANGED owner
  /\ UNCHANGED <<num_desired_workers, max_running_workers, num_running_workers,
                 work_available, next_task, end_task, init_threads, clientVars>>

-----------------------------------------------------------------------------
MemberStep(w) ==
  \/ WorkerTakes(w) \/ WorkerCalls(w) \/ WorkerLeaves(w)
  \/ Quit(w) \/ WaitForWork(w) \/ JoinIn(w)

OwnerStep ==
  \/ JoinWorkers \/ RunSingleTask \/ ReturnSingle \/ AwaitDone
  \/ OwnerTakes \/ OwnerCalls \/ OwnerLeaves

OwnerCall ==
  \/ \E num \in 0 .. MaxWorkers + 1 : SetNumThreads(num)
  \/ \E range \in Ranges : RunSingle(range) \/ RunRange(range)

PoolNext == OwnerCall \/ OwnerStep \/ Spurious \/ \E w \in WorkerId : MemberStep(w)
==============================================================================
