--------------------------- MODULE RunnerInvariants ---------------------------
(***************************************************************************)
(* What has to be added to the properties of Runners to make them          *)
(* inductive, runner by runner.                                            *)
(***************************************************************************)
EXTENDS Runners, FiniteSets

\* uint32_t counters have room for what is added to them behind the end of a
\* range: a chunk and one more for every thread (num_reserved_), one value for
\* every thread (next_task_).
NoWrap ==
  \A range \in Ranges : range[1] <= range[2] =>
    range[2] + (MaxWorkers + 1) * (range[2] - range[1]) + MaxWorkers + 1 < TaskLimit

-----------------------------------------------------------------------------
(* The thread runner.                                                      *)

Waiting == {w \in Workers : At(w) = "wait"}
InBarrier == caller.at \in {"barrier", "blocked"}

\* Only the workers of the runner exist.
CastInv == \A w \in WorkerId : At(w) # "absent" => w \in Workers

\* What the count of ready workers stands for, and where workers can be while
\* the owner is at a place.
ReadyInv ==
  /\ ~ InBarrier => workers_ready = 0
  /\ InBarrier => workers_ready = Cardinality(Waiting)
  /\ caller.at \in {"idle", "notify"} => \A w \in Workers : At(w) = "wait"
  /\ caller.at \in {"barrier", "blocked", "join"} =>
       \A w \in Workers : At(w) = "woken" => worker_start_command # kWorkerWait
  /\ caller.at = "join" => \A w \in Workers : At(w) \in {"woken", "exited"}
  /\ caller.at = "none" => \A w \in Workers : At(w) = "exited"
  /\ caller.at = "alone" => num_worker_threads = 0
  /\ InBarrier => \A w \in Workers : At(w) # "exited"

\* The command stands from StartWorkers to the end of the call, and belongs to
\* the call.
CommandInv ==
  /\ caller.at = "join" => caller.call = "destroy"
  /\ caller.at = "notify" => caller.call \in {"run", "each", "destroy"}
  /\ InBarrier => caller.call \in {"create", "run", "each"}
  /\ caller.at \in {"notify", "barrier", "blocked", "join"} =>
       CASE caller.call = "run"     -> worker_start_command[1] = "range"
         [] caller.call = "each"    -> worker_start_command = kWorkerOnce
         [] caller.call = "destroy" -> worker_start_command = kWorkerExit
         [] OTHER                   -> worker_start_command = kWorkerWait
  /\ caller.call = "run" /\ caller.at \in {"notify", "barrier", "blocked"} => depth > 0
  /\ \A w \in Workers : At(w) \in {"reserve", "run"} =>
       caller.call = "run" /\ InBarrier /\ worker[w].command = worker_start_command
  /\ \A w \in Workers : At(w) = "once" => caller.call = "each" /\ InBarrier
  /\ \A w \in Workers : At(w) = "run" => worker[w].next < worker[w].stop

ThreadInv == ThreadTypeOK /\ CastInv /\ ReadyInv /\ CommandInv

\* The range of the current call, and how far it is handed out.
First == worker_start_command[2][1]
Last == worker_start_command[2][2]
Reserved == First + num_reserved
Chunk(w) == IF At(w) = "run" THEN worker[w].next .. worker[w].stop - 1 ELSE {}

\* A value of the range is still to be reserved, in the chunk of one worker, or
\* done; a worker only reports when there is nothing left to reserve.
ChunkInv ==
  caller.call = "run" /\ caller.at \in {"notify", "barrier", "blocked"} =>
    /\ Workers # {} /\ First < Last /\ wanted = First .. Last - 1
    /\ caller.at = "notify" => num_reserved = 0
    /\ \A w \in Workers : Chunk(w) \subseteq First .. Reserved - 1 /\ Chunk(w) \subseteq wanted
    /\ \A v, w \in Workers : v # w => Chunk(v) \cap Chunk(w) = {}
    /\ \A t \in wanted :
         ran[t] = IF t < Reserved /\ (\A w \in Workers : t \notin Chunk(w)) THEN 1 ELSE 0
    /\ InBarrier => \A w \in Workers : At(w) \in {"report", "wait"} => Reserved >= Last

\* How far num_reserved_ can pass the end: once by a chunk, and once more for
\* every worker that is turned away.
TurnedAway == {w \in Workers : At(w) \in {"report", "wait"}}
ReservedInv ==
  caller.call = "run" /\ InBarrier =>
    num_reserved <= (Last - First) + (Last - First) * (Cardinality(TurnedAway) + 1)

\* The function that runs on each thread has run on those that report.
EachInv ==
  caller.call = "each" /\ caller.at \in {"notify", "barrier", "blocked"} =>
    /\ wanted = Workers
    /\ \A w \in Workers :
         ran[w] = IF InBarrier /\ At(w) \in {"report", "wait"} THEN 1 ELSE 0
AloneInv == caller.at = "alone" => caller.call \in {"run", "each"}

-----------------------------------------------------------------------------
(* The resizable runner.                                                   *)

Working == {"dequeue", "call", "leave"}
Joined == {w \in WorkerId : member[w].at \in Working}
OwnerWorks == owner.at \in Working

\* The workers there are, but for those that are being joined.
CrewInv ==
  /\ owner.at # "join" => Joinable = 0 .. num_desired_workers - 1
  /\ owner.at = "join" =>
       \E n \in 0 .. MaxWorkers : num_desired_workers < n /\ Joinable = 0 .. n - 1

\* What the count of running workers stands for; workers may join only while the
\* owner works, and none is left when a call has returned.
RunningInv ==
  /\ num_running_workers = Cardinality(Joined) + (IF OwnerWorks THEN 1 ELSE 0)
  /\ work_available => OwnerWorks
  /\ owner.at \in {"idle", "join", "single", "return"} => Joined = {}

PoolInv == PoolTypeOK /\ CrewInv /\ RunningInv

\* Workers let in by max_running_workers_ have numbers init knows of.
AdmittedInv ==
  OwnerWorks \/ Joined # {} =>
    /\ \A w \in Joined : w < max_running_workers /\ w < num_desired_workers
    /\ wanted # {} => init_threads = Smaller(num_desired_workers, max_running_workers) + 1

InRange == OwnerWorks \/ owner.at \in {"await", "blocked"}
Held(t) == \/ owner.at = "call" /\ owner.task = t
           \/ \E w \in WorkerId : member[w].at = "call" /\ member[w].task = t

\* A value of the range is ahead of next_task_, held by one thread, or done.
TaskInv ==
  InRange =>
    /\ wanted \subseteq 0 .. end_task - 1
    /\ \A t \in next_task .. end_task - 1 : t \in wanted
    /\ \A t \in wanted : ran[t] = IF t < next_task /\ ~ Held(t) THEN 1 ELSE 0
    /\ owner.at = "call" => owner.task \in wanted /\ owner.task < next_task
    /\ \A w \in WorkerId : member[w].at = "call" =>
         /\ member[w].task \in wanted /\ member[w].task < next_task
         /\ owner.at = "call" => owner.task # member[w].task
         /\ \A v \in WorkerId : v # w /\ member[v].at = "call" =>
              member[v].task # member[w].task
    /\ owner.at \in {"leave", "await", "blocked"} => next_task >= end_task

\* How far next_task_ can pass the end: once for every thread that found nothing
\* left. The first of them to leave keeps further workers out.
FoundNothing ==
  {w \in WorkerId : \/ member[w].at = "leave"
                    \/ ~ work_available /\ member[w].at \notin {"dequeue", "call"}}
PassedInv ==
  InRange /\ next_task > end_task =>
    next_task <= end_task + Cardinality(FoundNothing)
                   + (IF owner.at \in {"leave", "await", "blocked"} THEN 1 ELSE 0)
RoomInv ==
  InRange => end_task + MaxWorkers + 1 < TaskLimit

SingleInv ==
  /\ owner.at = "single" => wanted = {owner.task} /\ ran[owner.task] = 0
  /\ owner.at = "return" => \A t \in wanted : ran[t] = 1

-----------------------------------------------------------------------------
\* What is true of either runner while the other one is used.
OneInv ==
  /\ kind \in {"thread", "resizable"}
  /\ kind = "thread" => owner.at = "idle"
  /\ kind = "resizable" => caller.at = "none"

Inductive ==
  /\ TypeOK /\ OneInv
  /\ ThreadInv /\ ChunkInv /\ ReservedInv /\ EachInv /\ AloneInv
  /\ PoolInv /\ AdmittedInv /\ TaskInv /\ PassedInv /\ RoomInv /\ SingleInv
===============================================================================
