----------------------------- MODULE RunnerProofs -----------------------------
(***************************************************************************)
(* Proofs about the parallel runners, for any number of threads and any    *)
(* ranges.                                                                 *)
(***************************************************************************)
EXTENDS RunnerInvariants, TLAPS, FiniteSetTheorems

-----------------------------------------------------------------------------
(* Arithmetic of uint32_t, and the client's history.                       *)

\* Sums of task numbers are task numbers, and exact if they fit.
LEMMA AddTaskType ==
  ASSUME NEW a \in Nat, NEW b \in Nat
  PROVE  /\ AddTask(a, b) \in Task
         /\ a + b < TaskLimit => AddTask(a, b) = a + b
  BY RunnerAssumption DEF AddTask, Task

LEMMA RangeType ==
  ASSUME NEW range \in Ranges
  PROVE  range[1] \in Task /\ range[2] \in Task /\ Values(range) \subseteq Task
  BY RunnerAssumption DEF Values, Task

\* The client's history keeps its type.
HistoryOK == wanted \subseteq Task /\ ran \in [Task -> Nat]

LEMMA AskType ==
  ASSUME NEW values \in SUBSET Task, Ask(values)
  PROVE  HistoryOK'
  BY DEF Ask, HistoryOK

LEMMA CalledType ==
  ASSUME HistoryOK, NEW t \in Task, Called(t)
  PROVE  HistoryOK'
  BY DEF Called, HistoryOK

-----------------------------------------------------------------------------
(* The resizable runner: types, the workers there are, and their count.    *)

\* The workers are a finite set.
LEMMA CrewFinite ==
  /\ IsFiniteSet(WorkerId) /\ Cardinality(WorkerId) = MaxWorkers
  /\ WorkerId \subseteq Task
  /\ \A S \in SUBSET WorkerId :
       IsFiniteSet(S) /\ Cardinality(S) \in 0 .. MaxWorkers
<1>1. IsFiniteSet(WorkerId) /\ Cardinality(WorkerId) = MaxWorkers
  BY FS_Interval, RunnerAssumption DEF WorkerId
<1>2. ASSUME NEW S \in SUBSET WorkerId
      PROVE  IsFiniteSet(S) /\ Cardinality(S) \in 0 .. MaxWorkers
  BY <1>1, FS_Subset, FS_CardinalityType
<1> QED BY <1>1, <1>2, RunnerAssumption DEF WorkerId, Task

\* NumWorkers counts the workers, where they are numbered without gaps.
LEMMA NumWorkersIs ==
  ASSUME NEW n \in 0 .. MaxWorkers, Joinable = 0 .. n - 1
  PROVE  NumWorkers = n
<1>1. \A m \in 0 .. MaxWorkers : Joinable = 0 .. m - 1 => m = n
  <2> SUFFICES ASSUME NEW m \in 0 .. MaxWorkers, Joinable = 0 .. m - 1
               PROVE  m = n
    OBVIOUS
  <2>1. Cardinality(0 .. m - 1) = m /\ Cardinality(0 .. n - 1) = n
    BY FS_Interval, RunnerAssumption
  <2> QED BY <2>1
<1> QED BY <1>1 DEF NumWorkers

\* The range of a member's record.
MemberType == [at : MemberPlaces, task : Task]

\* Owner and clients of the pool: types are kept.
LEMMA PoolTypes ==
  ASSUME PoolTypeOK, CrewInv, PoolNext
  PROVE  /\ num_desired_workers' \in 0 .. MaxWorkers
         /\ max_running_workers' \in Task
         /\ work_available' \in BOOLEAN
         /\ next_task' \in Task /\ end_task' \in Task
         /\ init_threads' \in 0 .. MaxWorkers + 1
         /\ owner' \in [at : OwnerPlaces, task : Task]
         /\ member' \in [WorkerId -> MemberType]
<1> USE DEF PoolTypeOK, MemberType, OwnerPlaces, MemberPlaces
<1>0. 0 \in Task /\ TaskLimit - 1 \in Nat /\ 1 \in Nat /\ Task \subseteq Nat /\ MaxWorkers \in Nat
  BY RunnerAssumption DEF Task
<1>a. Notified \in [WorkerId -> MemberType]
  BY DEF Notified
<1>1. ASSUME NEW num \in 0 .. MaxWorkers + 1, SetNumThreads(num)
      PROVE  (num_desired_workers' \in 0 .. MaxWorkers) /\ owner' \in [at : OwnerPlaces, task : Task]
             /\ member' \in [WorkerId -> MemberType]
  BY <1>0, <1>1, <1>a DEF SetNumThreads, Idle
<1>2. ASSUME NEW range \in Ranges, RunRange(range)
      PROVE  /\ max_running_workers' \in Task /\ next_task' \in Task /\ end_task' \in Task
             /\ init_threads' \in 0 .. MaxWorkers + 1 /\ work_available' \in BOOLEAN
             /\ owner' \in [at : OwnerPlaces, task : Task]
             /\ member' \in [WorkerId -> MemberType]
  <2>1. range[1] \in Task /\ range[2] \in Task /\ range[1] <= range[2] /\ owner.at = "idle"
    BY <1>2, RangeType DEF RunRange
  <2>2. range[2] - range[1] \in Nat
    <3>1. range[1] \in Nat /\ range[2] \in Nat BY <2>1, <1>0
    <3> QED BY ONLY <3>1, <2>1
  <2>3. NumWorkers = num_desired_workers
    BY <2>1, NumWorkersIs DEF CrewInv
  <2>4. max_running_workers' \in Task
    BY <1>2, <2>2, <1>0, AddTaskType DEF RunRange
  <2>5. init_threads' \in 0 .. MaxWorkers + 1
    <3>1. init_threads' = IF num_desired_workers + 1 < range[2] - range[1]
                            THEN num_desired_workers + 1 ELSE range[2] - range[1]
      BY <1>2, <2>3 DEF RunRange
    <3>2. num_desired_workers \in 0 .. MaxWorkers
      OBVIOUS
    <3> QED BY ONLY <3>1, <3>2, <2>2, <1>0
  <2> QED BY <1>2, <2>1, <2>4, <2>5, <1>0, <1>a DEF RunRange, Idle
<1>3. ASSUME NEW range \in Ranges, RunSingle(range)
      PROVE  init_threads' \in 0 .. MaxWorkers + 1 /\ owner' \in [at : OwnerPlaces, task : Task]
  BY <1>3, <1>0, RangeType DEF RunSingle
<1>4. CASE OwnerTakes
  BY <1>4, <1>0, AddTaskType DEF OwnerTakes, Taken
<1>5. ASSUME NEW w \in WorkerId, WorkerTakes(w)
      PROVE  next_task' \in Task /\ member' \in [WorkerId -> MemberType]
  BY <1>5, <1>0, AddTaskType DEF WorkerTakes, Taken
<1>6. ASSUME NEW w \in WorkerId, MemberStep(w), ~ WorkerTakes(w)
      PROVE  /\ member' \in [WorkerId -> MemberType] /\ owner' \in [at : OwnerPlaces, task : Task]
             /\ work_available' \in BOOLEAN
             /\ UNCHANGED <<num_desired_workers, max_running_workers, next_task, end_task, init_threads>>
  <2>1. CASE WorkerCalls(w) BY <2>1 DEF WorkerCalls
  <2>2. CASE WorkerLeaves(w) BY <2>2, <1>0 DEF WorkerLeaves, Stop, WakesOwner, Idle
  <2>3. CASE Quit(w) BY <2>3 DEF Quit
  <2>4. CASE WaitForWork(w) BY <2>4 DEF WaitForWork
  <2>5. CASE JoinIn(w) BY <2>5 DEF JoinIn
  <2> QED BY <1>6, <2>1, <2>2, <2>3, <2>4, <2>5 DEF MemberStep
<1>7. ASSUME OwnerStep, ~ OwnerTakes
      PROVE  /\ member' \in [WorkerId -> MemberType] /\ owner' \in [at : OwnerPlaces, task : Task]
             /\ work_available' \in BOOLEAN
             /\ UNCHANGED <<num_desired_workers, max_running_workers, next_task, end_task, init_threads>>
  <2>1. CASE JoinWorkers BY <2>1, <1>0 DEF JoinWorkers, Idle
  <2>2. CASE RunSingleTask BY <2>2, <1>0 DEF RunSingleTask, Idle
  <2>3. CASE ReturnSingle BY <2>3, <1>0 DEF ReturnSingle, Idle
  <2>4. CASE AwaitDone BY <2>4, <1>0 DEF AwaitDone, Idle
  <2>5. CASE OwnerCalls BY <2>5 DEF OwnerCalls
  <2>6. CASE OwnerLeaves BY <2>6, <1>0 DEF OwnerLeaves, Stop, Idle
  <2> QED BY <1>7, <2>1, <2>2, <2>3, <2>4, <2>5, <2>6 DEF OwnerStep
<1>8. CASE Spurious
  BY <1>8, <1>0 DEF Spurious, Idle
<1> QED
  BY <1>1, <1>2, <1>3, <1>4, <1>5, <1>6, <1>7, <1>8
     DEF PoolNext, OwnerCall, SetNumThreads, RunRange, RunSingle, OwnerTakes, WorkerTakes, MemberStep,
         OwnerStep

\* The count of running workers, from where the workers are.
LEMMA JoinedCount ==
  /\ IsFiniteSet(Joined) /\ Cardinality(Joined) \in 0 .. MaxWorkers
  /\ Cardinality(Joined) = 0 => Joined = {}
  BY CrewFinite, FS_EmptySet DEF Joined

\* One worker joins or leaves, and the others stay.
LEMMA JoinedMoves ==
  ASSUME NEW w \in WorkerId, NEW S \in SUBSET WorkerId
  PROVE  /\ w \notin S => Cardinality(S \cup {w}) = Cardinality(S) + 1
         /\ w \in S => Cardinality(S \ {w}) = Cardinality(S) - 1
  BY CrewFinite, FS_AddElement, FS_RemoveElement

LEMMA RunningStep ==
  ASSUME PoolTypeOK, CrewInv, RunningInv, PoolNext
  PROVE  RunningInv' /\ num_running_workers' \in 0 .. MaxWorkers + 1
<1> USE DEF RunningInv, PoolTypeOK, MemberPlaces, OwnerPlaces
<1>0. Cardinality({}) = 0 /\ MaxWorkers \in Nat
  BY FS_EmptySet, RunnerAssumption
<1>1. ASSUME NEW num \in 0 .. MaxWorkers + 1, SetNumThreads(num)
      PROVE  RunningInv'
  <2>1. Joined' = {}
    BY <1>1 DEF SetNumThreads, Joined, Notified, Working, Idle
  <2> QED BY <1>0, <1>1, <2>1 DEF SetNumThreads, OwnerWorks, Working, Idle
<1>2. ASSUME NEW range \in Ranges, RunSingle(range)
      PROVE  RunningInv'
  BY <1>2, <1>0 DEF RunSingle, Joined, OwnerWorks, Working
<1>3. ASSUME NEW range \in Ranges, RunRange(range)
      PROVE  RunningInv'
  <2>1. Joined' = {}
    BY <1>3 DEF RunRange, Joined, Notified, Working
  <2> QED BY SMTT(30), <1>0, <1>3, <2>1 DEF RunRange, OwnerWorks, Working, Idle
<1>4. ASSUME OwnerStep PROVE RunningInv'
  <2>1. CASE JoinWorkers
    <3>1. Joined' = {}
      BY <2>1 DEF JoinWorkers, Joined, Working, Idle
    <3> QED BY <2>1, <1>0, <3>1 DEF JoinWorkers, OwnerWorks, Working, Idle
  <2>2. CASE RunSingleTask \/ ReturnSingle
    <3>1. Joined' = Joined /\ UNCHANGED <<num_running_workers, work_available>>
      BY <2>2 DEF RunSingleTask, ReturnSingle, Joined
    <3>2. /\ ~ OwnerWorks /\ ~ OwnerWorks'
          /\ owner.at \in {"idle", "join", "single", "return"}
      BY <2>2 DEF RunSingleTask, ReturnSingle, OwnerWorks, Working, Idle
    <3> QED BY ONLY <3>1, <3>2, RunningInv DEF RunningInv
  <2>3. CASE AwaitDone
    BY <2>3, <1>0, JoinedCount DEF AwaitDone, Joined, OwnerWorks, Working, Idle
  <2>4. CASE OwnerTakes \/ OwnerCalls
    <3>1. Joined' = Joined /\ UNCHANGED <<num_running_workers, work_available>>
      BY <2>4 DEF OwnerTakes, OwnerCalls, Joined
    <3>2. OwnerWorks /\ OwnerWorks' /\ owner'.at \notin {"idle", "join", "single", "return"}
      BY <2>4 DEF OwnerTakes, OwnerCalls, Taken, OwnerWorks, Working
    <3> QED BY ONLY <3>1, <3>2, RunningInv DEF RunningInv
  <2>5. CASE OwnerLeaves
    <3>1. Joined' = Joined /\ num_running_workers' = num_running_workers - 1 /\ ~ work_available'
      BY <2>5 DEF OwnerLeaves, Stop, Joined
    <3>2. OwnerWorks /\ ~ OwnerWorks' /\ owner'.at \notin {"idle", "join", "single", "return"}
      BY <2>5 DEF OwnerLeaves, OwnerWorks, Working, Idle
    <3> QED BY ONLY <3>1, <3>2, RunningInv, JoinedCount DEF RunningInv
  <2> QED BY <1>4, <2>1, <2>2, <2>3, <2>4, <2>5 DEF OwnerStep
<1>5. ASSUME NEW w \in WorkerId, MemberStep(w)
      PROVE  RunningInv'
  <2>1. CASE WorkerTakes(w) \/ WorkerCalls(w)
    <3>1. Joined' = Joined
      BY <2>1 DEF WorkerTakes, WorkerCalls, Taken, Joined, Working
    <3>2. UNCHANGED <<num_running_workers, work_available, owner>>
      BY <2>1 DEF WorkerTakes, WorkerCalls
    <3> QED BY ONLY <3>1, <3>2, RunningInv DEF RunningInv, OwnerWorks
  <2>2. CASE WorkerLeaves(w)
    <3>1. Joined' = Joined \ {w} /\ w \in Joined
      BY <2>2 DEF WorkerLeaves, Joined, Working, Idle
    <3>2. Cardinality(Joined') = Cardinality(Joined) - 1
      BY <3>1, JoinedMoves DEF Joined
    <3>3. OwnerWorks' <=> OwnerWorks
      BY <2>2 DEF WorkerLeaves, WakesOwner, OwnerWorks, Working, Idle
    <3>4. owner'.at \in {"idle", "join", "single", "return"} => owner.at = owner'.at
      BY <2>2 DEF WorkerLeaves, WakesOwner, Idle
    <3> QED BY <2>2, <3>1, <3>2, <3>3, <3>4, JoinedCount DEF WorkerLeaves, Stop
  <2>3. CASE Quit(w) \/ WaitForWork(w)
    <3>1. Joined' = Joined
      BY <2>3 DEF Quit, WaitForWork, Joined, Working
    <3> QED BY <2>3, <3>1 DEF Quit, WaitForWork, OwnerWorks, Working, Joined
  <2>4. CASE JoinIn(w)
    <3>1. Joined' = Joined \cup {w} /\ w \notin Joined
      BY <2>4 DEF JoinIn, Joined, Working
    <3>2. Cardinality(Joined') = Cardinality(Joined) + 1
      BY <3>1, JoinedMoves DEF Joined
    <3>3. OwnerWorks /\ UNCHANGED owner
      BY <2>4 DEF JoinIn, HasWork
    <3> QED BY <2>4, <3>1, <3>2, <3>3, JoinedCount DEF JoinIn, OwnerWorks, Working
  <2> QED BY <1>5, <2>1, <2>2, <2>3, <2>4 DEF MemberStep
<1>6. ASSUME Spurious PROVE RunningInv'
  <2>1. Joined' = Joined
    BY <1>6 DEF Spurious, Joined, Working
  <2>2. /\ UNCHANGED <<num_running_workers, work_available>> /\ (OwnerWorks' <=> OwnerWorks)
        /\ owner'.at \in {"idle", "join", "single", "return"} => owner'.at = owner.at
    BY <1>6 DEF Spurious, OwnerWorks, Working, Idle
  <2> QED BY ONLY <2>1, <2>2, RunningInv DEF RunningInv
<1>7. RunningInv'
  BY <1>1, <1>2, <1>3, <1>4, <1>5, <1>6 DEF PoolNext, OwnerCall
<1>8. Cardinality(Joined') \in 0 .. MaxWorkers
  BY CrewFinite DEF Joined
<1> QED BY <1>7, <1>8, <1>0

\* Workers come and go with SetNumThreads only.
LEMMA CrewStep ==
  ASSUME PoolTypeOK, CrewInv, PoolNext
  PROVE  CrewInv'
<1>0. MaxWorkers \in Nat /\ WorkerId = 0 .. MaxWorkers - 1
  BY RunnerAssumption DEF WorkerId
<1>1. ASSUME NEW num \in 0 .. MaxWorkers + 1, SetNumThreads(num)
      PROVE  CrewInv'
  <2> DEFINE wanted_workers == IF num > 0 THEN num - 1 ELSE num
  <2>1. wanted_workers \in 0 .. MaxWorkers /\ num_desired_workers \in 0 .. MaxWorkers
    BY <1>0 DEF PoolTypeOK
  <2>2. Joinable = 0 .. num_desired_workers - 1 /\ NumWorkers = num_desired_workers
    BY <1>1, <2>1, NumWorkersIs DEF SetNumThreads, CrewInv
  <2>3. num_desired_workers' = wanted_workers
    BY <1>1 DEF SetNumThreads
  <2>4. owner'.at = IF num_desired_workers > wanted_workers THEN "join" ELSE "idle"
    BY <1>1, <2>2 DEF SetNumThreads, Idle
  <2>5. \A w \in WorkerId :
          member'[w].at # "absent" <=> (w < num_desired_workers \/ w < wanted_workers)
    <3> SUFFICES ASSUME NEW w \in WorkerId
                 PROVE  member'[w].at # "absent" <=> (w < num_desired_workers \/ w < wanted_workers)
      OBVIOUS
    <3>1. member[w].at # "absent" <=> w < num_desired_workers
      BY <2>1, <2>2, <1>0 DEF Joinable
    <3>2. Notified[w].at = "absent" <=> member[w].at = "absent"
      BY DEF Notified, PoolTypeOK
    <3>3. member'[w] = IF w >= num_desired_workers /\ w < wanted_workers
                         THEN Idle("check") ELSE Notified[w]
      BY <1>1, <2>2 DEF SetNumThreads
    <3> QED BY <3>1, <3>2, <3>3, <2>1, <1>0 DEF Idle
  <2>6. Joinable' = {w \in WorkerId : w < num_desired_workers \/ w < wanted_workers}
    BY <2>5 DEF Joinable
  <2>7. CASE num_desired_workers > wanted_workers
    <3>1. Joinable' = 0 .. num_desired_workers - 1
      BY <2>7, <2>6, <2>1, <1>0
    <3> QED BY <2>7, <3>1, <2>1, <2>3, <2>4 DEF CrewInv
  <2>8. CASE ~ (num_desired_workers > wanted_workers)
    <3>1. Joinable' = 0 .. wanted_workers - 1
      BY <2>8, <2>6, <2>1, <1>0
    <3> QED BY <2>8, <3>1, <2>3, <2>4 DEF CrewInv
  <2> QED BY <2>7, <2>8
<1>2. CASE JoinWorkers
  <2>1. PICK n \in 0 .. MaxWorkers : num_desired_workers < n /\ Joinable = 0 .. n - 1
    BY <1>2 DEF CrewInv, JoinWorkers
  <2>2. \A w \in WorkerId : member'[w].at # "absent" <=> w < num_desired_workers
    <3> SUFFICES ASSUME NEW w \in WorkerId
                 PROVE  member'[w].at # "absent" <=> w < num_desired_workers
      OBVIOUS
    <3>1. member'[w] = IF w < num_desired_workers THEN member[w] ELSE Idle("absent")
      BY <1>2 DEF JoinWorkers
    <3>2. w < num_desired_workers => member[w].at # "absent"
      BY <2>1, <1>0 DEF Joinable, PoolTypeOK
    <3> QED BY <3>1, <3>2 DEF Idle
  <2>3. Joinable' = 0 .. num_desired_workers - 1
    BY <2>2, <1>0 DEF Joinable, PoolTypeOK
  <2> QED BY <1>2, <2>3 DEF JoinWorkers, CrewInv, Idle
<1>3. ASSUME ~ JoinWorkers, ~ \E num \in 0 .. MaxWorkers + 1 : SetNumThreads(num)
      PROVE  CrewInv'
  <2>1. UNCHANGED num_desired_workers /\ (owner'.at = "join" <=> owner.at = "join")
    <3>1. CASE OwnerCall
      <4>1. PICK range \in Ranges : RunSingle(range) \/ RunRange(range)
        BY <1>3, <3>1 DEF OwnerCall
      <4> QED BY <4>1 DEF RunSingle, RunRange, Idle
    <3>2. CASE OwnerStep
      BY <1>3, <3>2 DEF OwnerStep, RunSingleTask, ReturnSingle, AwaitDone, OwnerTakes, OwnerCalls,
           OwnerLeaves, Stop, Taken, Idle, PoolTypeOK
    <3>3. ASSUME NEW w \in WorkerId, MemberStep(w)
          PROVE  UNCHANGED num_desired_workers /\ (owner'.at = "join" <=> owner.at = "join")
      BY <3>3 DEF MemberStep, WorkerTakes, WorkerCalls, WorkerLeaves, Quit, WaitForWork, JoinIn,
           Stop, WakesOwner, Idle
    <3>4. CASE Spurious
      BY <3>4 DEF Spurious, Idle
    <3> QED BY <3>1, <3>2, <3>3, <3>4 DEF PoolNext
  <2>2. \A w \in WorkerId : member'[w].at = "absent" <=> member[w].at = "absent"
    <3>1. CASE UNCHANGED member \/ member' = Notified
      BY <3>1 DEF Notified, PoolTypeOK
    <3>2. CASE \E w \in WorkerId : MemberStep(w)
      BY <3>2 DEF PoolTypeOK, MemberStep, WorkerTakes, WorkerCalls, WorkerLeaves, Quit, WaitForWork,
           JoinIn, Taken, Idle
    <3>3. CASE Spurious
      BY <3>3 DEF PoolTypeOK, Spurious
    <3> QED BY <1>3, <3>1, <3>2, <3>3 DEF PoolNext, OwnerCall, OwnerStep, RunSingle, RunRange,
         RunSingleTask, ReturnSingle, AwaitDone, OwnerTakes, OwnerCalls, OwnerLeaves
  <2>3. Joinable' = Joinable
    BY <2>2 DEF Joinable
  <2> QED BY <2>1, <2>3 DEF CrewInv
<1> QED BY <1>1, <1>2, <1>3

\* The resizable runner keeps its types, its crew and its count.
LEMMA PoolStep ==
  ASSUME PoolInv, PoolNext
  PROVE  PoolInv'
  BY PoolTypes, CrewStep, RunningStep DEF PoolInv, PoolTypeOK, MemberType

-----------------------------------------------------------------------------
(* The thread runner: types, and the count of ready workers.               *)

LEMMA WorkersFinite ==
  ASSUME num_worker_threads \in 0 .. MaxWorkers
  PROVE  /\ Workers \subseteq WorkerId /\ IsFiniteSet(Workers)
         /\ Cardinality(Workers) = num_worker_threads
         /\ \A S \in SUBSET Workers :
              /\ IsFiniteSet(S) /\ Cardinality(S) \in 0 .. num_worker_threads
              /\ Cardinality(S) = num_worker_threads => S = Workers
<1>0. MaxWorkers \in Nat BY RunnerAssumption
<1>1. Workers \subseteq WorkerId BY <1>0 DEF Workers, WorkerId
<1>2. IsFiniteSet(Workers) /\ Cardinality(Workers) = num_worker_threads
  BY <1>0, FS_Interval DEF Workers
<1>3. ASSUME NEW S \in SUBSET Workers
      PROVE  /\ IsFiniteSet(S) /\ Cardinality(S) \in 0 .. num_worker_threads
             /\ Cardinality(S) = num_worker_threads => S = Workers
  BY <1>2, FS_Subset, FS_CardinalityType
<1> QED BY <1>1, <1>2, <1>3

\* A chunk has at least one value.
LEMMA ChunkType ==
  ASSUME NEW tasks \in Int, NEW seen \in Nat, num_worker_threads \in Nat \ {0}
  PROVE  ChunkSize(tasks, seen) \in Nat \ {0}
<1>1. num_worker_threads * Share \in Nat \ {0}
  BY ShareAssumption
<1>2. tasks - Smaller(seen, tasks) \in Nat
  BY DEF Smaller
<1> QED BY <1>1, <1>2 DEF ChunkSize

\* The command that stands is one of the commands.
LEMMA CommandType ==
  /\ kWorkerWait \in Command /\ kWorkerOnce \in Command /\ kWorkerExit \in Command
  /\ \A range \in Ranges : RunCommand(range) \in Command
  /\ \A command \in Command : command[1] = "range" => command[2] \in Ranges
  /\ \A command \in Command :
       command \notin {kWorkerWait, kWorkerOnce, kWorkerExit} => command[1] = "range"
  /\ \A range \in Ranges : RunCommand(range)[1] = "range"
  /\ kWorkerWait # kWorkerOnce /\ kWorkerWait # kWorkerExit /\ kWorkerOnce # kWorkerExit
  /\ kWorkerWait[1] # "range" /\ kWorkerOnce[1] # "range" /\ kWorkerExit[1] # "range"
  BY DEF Command, kWorkerWait, kWorkerOnce, kWorkerExit, Order, RunCommand

ThreadRecord == [at : ThreadPlaces, command : Command, next : 0 .. TaskLimit, stop : 0 .. TaskLimit]

\* All but the type of the count.
LEMMA ThreadTypes ==
  ASSUME ThreadInv, ThreadNext
  PROVE  /\ num_worker_threads' \in 0 .. MaxWorkers
         /\ depth' \in 0 .. MaxDepth
         /\ worker_start_command' \in Command
         /\ num_reserved' \in Task
         /\ caller' \in [call : {"none", "create", "run", "each", "destroy"}, at : CallerPlaces]
         /\ worker' \in [WorkerId -> ThreadRecord]
<1> USE DEF ThreadInv, ThreadTypeOK, ThreadRecord, CallerPlaces, ThreadPlaces
<1>0. /\ MaxWorkers \in Nat /\ TaskLimit \in Nat \ {0} /\ MaxDepth \in Nat \ {0}
      /\ 0 \in Task /\ Task \subseteq 0 .. TaskLimit /\ Task \subseteq Nat
  BY RunnerAssumption, ShareAssumption DEF Task
<1>1. ASSUME NEW n \in 0 .. MaxWorkers, Create(n)
      PROVE  /\ num_worker_threads' \in 0 .. MaxWorkers /\ depth' \in 0 .. MaxDepth
             /\ worker_start_command' \in Command /\ num_reserved' \in Task
             /\ caller' \in [call : {"none", "create", "run", "each", "destroy"}, at : CallerPlaces]
             /\ worker' \in [WorkerId -> ThreadRecord]
  BY <1>0, <1>1, CommandType DEF Create, CallerIn, Absent
<1>2. ASSUME NEW range \in Ranges, Run(range) \/ RunAlone(range)
      PROVE  /\ worker_start_command' \in Command /\ depth' \in 0 .. MaxDepth /\ num_reserved' \in Task
             /\ caller' \in [call : {"none", "create", "run", "each", "destroy"}, at : CallerPlaces]
             /\ UNCHANGED <<num_worker_threads, worker>>
  BY <1>0, <1>2, CommandType DEF Run, RunAlone, StartWorkers, CallerIn
<1>3. ASSUME RunOnEachThread \/ Destroy
      PROVE  /\ worker_start_command' \in Command
             /\ caller' \in [call : {"none", "create", "run", "each", "destroy"}, at : CallerPlaces]
             /\ UNCHANGED <<num_worker_threads, worker, depth, num_reserved>>
  BY <1>3, CommandType DEF RunOnEachThread, Destroy, StartWorkers, CallerIn
<1>4. ASSUME CallerStep
      PROVE  /\ worker_start_command' \in Command /\ depth' \in 0 .. MaxDepth
             /\ caller' \in [call : {"none", "create", "run", "each", "destroy"}, at : CallerPlaces]
             /\ worker' \in [WorkerId -> ThreadRecord]
             /\ UNCHANGED <<num_worker_threads, num_reserved>>
  <2>1. CASE RunTaskAlone BY <2>1 DEF RunTaskAlone, threadVars
  <2>2. CASE ReturnAlone BY <2>2 DEF ReturnAlone, CallerAt
  <2>3. CASE NotifyWorkers BY <2>3 DEF NotifyWorkers, CallerAt
  <2>4. CASE AwaitWorkers BY <2>4 DEF AwaitWorkers, CallerAt
  <2>5. CASE PassBarrier
    <3>1. caller.call = "run" => depth > 0
      BY <2>5 DEF PassBarrier, CommandInv
    <3>2. depth' \in 0 .. MaxDepth
      BY <2>5, <3>1, <1>0 DEF PassBarrier
    <3> QED BY <2>5, <3>2, CommandType DEF PassBarrier, CallerAt
  <2>6. CASE Join BY <2>6 DEF Join, CallerIn
  <2> QED BY <1>4, <2>1, <2>2, <2>3, <2>4, <2>5, <2>6 DEF CallerStep
<1>5. ASSUME Reenter
      PROVE  /\ depth' \in 0 .. MaxDepth
             /\ UNCHANGED <<num_worker_threads, worker_start_command, num_reserved, caller, worker>>
  BY <1>5, <1>0 DEF Reenter
<1>6. ASSUME NEW w \in WorkerId, WorkerStep(w)
      PROVE  /\ caller' \in [call : {"none", "create", "run", "each", "destroy"}, at : CallerPlaces]
             /\ worker' \in [WorkerId -> ThreadRecord] /\ num_reserved' \in Task
             /\ UNCHANGED <<num_worker_threads, worker_start_command, depth>>
  <2>1. CASE Report(w) BY <2>1 DEF Report, Moves, CallerAt
  <2>2. CASE Resume(w)
    <3>1. Resumed(worker_start_command) \in {"wait", "once", "exited", "reserve"}
      BY DEF Resumed
    <3> QED BY <2>2, <3>1 DEF Resume
  <2>3. CASE RunOnce(w) BY <2>3 DEF RunOnce, Moves
  <2>4. CASE Reserve(w)
    <3> DEFINE begin == worker[w].command[2][1]
               tasks == worker[w].command[2][2] - begin
    <3>1. w \in Workers /\ num_worker_threads \in Nat \ {0}
      BY <2>4, <1>0 DEF Reserve, CastInv, Workers, At
    <3>2. caller.call = "run" /\ InBarrier /\ worker[w].command = worker_start_command
      BY <2>4, <3>1 DEF Reserve, CommandInv
    <3>3. worker[w].command[2] \in Ranges
      BY <3>2, CommandType DEF CommandInv, InBarrier
    <3>4. begin \in Nat /\ tasks \in Int /\ AddTask(begin, tasks) \in Task
      <4>1. begin \in Nat /\ worker[w].command[2][2] \in Nat
        BY <3>3, RangeType, <1>0
      <4>2. begin + tasks = worker[w].command[2][2]
        BY <4>1
      <4> QED BY <4>1, <4>2, <1>0 DEF AddTask, Task
    <3>5. PICK seen \in 0 .. num_reserved :
            LET size  == ChunkSize(tasks, seen)
                first == AddTask(begin, num_reserved)
                last  == Smaller(AddTask(first, size), AddTask(begin, tasks))
            IN  /\ num_reserved' = AddTask(num_reserved, size)
                /\ IF first >= last
                     THEN Moves(w, "report")
                     ELSE worker' = [worker EXCEPT ![w].at = "run",
                                       ![w].next = first, ![w].stop = last]
      BY <2>4 DEF Reserve
    <3> DEFINE size  == ChunkSize(tasks, seen)
               first == AddTask(begin, num_reserved)
               last  == Smaller(AddTask(first, size), AddTask(begin, tasks))
    <3>6. num_reserved \in Nat /\ seen \in Nat /\ size \in Nat
      <4>1. num_reserved \in Nat /\ seen \in Nat
        BY <1>0
      <4> QED BY ONLY <3>1, <3>4, <4>1, ChunkType
    <3>7. AddTask(num_reserved, size) \in Task /\ first \in Task
      BY <3>4, <3>6, AddTaskType
    <3>8. last \in Task
      <4>1. AddTask(first, size) \in Task
        BY <3>6, <3>7, <1>0, AddTaskType
      <4> QED BY <4>1, <3>4 DEF Smaller
    <3> HIDE DEF first, last, size, tasks, begin
    <3>9. worker' \in [WorkerId -> ThreadRecord]
      BY <3>5, <3>7, <3>8, <1>0 DEF first, last, size, Moves
    <3>10. UNCHANGED <<num_worker_threads, worker_start_command, depth, caller>>
      BY <2>4 DEF Reserve
    <3> QED BY <3>5, <3>7, <3>9, <3>10 DEF size
  <2>5. CASE RunTask(w)
    <3>1. w \in Workers /\ worker[w].next < worker[w].stop
      BY <2>5 DEF RunTask, CommandInv, CastInv, At
    <3>2. worker[w].next + 1 \in 0 .. TaskLimit
      BY <3>1, <1>0
    <3>3. worker' \in [WorkerId -> ThreadRecord]
      BY ZenonT(30), <2>5, <3>2 DEF RunTask
    <3> QED BY <2>5, <3>3 DEF RunTask
  <2> QED BY <1>6, <2>1, <2>2, <2>3, <2>4, <2>5 DEF WorkerStep
<1> QED BY <1>1, <1>2, <1>3, <1>4, <1>5, <1>6 DEF ThreadNext, CallerCall

LEMMA CastStep ==
  ASSUME ThreadInv, ThreadNext
  PROVE  CastInv'
<1> USE DEF ThreadInv, CastInv, At, Workers
<1>1. ASSUME NEW n \in 0 .. MaxWorkers, Create(n) PROVE CastInv'
  BY <1>1, RunnerAssumption DEF Create, Absent, WorkerId
<1>2. CASE NotifyWorkers
  BY <1>2 DEF NotifyWorkers, ThreadTypeOK
<1>3. ASSUME NEW w \in WorkerId, WorkerStep(w) PROVE CastInv'
  <2>1. At(w) # "absent" /\ UNCHANGED num_worker_threads
    BY <1>3 DEF WorkerStep, Report, Resume, RunOnce, Reserve, RunTask
  <2>2. \A v \in WorkerId : v # w => worker'[v] = worker[v]
    BY <1>3 DEF WorkerStep, Report, Resume, RunOnce, Reserve, RunTask, Moves, ThreadTypeOK
  <2> QED BY <2>1, <2>2
<1>4. ASSUME UNCHANGED <<num_worker_threads, worker>> PROVE CastInv'
  BY <1>4
<1> QED BY <1>1, <1>2, <1>3, <1>4
        DEF ThreadNext, CallerCall, CallerStep, Reenter, Run, RunAlone, RunOnEachThread, StartWorkers,
            Destroy, RunTaskAlone, ReturnAlone, AwaitWorkers, PassBarrier, Join, threadVars

\* How one worker moves changes the set of those that wait.
LEMMA WaitingMoves ==
  ASSUME ThreadInv, NEW w \in Workers, UNCHANGED num_worker_threads,
         \A v \in Workers : v # w => At(v)' = At(v)
  PROVE  /\ At(w) # "wait" /\ At(w)' = "wait" => Cardinality(Waiting') = Cardinality(Waiting) + 1
         /\ At(w) # "wait" /\ At(w)' # "wait" => Waiting' = Waiting
<1>1. IsFiniteSet(Waiting)
  BY WorkersFinite DEF ThreadInv, ThreadTypeOK, Waiting
<1>2. Workers' = Workers
  BY DEF Workers
<1>3. ASSUME At(w) # "wait", At(w)' = "wait"
      PROVE  Cardinality(Waiting') = Cardinality(Waiting) + 1
  <2>1. Waiting' = Waiting \cup {w} /\ w \notin Waiting
    BY <1>2, <1>3 DEF Waiting
  <2> QED BY <1>1, <2>1, FS_AddElement
<1>4. ASSUME At(w) # "wait", At(w)' # "wait"
      PROVE  Waiting' = Waiting
  BY <1>2, <1>4 DEF Waiting
<1> QED BY <1>3, <1>4

\* What the owner does to the count.
LEMMA CallerReady ==
  ASSUME ThreadInv, CallerCall \/ CallerStep \/ Reenter
  PROVE  ReadyInv'
<1> USE DEF ThreadInv, ThreadTypeOK, ReadyInv, InBarrier
<1>0. Cardinality({}) = 0 /\ MaxWorkers \in Nat
  BY FS_EmptySet, RunnerAssumption
<1>1. ASSUME NEW n \in 0 .. MaxWorkers, Create(n) PROVE ReadyInv'
  <2>1. n = 0 => Workers' = {}
    BY <1>1 DEF Create, Workers
  <2>2. \A w \in Workers' : At(w)' = "report"
    BY <1>1, <1>0 DEF Create, Workers, WorkerId, At, Absent
  <2>3. Waiting' = {}
    BY <2>2 DEF Waiting
  <2> QED BY <1>1, <1>0, <2>1, <2>2, <2>3 DEF Create, CallerIn
<1>2. ASSUME NEW range \in Ranges, Run(range) \/ RunAlone(range) PROVE ReadyInv'
  BY <1>2 DEF Run, RunAlone, StartWorkers, CallerIn, At, Workers
<1>3. CASE RunOnEachThread
  BY <1>3 DEF RunOnEachThread, StartWorkers, CallerIn, At, Workers
<1>4. CASE Destroy
  BY <1>4 DEF Destroy, CallerIn, At, Workers
<1>5. CASE RunTaskAlone
  BY <1>5 DEF RunTaskAlone, threadVars, At, Workers, Waiting
<1>6. CASE ReturnAlone
  BY <1>6 DEF ReturnAlone, CallerAt, At, Workers
<1>7. CASE NotifyWorkers
  <2>1. \A w \in Workers : At(w)' = "woken"
    BY <1>7, <1>0 DEF NotifyWorkers, At, Workers, WorkerId
  <2>2. Workers' = Workers /\ Waiting' = {}
    BY <1>7, <2>1 DEF NotifyWorkers, Workers, Waiting
  <2>3. worker_start_command' # kWorkerWait
    BY <1>7, CommandType DEF NotifyWorkers, CommandInv
  <2> QED BY <1>7, <1>0, <2>1, <2>2, <2>3 DEF NotifyWorkers, CallerAt
<1>8. CASE AwaitWorkers
  BY <1>8 DEF AwaitWorkers, CallerAt, At, Workers, Waiting
<1>9. CASE PassBarrier
  <2>1. Waiting = Workers
    BY <1>9, WorkersFinite DEF PassBarrier, Waiting
  <2> QED BY <1>9, <2>1 DEF PassBarrier, CallerAt, At, Workers, Waiting
<1>10. CASE Join
  BY <1>10 DEF Join, CallerIn, At, Workers
<1>11. CASE Reenter
  BY <1>11 DEF Reenter, At, Workers, Waiting
<1> QED BY <1>1, <1>2, <1>3, <1>4, <1>5, <1>6, <1>7, <1>8, <1>9, <1>10, <1>11
        DEF CallerCall, CallerStep

\* What a worker does to the count.
LEMMA WorkerReady ==
  ASSUME ThreadInv, NEW w \in WorkerId, WorkerStep(w)
  PROVE  ReadyInv'
<1> USE DEF ThreadInv, ThreadTypeOK, ThreadPlaces
<1>1. w \in Workers /\ num_worker_threads # 0
  BY RunnerAssumption DEF WorkerStep, Report, Resume, RunOnce, Reserve, RunTask, CastInv, Workers
<1>2. UNCHANGED <<num_worker_threads, worker_start_command>> /\ Workers' = Workers
  BY DEF WorkerStep, Report, Resume, RunOnce, Reserve, RunTask, Workers
<1>3. \A v \in Workers : v # w => At(v)' = At(v)
  BY WorkersFinite DEF WorkerStep, Report, Resume, RunOnce, Reserve, RunTask, Moves, At
<1>4. CASE Report(w)
  <2>1. At(w) = "report" /\ At(w)' = "wait" /\ workers_ready' = workers_ready + 1
    BY <1>1, <1>4, WorkersFinite DEF Report, Moves, At
  <2>2. InBarrier
    BY <1>1, <2>1 DEF ReadyInv, InBarrier, CallerPlaces
  <2>3. InBarrier' /\ (UNCHANGED caller \/ caller'.at = "barrier")
    BY <1>4, <2>2 DEF Report, CallerAt, InBarrier
  <2>4. workers_ready' = Cardinality(Waiting')
    BY <1>1, <1>2, <1>3, <2>1, <2>2, WaitingMoves DEF ReadyInv
  <2>5. \A v \in Workers : At(v)' = "woken" => At(v) = "woken"
    BY <1>3, <2>1
  <2>6. \A v \in Workers : At(v)' # "exited"
    BY <1>3, <2>1, <2>2 DEF ReadyInv
  <2> QED BY <1>2, <2>2, <2>3, <2>4, <2>5, <2>6 DEF ReadyInv, InBarrier
<1>5. CASE Resume(w)
  <2>1. At(w) = "woken" /\ At(w)' = Resumed(worker_start_command) /\ UNCHANGED <<workers_ready, caller>>
    BY <1>1, <1>5, WorkersFinite DEF Resume, At
  <2>2. caller.at \in {"barrier", "blocked", "join"} /\ worker_start_command # kWorkerWait
    BY <1>1, <2>1 DEF ReadyInv, InBarrier, CallerPlaces
  <2>3. InBarrier => Resumed(worker_start_command) \in {"once", "reserve"}
    BY <2>2, CommandType DEF CommandInv, InBarrier, Resumed
  <2>4. ~ InBarrier => Resumed(worker_start_command) = "exited"
    BY <2>2, CommandType DEF CommandInv, InBarrier, Resumed
  <2>5. Waiting' = Waiting
    BY <1>1, <1>2, <1>3, <2>1, <2>2, <2>3, <2>4, WaitingMoves
  <2> QED BY <1>1, <1>2, <1>3, <2>1, <2>2, <2>3, <2>4, <2>5 DEF ReadyInv, InBarrier
<1>6. CASE RunOnce(w) \/ Reserve(w) \/ RunTask(w)
  <2>1. At(w) \in {"once", "reserve", "run"} /\ At(w)' \in {"report", "reserve", "run"}
    BY <1>1, <1>6, WorkersFinite DEF RunOnce, Reserve, RunTask, Moves, At
  <2>2. UNCHANGED <<workers_ready, caller>>
    BY <1>6 DEF RunOnce, Reserve, RunTask
  <2>3. InBarrier
    BY <1>1, <2>1 DEF CommandInv
  <2>4. Waiting' = Waiting
    BY <1>1, <1>2, <1>3, <2>1, WaitingMoves
  <2> QED BY <1>1, <1>2, <1>3, <2>1, <2>2, <2>3, <2>4 DEF ReadyInv, InBarrier
<1> QED BY <1>4, <1>5, <1>6 DEF WorkerStep

\* The command and those who carry it out.
LEMMA CommandStep ==
  ASSUME ThreadInv, ThreadNext
  PROVE  CommandInv'
<1> USE DEF ThreadInv, ThreadTypeOK, CommandInv, InBarrier
<1>0. MaxWorkers \in Nat
  BY RunnerAssumption
<1>1. ASSUME NEW n \in 0 .. MaxWorkers, Create(n) PROVE CommandInv'
  <2>1. \A w \in Workers' : At(w)' = "report"
    BY <1>1, <1>0 DEF Create, Workers, WorkerId, At, Absent
  <2> QED BY <1>1, <2>1 DEF Create, CallerIn
<1>2. ASSUME NEW range \in Ranges, Run(range) \/ RunAlone(range) PROVE CommandInv'
  <2>1. \A w \in Workers : At(w) \notin {"reserve", "run", "once"}
    BY <1>2 DEF Run, RunAlone
  <2> QED BY <1>2, <2>1, CommandType DEF Run, RunAlone, StartWorkers, CallerIn, At, Workers
<1>3. CASE RunOnEachThread \/ Destroy
  <2>1. \A w \in Workers : At(w) \notin {"reserve", "run", "once"}
    BY <1>3 DEF RunOnEachThread, Destroy
  <2> QED BY <1>3, <2>1 DEF RunOnEachThread, Destroy, StartWorkers, CallerIn, At, Workers
<1>4. CASE RunTaskAlone \/ AwaitWorkers
  BY <1>4 DEF RunTaskAlone, AwaitWorkers, CallerAt, threadVars, At, Workers
<1>5. CASE ReturnAlone \/ Join
  <2>1. \A w \in Workers : At(w) \notin {"reserve", "run", "once"}
    BY <1>5 DEF ReturnAlone, Join
  <2> QED BY <1>5, <2>1 DEF ReturnAlone, Join, CallerAt, CallerIn, At, Workers
<1>6. CASE NotifyWorkers
  <2>1. \A w \in Workers : At(w)' = "woken"
    BY <1>6, <1>0 DEF NotifyWorkers, ReadyInv, At, Workers, WorkerId
  <2> QED BY <1>6, <2>1 DEF NotifyWorkers, CallerAt, Workers
<1>7. CASE PassBarrier
  <2>1. \A w \in Workers : At(w) = "wait"
    BY <1>7, CallerReady DEF PassBarrier, CallerStep, CallerAt, ReadyInv, At, Workers
  <2> QED BY <1>7, <2>1 DEF PassBarrier, CallerAt, At, Workers
<1>8. CASE Reenter
  BY <1>8 DEF Reenter, At, Workers
<1>9. ASSUME NEW w \in WorkerId, WorkerStep(w) PROVE CommandInv'
  <2>1. w \in Workers /\ Workers' = Workers /\ UNCHANGED <<num_worker_threads, worker_start_command, depth>>
    BY <1>9, <1>0 DEF WorkerStep, Report, Resume, RunOnce, Reserve, RunTask, CastInv, Workers
  <2>2. \A v \in Workers : v # w => worker'[v] = worker[v]
    BY <1>9, WorkersFinite DEF WorkerStep, Report, Resume, RunOnce, Reserve, RunTask, Moves, At
  <2>3. caller'.call = caller.call
        /\ (UNCHANGED caller \/ (caller.at = "blocked" /\ caller'.at = "barrier"))
    BY <1>9 DEF WorkerStep, Report, Resume, RunOnce, Reserve, RunTask, CallerAt
  <2>4. CASE Report(w) \/ RunOnce(w)
    <3>1. At(w)' \notin {"reserve", "run", "once"}
      BY <1>9, <2>4 DEF Report, RunOnce, Moves, At
    <3> QED BY <2>1, <2>2, <2>3, <3>1 DEF At
  <2>5. CASE Resume(w)
    <3>1. At(w) = "woken" /\ At(w)' = Resumed(worker_start_command)
          /\ worker'[w].command = worker_start_command
      BY <1>9, <2>5 DEF Resume, At
    <3>2. caller.at \in {"barrier", "blocked", "join"}
      <4>1. num_worker_threads # 0
        BY <2>1 DEF Workers
      <4> QED BY <2>1, <3>1, <4>1 DEF ReadyInv, CallerPlaces
    <3>3. /\ At(w)' \in {"reserve", "run"} => caller.call = "run" /\ InBarrier
          /\ At(w)' = "once" => caller.call = "each" /\ InBarrier
          /\ At(w)' # "run"
      BY <2>1, <3>1, <3>2, CommandType DEF ReadyInv, Resumed
    <3> QED BY <2>1, <2>2, <2>3, <3>1, <3>3 DEF At
  <2>6. CASE Reserve(w)
    <3>1. At(w) = "reserve" /\ At(w)' \in {"report", "run"} /\ worker'[w].command = worker[w].command
      BY <1>9, <2>6 DEF Reserve, Moves, At
    <3>2. At(w)' = "run" => worker'[w].next < worker'[w].stop
      BY <1>9, <2>6 DEF Reserve, Moves, At
    <3> QED BY <2>1, <2>2, <2>3, <3>1, <3>2 DEF At
  <2>7. CASE RunTask(w)
    <3>1. At(w) = "run" /\ At(w)' \in {"reserve", "run"} /\ worker'[w].command = worker[w].command
      BY <1>9, <2>7 DEF RunTask, At
    <3>2. At(w)' = "run" => worker'[w].next < worker'[w].stop
      BY <1>9, <2>7, <2>1 DEF RunTask, At
    <3> QED BY <2>1, <2>2, <2>3, <3>1, <3>2 DEF At
  <2> QED BY <1>9, <2>4, <2>5, <2>6, <2>7 DEF WorkerStep
<1> QED BY <1>1, <1>2, <1>3, <1>4, <1>5, <1>6, <1>7, <1>8, <1>9 DEF ThreadNext, CallerCall, CallerStep

LEMMA ThreadStep ==
  ASSUME ThreadInv, ThreadNext
  PROVE  ThreadInv'
<1>1. ReadyInv'
  BY CallerReady, WorkerReady DEF ThreadNext
<1>2. workers_ready' \in 0 .. num_worker_threads'
  <2>1. num_worker_threads' \in 0 .. MaxWorkers
    BY ThreadTypes
  <2>2. Cardinality(Waiting') \in 0 .. num_worker_threads'
    <3>1. Workers' = 0 .. num_worker_threads' - 1 /\ Waiting' \subseteq Workers'
      BY DEF Workers, Waiting
    <3>2. IsFiniteSet(Workers') /\ Cardinality(Workers') = num_worker_threads'
      BY <2>1, <3>1, FS_Interval, RunnerAssumption
    <3>3. /\ IsFiniteSet(Waiting') /\ Cardinality(Waiting') <= Cardinality(Workers')
          /\ Cardinality(Waiting') \in Nat
      BY <3>1, <3>2, FS_Subset, FS_CardinalityType
    <3> QED BY <2>1, <3>2, <3>3, RunnerAssumption
  <2> QED BY <1>1, <2>1, <2>2, RunnerAssumption DEF ReadyInv
<1> QED BY <1>1, <1>2, ThreadTypes, CastStep, CommandStep
        DEF ThreadInv, ThreadTypeOK, ThreadRecord

-----------------------------------------------------------------------------
(* Both runners.                                                           *)

\* The client's history, whoever calls its function.
LEMMA HistoryStep ==
  ASSUME ThreadInv, PoolInv, HistoryOK, Next
  PROVE  HistoryOK'
<1> USE DEF ThreadInv, ThreadTypeOK, PoolInv, PoolTypeOK
<1>0. 0 \in Task /\ Workers \subseteq Task
  <2>1. 0 \in Task
    BY RunnerAssumption DEF Task
  <2>2. Workers \subseteq WorkerId /\ WorkerId \subseteq Task
    BY WorkersFinite, CrewFinite
  <2> QED BY <2>1, <2>2
<1>1. ASSUME NEW range \in Ranges, Run(range) \/ RunAlone(range) \/ RunSingle(range) \/ RunRange(range)
      PROVE  HistoryOK'
  BY <1>1, AskType, RangeType DEF Run, RunAlone, RunSingle, RunRange
<1>2. CASE RunOnEachThread
  BY <1>0, <1>2, AskType DEF RunOnEachThread
<1>3. CASE RunTaskAlone
  BY <1>3, CalledType DEF RunTaskAlone, HistoryOK
<1>4. ASSUME NEW w \in WorkerId, WorkerStep(w) PROVE HistoryOK'
  <2>1. CASE RunTask(w)
    <3>1. worker[w].next < worker[w].stop
      BY <2>1 DEF RunTask, CastInv, CommandInv, At
    <3>2. worker[w].next \in Task
      BY <3>1, RunnerAssumption DEF Task
    <3> QED BY <2>1, <3>2, CalledType DEF RunTask
  <2>2. CASE RunOnce(w)
    BY <2>2, CalledType, CrewFinite DEF RunOnce
  <2> QED BY <1>4, <2>1, <2>2 DEF WorkerStep, Report, Resume, Reserve, clientVars, HistoryOK
<1>5. CASE RunSingleTask \/ OwnerCalls
  BY <1>5, CalledType DEF RunSingleTask, OwnerCalls
<1>6. ASSUME NEW w \in WorkerId, WorkerCalls(w) PROVE HistoryOK'
  BY <1>6, CalledType DEF WorkerCalls, MemberType
<1>7. ASSUME UNCHANGED clientVars PROVE HistoryOK'
  BY <1>7 DEF clientVars, HistoryOK
<1>8. CASE ThreadNext
  BY <1>1, <1>2, <1>3, <1>4, <1>7, <1>8
     DEF ThreadNext, CallerCall, CallerStep, Create, Destroy, ReturnAlone, NotifyWorkers, AwaitWorkers,
         PassBarrier, Join, Reenter
<1>9. CASE PoolNext
  BY <1>1, <1>5, <1>6, <1>7, <1>9
     DEF PoolNext, OwnerCall, OwnerStep, MemberStep, Spurious, SetNumThreads, JoinWorkers, ReturnSingle,
         AwaitDone, OwnerTakes, OwnerLeaves, WorkerTakes, WorkerLeaves, Quit, WaitForWork, JoinIn, Stop
<1> QED BY <1>8, <1>9 DEF Next, ThreadRuns, PoolRuns

SafeInv == HistoryOK /\ kind \in {"thread", "resizable"} /\ ThreadInv /\ PoolInv

LEMMA SafeInit == Init => SafeInv
<1> SUFFICES ASSUME Init PROVE SafeInv
  OBVIOUS
<1> USE DEF Init, ThreadInit, PoolInit, ClientInit
<1>0. 0 \in Task /\ MaxWorkers \in Nat /\ TaskLimit \in Nat \ {0} /\ MaxDepth \in Nat \ {0}
      /\ Cardinality({}) = 0
  BY RunnerAssumption, ShareAssumption, FS_EmptySet DEF Task
<1>1. ThreadTypeOK
  BY <1>0, CommandType DEF ThreadTypeOK, Absent, CallerPlaces, ThreadPlaces
<1>2. Workers = {} /\ \A w \in WorkerId : At(w) = "absent"
  BY DEF Workers, At, Absent
<1>3. ThreadInv
  BY <1>1, <1>2 DEF ThreadInv, CastInv, ReadyInv, CommandInv, InBarrier
<1>4. PoolTypeOK
  <2>1. Idle("absent") \in [at : MemberPlaces, task : Task] /\ Idle("idle") \in [at : OwnerPlaces, task : Task]
    BY <1>0 DEF Idle, OwnerPlaces, MemberPlaces
  <2>2. member \in [WorkerId -> [at : MemberPlaces, task : Task]] /\ owner \in [at : OwnerPlaces, task : Task]
    BY <2>1
  <2>3. /\ num_desired_workers = 0 /\ max_running_workers = 0 /\ num_running_workers = 0
        /\ work_available = FALSE /\ next_task = 0 /\ end_task = 0 /\ init_threads = 0
    OBVIOUS
  <2>4. 0 \in 0 .. MaxWorkers /\ 0 \in 0 .. MaxWorkers + 1
    BY ONLY <1>0
  <2>5. work_available \in BOOLEAN
    BY ONLY <2>3, Zenon
  <2> QED BY ONLY <1>0, <2>2, <2>3, <2>4, <2>5, Zenon DEF PoolTypeOK
<1>5. Joinable = {} /\ Joined = {}
  BY DEF Joinable, Joined, Working, Idle
<1>6. PoolInv
  BY <1>0, <1>4, <1>5 DEF PoolInv, CrewInv, RunningInv, OwnerWorks, Working, Idle
<1> QED BY <1>3, <1>6 DEF SafeInv, HistoryOK

LEMMA SafeStep == SafeInv /\ [Next]_vars => SafeInv'
<1> SUFFICES ASSUME SafeInv, [Next]_vars PROVE SafeInv'
  OBVIOUS
<1> USE DEF SafeInv
<1>1. ASSUME UNCHANGED threadVars PROVE ThreadInv'
  BY <1>1 DEF threadVars, ThreadInv, ThreadTypeOK, CastInv, ReadyInv, CommandInv, Waiting, Workers, At,
       InBarrier
<1>2. ASSUME UNCHANGED poolVars PROVE PoolInv'
  BY <1>2 DEF poolVars, PoolInv, PoolTypeOK, CrewInv, RunningInv, Joinable, Joined, OwnerWorks
<1>3. CASE ThreadRuns
  BY <1>2, <1>3, ThreadStep, HistoryStep DEF ThreadRuns, Next
<1>4. CASE PoolRuns
  BY <1>1, <1>4, PoolStep, HistoryStep DEF PoolRuns, Next
<1>5. CASE UNCHANGED vars
  BY <1>1, <1>2, <1>5 DEF vars, clientVars, HistoryOK
<1> QED BY <1>3, <1>4, <1>5 DEF Next

\* The variables of both runners keep their types whatever ranges, threads and
\* interleavings there are.
THEOREM RunnersTyped == Spec => []TypeOK
<1>1. SafeInv => TypeOK
  BY DEF SafeInv, ThreadInv, PoolInv, HistoryOK, TypeOK
<1> QED BY <1>1, SafeInit, SafeStep, PTL DEF Spec

\* StartWorkers and the barrier keep their promise: between calls, and when
\* they are notified, all workers of ThreadParallelRunner wait.
THEOREM WorkersAreParked == Spec => []WorkersParked
<1>1. SafeInv => WorkersParked
  BY DEF SafeInv, ThreadInv, ReadyInv, WorkersParked
<1> QED BY <1>1, SafeInit, SafeStep, PTL DEF Spec

\* ResizeableParallelRunner: a call of Run ends when nobody takes values any
\* more, whichever workers have joined in and left meanwhile.
THEOREM RunEndsQuietly == Spec => []QuietBetweenCalls
<1>1. SafeInv => QuietBetweenCalls
  BY DEF SafeInv, PoolInv, RunningInv, Joined, Working, QuietBetweenCalls
<1> QED BY <1>1, SafeInit, SafeStep, PTL DEF Spec

-----------------------------------------------------------------------------
(* Thread numbers of the resizable runner.                                 *)

\* ThreadPool::Run (lib/jxl/base/data_parallel.h) returns before it calls the
\* runner with an empty range.
NoEmptyRange == \A range \in Ranges : range[1] # range[2]

AtWork == OwnerWorks \/ Joined # {}
NumberInv == SafeInv /\ OneInv /\ AdmittedInv /\ (AtWork => wanted # {})

LEMMA OneStep == OneInv /\ Next => OneInv'
<1> SUFFICES ASSUME OneInv, Next PROVE OneInv'
  OBVIOUS
<1>1. CASE ThreadRuns
  BY <1>1 DEF OneInv, ThreadRuns, poolVars
<1>2. CASE PoolRuns
  BY <1>2 DEF OneInv, PoolRuns, threadVars
<1> QED BY <1>1, <1>2 DEF Next

\* A call that shares its range out tells init how many threads may take part.
LEMMA InitIsTold ==
  ASSUME NoEmptyRange, SafeInv, NEW range \in Ranges, RunRange(range)
  PROVE  /\ Joined' = {} /\ wanted' # {}
         /\ init_threads' = Smaller(num_desired_workers', max_running_workers') + 1
<1>1. Joined' = {}
  <2>1. Joined = {}
    BY DEF RunRange, SafeInv, PoolInv, RunningInv
  <2> QED BY <2>1 DEF RunRange, Joined, Notified, Working, SafeInv, PoolInv, PoolTypeOK
<1>2. range[1] \in Nat /\ range[2] \in Nat /\ range[1] < range[2] /\ range[2] < TaskLimit
      /\ TaskLimit \in Nat
  BY RunnerAssumption, RangeType DEF NoEmptyRange, RunRange, Task
<1>3. wanted' # {}
  <2>1. range[1] \in Values(range)
    BY <1>2 DEF Values
  <2> QED BY <2>1 DEF RunRange, Ask
<1>4. max_running_workers' = range[2] - range[1] - 1
  <2> DEFINE size == range[2] - range[1]
  <2>1. size \in 1 .. TaskLimit - 1
    BY <1>2
  <2>2. (size + (TaskLimit - 1)) % TaskLimit = size - 1
    BY ONLY <2>1, <1>2
  <2> QED BY <2>2 DEF RunRange, AddTask
<1>5. NumWorkers = num_desired_workers /\ num_desired_workers' = num_desired_workers
      /\ num_desired_workers \in Nat
  BY NumWorkersIs, RunnerAssumption DEF RunRange, CrewInv, SafeInv, PoolInv, PoolTypeOK
<1>6. init_threads' = IF num_desired_workers + 1 < range[2] - range[1]
                        THEN num_desired_workers + 1 ELSE range[2] - range[1]
  BY <1>5 DEF RunRange
<1> QED BY <1>1, <1>2, <1>3, <1>4, <1>5, <1>6 DEF Smaller

\* Workers join with numbers init knows of, and stay so until they leave.
LEMMA NumberStep ==
  ASSUME NoEmptyRange, NumberInv, PoolRuns
  PROVE  AdmittedInv' /\ (AtWork' => wanted' # {})
<1> USE DEF NumberInv, AdmittedInv, AtWork
<1>0. PoolNext /\ SafeInv /\ SafeInv'
  BY SafeStep DEF PoolRuns, Next
<1>1. ASSUME ~ AtWork' PROVE AdmittedInv' /\ (AtWork' => wanted' # {})
  BY <1>1
<1>2. ASSUME NEW range \in Ranges, RunRange(range)
      PROVE  AdmittedInv' /\ (AtWork' => wanted' # {})
  BY <1>0, <1>2, InitIsTold
<1>3. ASSUME AtWork, UNCHANGED <<num_desired_workers, max_running_workers, init_threads, wanted>>,
             \A w \in Joined' : w \in Joined \/ (w < max_running_workers /\ w < num_desired_workers)
      PROVE  AdmittedInv' /\ (AtWork' => wanted' # {})
  BY <1>3
<1>5. ASSUME NEW num \in 0 .. MaxWorkers + 1, SetNumThreads(num) PROVE ~ AtWork'
  BY <1>0, <1>5 DEF SetNumThreads, Idle, OwnerWorks, Working, SafeInv, PoolInv, RunningInv
<1>6. ASSUME NEW range \in Ranges, RunSingle(range) PROVE ~ AtWork'
  BY <1>0, <1>6 DEF RunSingle, OwnerWorks, Working, SafeInv, PoolInv, RunningInv
<1>7. CASE JoinWorkers \/ RunSingleTask \/ ReturnSingle
  <2>1. owner'.at \in {"idle", "return"}
    BY <1>7 DEF JoinWorkers, RunSingleTask, ReturnSingle, Idle
  <2>2. ~ AtWork'
    BY <1>0, <2>1 DEF OwnerWorks, Working, SafeInv, PoolInv, RunningInv
  <2> QED BY <2>2, <1>1
<1>8. CASE AwaitDone \/ OwnerTakes \/ OwnerCalls \/ OwnerLeaves \/ Spurious
  <2>1. Joined' = Joined
    BY <1>8 DEF AwaitDone, OwnerTakes, OwnerCalls, OwnerLeaves, Spurious, Joined, Working,
         SafeInv, PoolInv, PoolTypeOK
  <2>2. UNCHANGED <<num_desired_workers, max_running_workers, init_threads, wanted>>
    BY <1>8 DEF AwaitDone, OwnerTakes, OwnerCalls, OwnerLeaves, Spurious, Stop, clientVars, Called
  <2>3. OwnerWorks' => OwnerWorks
    BY <1>8 DEF AwaitDone, OwnerTakes, OwnerCalls, OwnerLeaves, Spurious, OwnerWorks, Working, Idle, Taken
  <2> QED BY <2>1, <2>2, <2>3, <1>3, <1>1
<1>9. ASSUME NEW w \in WorkerId, MemberStep(w)
      PROVE  AdmittedInv' /\ (AtWork' => wanted' # {})
  <2>1. UNCHANGED <<num_desired_workers, max_running_workers, init_threads, wanted>>
    BY <1>9 DEF MemberStep, WorkerTakes, WorkerCalls, WorkerLeaves, Quit, WaitForWork, JoinIn, Stop,
         clientVars, Called
  <2>2. OwnerWorks' => OwnerWorks
    BY <1>9 DEF MemberStep, WorkerTakes, WorkerCalls, WorkerLeaves, Quit, WaitForWork, JoinIn, WakesOwner,
         OwnerWorks, Working, Idle
  <2>3. CASE JoinIn(w)
    <3>1. OwnerWorks /\ w < max_running_workers /\ w < num_desired_workers
      BY <1>0, <2>3 DEF JoinIn, HasWork, SafeInv, PoolInv, RunningInv
    <3>2. \A v \in Joined' : v \in Joined \/ v = w
      BY <2>3 DEF JoinIn, Joined, SafeInv, PoolInv, PoolTypeOK
    <3> QED BY <2>1, <3>1, <3>2, <1>3
  <2>4. CASE ~ JoinIn(w)
    <3>1. Joined' \subseteq Joined
      BY <1>9, <2>4, <1>0 DEF MemberStep, WorkerTakes, WorkerCalls, WorkerLeaves, Quit, WaitForWork, Joined,
           Working, Idle, Taken, SafeInv, PoolInv, PoolTypeOK
    <3> QED BY <2>1, <2>2, <3>1, <1>1, <1>3
  <2> QED BY <2>3, <2>4
<1> QED BY <1>0, <1>1, <1>2, <1>5, <1>6, <1>7, <1>8, <1>9 DEF PoolNext, OwnerCall, OwnerStep

\* The function is called with thread numbers below what init was told, for any
\* number of threads and any ranges that are not empty, also such that end
\* where the counter wraps around.
THEOREM ThreadIdsAreKnown ==
  ASSUME NoEmptyRange
  PROVE  Spec => []ThreadIdsFit
<1>1. Init => NumberInv
  <2> SUFFICES ASSUME Init PROVE NumberInv
    OBVIOUS
  <2>1. ~ AtWork
    BY DEF Init, PoolInit, AtWork, OwnerWorks, Joined, Working, Idle
  <2>2. OneInv
    BY DEF Init, ThreadInit, PoolInit, OneInv, Idle
  <2> QED BY <2>1, <2>2, SafeInit DEF NumberInv, AdmittedInv, AtWork
<1>2. NumberInv /\ [Next]_vars => NumberInv'
  <2> SUFFICES ASSUME NumberInv, [Next]_vars PROVE NumberInv'
    OBVIOUS
  <2>1. CASE ThreadRuns
    <3>1. ~ AtWork /\ UNCHANGED poolVars
      BY <2>1 DEF NumberInv, OneInv, SafeInv, PoolInv, RunningInv, AtWork, OwnerWorks, Working, ThreadRuns
    <3>2. ~ AtWork'
      BY <3>1 DEF AtWork, OwnerWorks, Joined, poolVars
    <3> QED BY <2>1, <3>2, OneStep, SafeStep DEF NumberInv, AdmittedInv, AtWork, Next
  <2>2. CASE PoolRuns
    BY <2>2, OneStep, SafeStep, NumberStep DEF NumberInv, Next
  <2>3. CASE UNCHANGED vars
    <3>1. OneInv' /\ AdmittedInv' /\ (AtWork' => wanted' # {})
      BY <2>3 DEF NumberInv, OneInv, AdmittedInv, AtWork, OwnerWorks, Joined, vars, poolVars, threadVars,
           clientVars
    <3> QED BY <3>1, SafeStep DEF NumberInv
  <2> QED BY <2>1, <2>2, <2>3 DEF Next
<1>3. NumberInv => ThreadIdsFit
  <2> SUFFICES ASSUME NumberInv, NEW w \in WorkerId, member[w].at = "call"
               PROVE  w + 1 < init_threads
    BY DEF ThreadIdsFit
  <2>1. w \in Joined /\ wanted # {}
    BY DEF Joined, Working, NumberInv, AtWork
  <2>2. w < max_running_workers /\ w < num_desired_workers
        /\ init_threads = Smaller(num_desired_workers, max_running_workers) + 1
    BY <2>1 DEF NumberInv, AdmittedInv
  <2>3. w \in Nat /\ max_running_workers \in Nat /\ num_desired_workers \in Nat
    BY RunnerAssumption DEF NumberInv, SafeInv, PoolInv, PoolTypeOK, WorkerId, Task
  <2> QED BY <2>2, <2>3 DEF Smaller
<1> QED BY <1>1, <1>2, <1>3, PTL DEF Spec

-----------------------------------------------------------------------------
(***************************************************************************)
(* Both runners call the client's function once for every value of the     *)
(* range, for any number of threads: Runners implements ParallelRun. The   *)
(* ranges are such that the uint32_t counters, which threads keep adding   *)
(* to behind the end of a range, do not wrap around (NoWrap).              *)
(***************************************************************************)

\* A chunk is no larger than what it is taken from.
LEMMA ChunkFits ==
  ASSUME NEW tasks \in Nat \ {0}, NEW seen \in Nat, num_worker_threads \in Nat \ {0}
  PROVE  ChunkSize(tasks, seen) \in 1 .. tasks
<1> DEFINE left == tasks - Smaller(seen, tasks)
           parts == num_worker_threads * Share
<1>1. parts \in Nat \ {0}
  BY ShareAssumption
<1>2. left \in 0 .. tasks
  BY DEF Smaller
<1>3. left \div parts \in 0 .. tasks
  BY ONLY <1>1, <1>2, tasks \in Nat
<1> QED BY <1>1, <1>2, <1>3 DEF ChunkSize

\* What NoWrap leaves above a range.
LEMMA RoomAbove ==
  ASSUME NoWrap, NEW range \in Ranges, range[1] <= range[2]
  PROVE  range[2] + (MaxWorkers + 1) * (range[2] - range[1]) + MaxWorkers + 1 < TaskLimit
  BY DEF NoWrap

-----------------------------------------------------------------------------
(* The thread runner: values reserved, called for, and done.               *)

InRunCall == caller.call = "run" /\ caller.at \in {"notify", "barrier", "blocked"}

\* The range of a call in progress.
LEMMA RangeOfCall ==
  ASSUME ThreadInv, InRunCall
  PROVE  /\ worker_start_command[2] \in Ranges
         /\ First \in Task /\ Last \in Task
  BY CommandType, RangeType DEF ThreadInv, ThreadTypeOK, CommandInv, InRunCall, First, Last

RunInv == SafeInv /\ OneInv /\ ChunkInv /\ ReservedInv /\ EachInv /\ AloneInv

\* Reserving a chunk, with the sums exact.
LEMMA ReserveExact ==
  ASSUME NoWrap, RunInv, NEW w \in WorkerId, Reserve(w)
  PROVE  /\ w \in Workers /\ At(w) = "reserve" /\ InRunCall /\ InBarrier
         /\ w \notin TurnedAway
         /\ \E size \in 1 .. Last - First :
              /\ num_reserved' = num_reserved + size
              /\ IF Reserved >= Last
                   THEN Moves(w, "report")
                   ELSE worker' = [worker EXCEPT ![w].at = "run", ![w].next = Reserved,
                                     ![w].stop = Smaller(Reserved + size, Last)]
<1> USE DEF RunInv, SafeInv, ThreadInv, ThreadTypeOK
<1>0. MaxWorkers \in Nat /\ TaskLimit \in Nat \ {0} /\ Task \subseteq Nat /\ num_worker_threads \in Nat
  BY RunnerAssumption DEF Task
<1>1. w \in Workers /\ At(w) = "reserve" /\ w \notin TurnedAway
  BY DEF Reserve, CastInv, At, TurnedAway
<1>2. InRunCall /\ InBarrier /\ worker[w].command = worker_start_command
  BY <1>1 DEF CommandInv, InRunCall, InBarrier
<1>3. First \in Nat /\ Last \in Nat /\ First < Last /\ Last < TaskLimit
  BY <1>0, <1>2, RangeOfCall, RunnerAssumption DEF ChunkInv, InRunCall, Task
<1> DEFINE R == Last - First
<1>4. R \in Nat \ {0}
  BY <1>3
<1>5. num_worker_threads \in Nat \ {0}
  BY <1>0, <1>1 DEF Workers
<1>6. PICK seen \in 0 .. num_reserved :
        LET size  == ChunkSize(R, seen)
            first == AddTask(First, num_reserved)
            last  == Smaller(AddTask(first, size), AddTask(First, R))
        IN  /\ num_reserved' = AddTask(num_reserved, size)
            /\ IF first >= last
                 THEN Moves(w, "report")
                 ELSE worker' = [worker EXCEPT ![w].at = "run",
                                   ![w].next = first, ![w].stop = last]
  BY <1>2 DEF Reserve, First, Last
<1> DEFINE size == ChunkSize(R, seen)
<1>7. size \in 1 .. R /\ num_reserved \in Nat
  <2>1. num_reserved \in Nat /\ seen \in Nat
    BY <1>0
  <2> QED BY ONLY <1>4, <1>5, <2>1, ChunkFits
<1>8. First + num_reserved + size + MaxWorkers < TaskLimit
  <2> DEFINE c == Cardinality(TurnedAway)
  <2>1. c \in 0 .. num_worker_threads - 1
    <3>1. TurnedAway \subseteq Workers \ {w}
      BY <1>1 DEF TurnedAway
    <3>2. IsFiniteSet(Workers \ {w}) /\ Cardinality(Workers \ {w}) = num_worker_threads - 1
      BY <1>1, <1>0, WorkersFinite, FS_RemoveElement
    <3> QED BY <3>1, <3>2, <1>5, FS_Subset, FS_CardinalityType
  <2>2. num_reserved <= R + R * (c + 1)
    BY <1>2 DEF ReservedInv, InRunCall
  <2>3. R * (c + 1) <= R * MaxWorkers
    BY <1>4, <1>0, <2>1
  <2>4. Last + (MaxWorkers + 1) * R + MaxWorkers + 1 < TaskLimit
    BY <1>2, <1>3, RangeOfCall, RoomAbove DEF First, Last
  <2>5. (MaxWorkers + 1) * R = R * MaxWorkers + R
    BY <1>0, <1>4
  <2>6. R * (c + 1) \in Nat /\ R * MaxWorkers \in Nat
    BY <1>0, <1>4, <2>1
  <2> HIDE DEF R, size, c
  <2>7. Last = First + R
    BY <1>3 DEF R
  <2> QED BY ONLY <1>0, <1>3, <1>4, <1>7, <2>2, <2>3, <2>4, <2>5, <2>6, <2>7
<1>9. /\ AddTask(num_reserved, size) = num_reserved + size
      /\ AddTask(First, num_reserved) = Reserved
      /\ AddTask(Reserved, size) = Reserved + size
      /\ AddTask(First, R) = Last
  <2> HIDE DEF size
  <2>1. First + R = Last /\ R \in Nat /\ Reserved \in Nat
    BY <1>3, <1>7 DEF Reserved
  <2> QED BY <2>1, <1>0, <1>3, <1>7, <1>8, AddTaskType DEF Reserved
<1>10. Reserved >= Smaller(Reserved + size, Last) <=> Reserved >= Last
  <2> HIDE DEF size
  <2> QED BY <1>3, <1>7 DEF Smaller, Reserved
<1>11. /\ num_reserved' = num_reserved + size
       /\ IF Reserved >= Last
            THEN Moves(w, "report")
            ELSE worker' = [worker EXCEPT ![w].at = "run", ![w].next = Reserved,
                              ![w].stop = Smaller(Reserved + size, Last)]
  <2> HIDE DEF R
  <2> QED BY <1>6, <1>9, <1>10
<1> HIDE DEF size
<1> QED BY <1>1, <1>2, <1>7, <1>11

\* The worker's chunk, in a step of another thread.
LEMMA ChunkStays ==
  ASSUME NEW v \in WorkerId, worker'[v] = worker[v]
  PROVE  Chunk(v)' = Chunk(v)
  BY DEF Chunk, At

\* Where a step of a worker leaves the range and the call alone.
WorkerFrame(w) ==
  /\ w \in Workers /\ Workers' = Workers /\ First' = First /\ Last' = Last
  /\ \A v \in Workers : v # w => worker'[v] = worker[v] /\ Chunk(v)' = Chunk(v) /\ At(v)' = At(v)
  /\ caller'.call = caller.call /\ (InBarrier' <=> InBarrier) /\ wanted' = wanted
  /\ caller'.at = caller.at \/ (caller.at = "blocked" /\ caller'.at = "barrier")

LEMMA WorkerLeavesRest ==
  ASSUME ThreadInv, NEW w \in WorkerId, WorkerStep(w)
  PROVE  WorkerFrame(w)
<1> USE DEF ThreadInv, ThreadTypeOK
<1>1. w \in Workers
  BY DEF WorkerStep, Report, Resume, RunOnce, Reserve, RunTask, CastInv, At
<1>2. UNCHANGED <<num_worker_threads, worker_start_command, wanted>>
  BY DEF WorkerStep, Report, Resume, RunOnce, Reserve, RunTask, clientVars, Called
<1>3. \A v \in WorkerId : v # w => worker'[v] = worker[v]
  BY DEF WorkerStep, Report, Resume, RunOnce, Reserve, RunTask, Moves
<1>4. caller' = caller \/ (caller.at = "blocked" /\ caller' = [caller EXCEPT !.at = "barrier"])
  BY DEF WorkerStep, Report, Resume, RunOnce, Reserve, RunTask, CallerAt
<1>5. \A v \in Workers : v # w => worker'[v] = worker[v] /\ Chunk(v)' = Chunk(v) /\ At(v)' = At(v)
  BY <1>3, ChunkStays, WorkersFinite DEF At
<1> QED BY <1>1, <1>2, <1>4, <1>5 DEF WorkerFrame, Workers, First, Last, InBarrier

\* The values of a call of Run, in a step of a worker.
LEMMA ChunkWorkerStep ==
  ASSUME NoWrap, RunInv, NEW w \in WorkerId, WorkerStep(w)
  PROVE  ChunkInv'
<1> USE DEF RunInv, SafeInv, ThreadInv, ThreadTypeOK
<1> SUFFICES ASSUME InRunCall' PROVE ChunkInv'
  BY DEF ChunkInv, InRunCall
<1>1. WorkerFrame(w)
  BY WorkerLeavesRest
<1>2. InRunCall
  BY <1>1 DEF InRunCall, WorkerFrame
<1>3. First \in Nat /\ Last \in Nat /\ num_reserved \in Nat
  BY <1>2, RangeOfCall, RunnerAssumption DEF Task
<1>4. /\ First < Last /\ wanted = First .. Last - 1
      /\ caller.at = "notify" => num_reserved = 0
      /\ \A v \in Workers : Chunk(v) \subseteq First .. Reserved - 1 /\ Chunk(v) \subseteq wanted
      /\ \A u, v \in Workers : u # v => Chunk(u) \cap Chunk(v) = {}
      /\ \A t \in wanted :
           ran[t] = IF t < Reserved /\ (\A v \in Workers : t \notin Chunk(v)) THEN 1 ELSE 0
      /\ InBarrier => \A v \in Workers : At(v) \in {"report", "wait"} => Reserved >= Last
  BY <1>2 DEF ChunkInv, InRunCall
<1>5. caller'.at # "notify"
  <2>1. caller.at # "notify"
    BY <1>1 DEF ReadyInv, WorkerFrame, WorkerStep, Report, Resume, RunOnce, Reserve, RunTask, At
  <2> QED BY <1>1, <2>1 DEF WorkerFrame
<1>6. ASSUME Chunk(w) = {}, Chunk(w)' = {}, UNCHANGED <<num_reserved, ran>>,
             At(w)' \in {"report", "wait"} => Reserved >= Last
      PROVE  ChunkInv'
  <2>1. \A v \in Workers : Chunk(v)' = Chunk(v)
    BY <1>1, <1>6 DEF WorkerFrame
  <2>2. Reserved' = Reserved
    BY <1>1, <1>6 DEF Reserved, WorkerFrame
  <2>3. \A v \in Workers : At(v)' \in {"report", "wait"} =>
          v = w \/ At(v) \in {"report", "wait"}
    BY <1>1 DEF WorkerFrame
  <2> QED BY <1>1, <1>4, <1>5, <1>6, <2>1, <2>2, <2>3 DEF ChunkInv, WorkerFrame
<1>7. CASE Report(w)
  <2>1. At(w) = "report" /\ At(w)' = "wait" /\ UNCHANGED <<num_reserved, ran>>
    BY <1>7 DEF Report, Moves, At, clientVars
  <2>2. InBarrier
    BY <1>1, <1>2, <2>1 DEF ReadyInv, WorkerFrame, InRunCall, InBarrier
  <2> QED BY <1>1, <1>4, <1>6, <2>1, <2>2 DEF Chunk, WorkerFrame
<1>8. CASE Resume(w)
  <2>1. worker_start_command \notin {kWorkerWait, kWorkerOnce, kWorkerExit}
    BY <1>2, CommandType DEF CommandInv, InRunCall
  <2>2. At(w) = "woken" /\ At(w)' = "reserve" /\ UNCHANGED <<num_reserved, ran>>
    BY <1>8, <2>1 DEF Resume, Resumed, At, clientVars
  <2> QED BY <1>6, <2>2 DEF Chunk
<1>9. CASE RunOnce(w)
  <2>1. caller.call = "each"
    BY <1>1, <1>9 DEF RunOnce, CommandInv, WorkerFrame, At
  <2> QED BY <1>2, <2>1 DEF InRunCall
<1>10. CASE Reserve(w)
  <2>1. PICK size \in 1 .. Last - First :
          /\ num_reserved' = num_reserved + size
          /\ IF Reserved >= Last
               THEN Moves(w, "report")
               ELSE worker' = [worker EXCEPT ![w].at = "run", ![w].next = Reserved,
                                 ![w].stop = Smaller(Reserved + size, Last)]
    BY <1>10, ReserveExact
  <2>2. At(w) = "reserve" /\ Chunk(w) = {} /\ ran' = ran
    BY <1>10 DEF Reserve, Chunk, At, clientVars
  <2>3. Reserved' = Reserved + size /\ Reserved \in Nat /\ size \in Nat \ {0} /\ First <= Reserved
    BY <1>1, <1>3, <2>1 DEF Reserved, WorkerFrame
  <2>4. CASE Reserved >= Last
    <3>1. Chunk(w)' = {}
      BY <2>1, <2>4 DEF Moves, Chunk, At
    <3>2. \A v \in Workers : Chunk(v)' = Chunk(v)
      BY <1>1, <2>2, <3>1 DEF WorkerFrame
    <3>3. Reserved' >= Last /\ \A t \in wanted : t < Reserved /\ t < Reserved'
      BY <1>3, <1>4, <2>3, <2>4
    <3>4. \A v \in Workers : Chunk(v)' \subseteq First .. Reserved' - 1
      BY <1>3, <1>4, <2>3, <3>2
    <3> QED BY <1>1, <1>4, <1>5, <2>2, <3>2, <3>3, <3>4 DEF ChunkInv, WorkerFrame
  <2>5. CASE Reserved < Last
    <3> DEFINE last == Smaller(Reserved + size, Last)
    <3>1. last \in Nat /\ last <= Last /\ last <= Reserved'
      BY <1>3, <2>3 DEF Smaller
    <3>2. Chunk(w)' = Reserved .. last - 1 /\ At(w)' = "run"
      BY <2>1, <1>3, <2>3, <2>5 DEF Chunk, At
    <3>3. \A t \in wanted : (t < Reserved' <=> t < Reserved \/ t \in Reserved .. last - 1)
      BY <1>3, <1>4, <2>3, <2>5 DEF Smaller
    <3> HIDE DEF last
    <3>4. \A v \in Workers : v # w => Chunk(v)' = Chunk(v)
      BY <1>1 DEF WorkerFrame
    <3>5. \A v \in Workers : Chunk(v)' \subseteq First .. Reserved' - 1 /\ Chunk(v)' \subseteq wanted
      BY <1>3, <1>4, <2>3, <3>1, <3>2, <3>4
    <3>6. \A v \in Workers : Chunk(v) \cap (Reserved .. last - 1) = {}
      BY <1>3, <1>4, <2>3
    <3>7. \A u, v \in Workers : u # v => Chunk(u)' \cap Chunk(v)' = {}
      <4> SUFFICES ASSUME NEW u \in Workers, NEW v \in Workers, u # v
                   PROVE  Chunk(u)' \cap Chunk(v)' = {}
        OBVIOUS
      <4>1. CASE u # w /\ v # w
        BY <1>4, <3>4, <4>1
      <4>2. CASE u = w
        BY <3>2, <3>4, <3>6, <4>2
      <4>3. CASE v = w
        BY <3>2, <3>4, <3>6, <4>3
      <4> QED BY <4>1, <4>2, <4>3
    <3>8. \A t \in wanted :
            ran'[t] = IF t < Reserved' /\ (\A v \in Workers : t \notin Chunk(v)') THEN 1 ELSE 0
      <4> SUFFICES ASSUME NEW t \in wanted
                   PROVE  (t < Reserved' /\ \A v \in Workers : t \notin Chunk(v)')
                          <=> (t < Reserved /\ \A v \in Workers : t \notin Chunk(v))
        BY <1>4, <2>2
      <4>1. t \in Reserved .. last - 1 => t \in Chunk(w)' /\ ~ (t < Reserved)
        BY <3>2, <2>3, <3>1
      <4> QED BY <1>1, <2>2, <3>2, <3>3, <3>4, <4>1 DEF WorkerFrame
    <3>9. InBarrier' => \A v \in Workers : At(v)' \in {"report", "wait"} => Reserved' >= Last
      BY <1>1, <1>3, <1>4, <2>3, <3>2 DEF WorkerFrame
    <3> QED BY <1>1, <1>4, <1>5, <3>5, <3>7, <3>8, <3>9 DEF ChunkInv, WorkerFrame
  <2> QED BY <1>3, <2>3, <2>4, <2>5
<1>11. CASE RunTask(w)
  <2> DEFINE t0 == worker[w].next
  <2>1. /\ At(w) = "run" /\ t0 \in Nat /\ worker[w].stop \in Nat /\ t0 < worker[w].stop
        /\ UNCHANGED num_reserved /\ ran' = [ran EXCEPT ![t0] = @ + 1]
    BY <1>1, <1>11, RunnerAssumption DEF RunTask, CommandInv, WorkerFrame, At, Called
  <2>2. worker' = [worker EXCEPT ![w].next = t0 + 1,
                     ![w].at = IF t0 + 1 = worker[w].stop THEN "reserve" ELSE "run"]
    BY <1>11 DEF RunTask
  <2>3. Chunk(w) = t0 .. worker[w].stop - 1 /\ Chunk(w)' = Chunk(w) \ {t0} /\ t0 \in Chunk(w)
    BY <2>1, <2>2 DEF Chunk, At
  <2>4. At(w)' \in {"reserve", "run"}
    BY <2>2 DEF At
  <2>5. Reserved' = Reserved
    BY <1>1, <2>1 DEF Reserved, WorkerFrame
  <2>6. t0 \in wanted /\ t0 < Reserved /\ \A v \in Workers : v # w => t0 \notin Chunk(v)
    BY <1>1, <1>3, <1>4, <2>3 DEF WorkerFrame, Reserved
  <2> HIDE DEF t0
  <2>7. \A t \in wanted :
          ran'[t] = IF t < Reserved' /\ (\A v \in Workers : t \notin Chunk(v)') THEN 1 ELSE 0
    <3> SUFFICES ASSUME NEW t \in wanted
                 PROVE  ran'[t] = IF t < Reserved' /\ (\A v \in Workers : t \notin Chunk(v)') THEN 1 ELSE 0
      OBVIOUS
    <3>1. t \in Task
      BY DEF HistoryOK
    <3>2. CASE t = t0
      <4>1. ran'[t] = 1
        BY <1>1, <1>4, <2>1, <2>3, <2>6, <3>1, <3>2 DEF HistoryOK, WorkerFrame
      <4>2. \A v \in Workers : t \notin Chunk(v)'
        BY <1>1, <2>3, <2>6, <3>2 DEF WorkerFrame
      <4> QED BY <2>5, <2>6, <3>2, <4>1, <4>2
    <3>3. CASE t # t0
      <4>1. ran'[t] = ran[t]
        BY <2>1, <3>1, <3>3 DEF HistoryOK
      <4>2. \A v \in Workers : t \in Chunk(v)' <=> t \in Chunk(v)
        BY <1>1, <2>3, <3>3 DEF WorkerFrame
      <4> QED BY <1>4, <2>5, <4>1, <4>2
    <3> QED BY <3>2, <3>3
  <2>8. \A v \in Workers : Chunk(v)' \subseteq Chunk(v)
    BY <1>1, <2>3 DEF WorkerFrame
  <2>9. \A v \in Workers : At(v)' \in {"report", "wait"} => At(v) \in {"report", "wait"}
    BY <1>1, <2>4 DEF WorkerFrame
  <2> QED BY <1>1, <1>4, <1>5, <2>5, <2>7, <2>8, <2>9 DEF ChunkInv, WorkerFrame
<1> QED BY <1>7, <1>8, <1>9, <1>10, <1>11 DEF WorkerStep

\* What the owner does inside a call leaves ran alone but for the values it
\* calls the function for itself.
LEMMA ChunkCallerStep ==
  ASSUME NoWrap, RunInv, CallerCall \/ CallerStep \/ Reenter
  PROVE  ChunkInv'
<1> USE DEF RunInv, SafeInv, ThreadInv, ThreadTypeOK
<1>1. ASSUME NEW range \in Ranges, Run(range)
      PROVE  ChunkInv'
  <2>1. /\ First' = range[1] /\ Last' = range[2] /\ num_reserved' = 0 /\ Workers' = Workers
        /\ wanted' = range[1] .. range[2] - 1 /\ ran' = [t \in Task |-> 0]
    BY <1>1 DEF Run, StartWorkers, RunCommand, Ask, Values, First, Last, Workers
  <2>2. range[1] \in Nat /\ range[2] \in Nat /\ range[1] < range[2] /\ Reserved' = range[1]
    BY <1>1, <2>1, RangeType, RunnerAssumption DEF Run, Task, Reserved
  <2>3. \A v \in Workers : Chunk(v)' = {}
    BY <1>1 DEF Run, StartWorkers, ReadyInv, Chunk, At
  <2>4. \A t \in wanted' : ran'[t] = 0 /\ ~ (t < Reserved')
    BY <2>1, <2>2, RangeType DEF Values
  <2>5. ~ InBarrier'
    BY <1>1 DEF Run, CallerIn, InBarrier
  <2>6. Workers' # {}
    <3>1. num_worker_threads > 0 /\ num_worker_threads \in Nat
      BY <1>1, RunnerAssumption DEF Run
    <3>2. 0 \in Workers
      BY ONLY <3>1 DEF Workers
    <3> QED BY <2>1, <3>2
  <2> QED BY <2>1, <2>2, <2>3, <2>4, <2>5, <2>6 DEF ChunkInv
<1>2. CASE NotifyWorkers
  <2>1. UNCHANGED <<num_worker_threads, worker_start_command, num_reserved, wanted, ran>>
        /\ caller'.call = caller.call /\ caller.at = "notify"
    BY <1>2 DEF NotifyWorkers, CallerAt, clientVars
  <2>2. \A v \in Workers : Chunk(v)' = Chunk(v) /\ At(v)' = "woken"
    BY <1>2, WorkersFinite DEF NotifyWorkers, ReadyInv, Chunk, At
  <2>3. Workers' = Workers /\ First' = First /\ Last' = Last /\ Reserved' = Reserved
    BY <2>1 DEF Workers, First, Last, Reserved
  <2>4. caller'.at # "notify"
    BY <1>2 DEF NotifyWorkers, CallerAt
  <2> QED BY <2>1, <2>2, <2>3, <2>4 DEF ChunkInv
<1>3. CASE AwaitWorkers \/ Reenter
  <2>1. UNCHANGED <<num_worker_threads, worker_start_command, num_reserved, worker, wanted, ran>>
    BY <1>3 DEF AwaitWorkers, Reenter, clientVars
  <2>2. /\ caller'.call = caller.call /\ (InBarrier' <=> InBarrier)
        /\ InRunCall' <=> InRunCall
        /\ caller'.at = "notify" => caller.at = "notify"
    BY <1>3 DEF AwaitWorkers, Reenter, CallerAt, InBarrier, InRunCall
  <2> QED BY <2>1, <2>2 DEF ChunkInv, Workers, First, Last, Reserved, Chunk, At, InRunCall
<1>4. ASSUME ~ \E range \in Ranges : Run(range), ~ NotifyWorkers, ~ AwaitWorkers, ~ Reenter
      PROVE  ~ InRunCall'
  <2>1. ASSUME NEW n \in 0 .. MaxWorkers, Create(n) PROVE ~ InRunCall'
    BY <2>1 DEF Create, CallerIn, InRunCall
  <2>2. ASSUME NEW range \in Ranges, RunAlone(range) PROVE ~ InRunCall'
    BY <2>2 DEF RunAlone, CallerIn, InRunCall
  <2>3. CASE RunOnEachThread \/ Destroy
    BY <2>3 DEF RunOnEachThread, Destroy, CallerIn, InRunCall
  <2>4. CASE RunTaskAlone
    BY <2>4 DEF RunTaskAlone, threadVars, InRunCall
  <2>5. CASE ReturnAlone \/ PassBarrier \/ Join
    BY <2>5 DEF ReturnAlone, PassBarrier, Join, CallerIn, CallerAt, InRunCall
  <2> QED BY <1>4, <2>1, <2>2, <2>3, <2>4, <2>5 DEF CallerCall, CallerStep
<1>5. ~ InRunCall' => ChunkInv'
  BY DEF InRunCall, ChunkInv
<1> QED BY <1>1, <1>2, <1>3, <1>4, <1>5

\* How far the counter of reserved values goes.
LEMMA ReservedStep ==
  ASSUME NoWrap, RunInv, ThreadNext
  PROVE  ReservedInv'
<1> USE DEF RunInv, SafeInv, ThreadInv, ThreadTypeOK
<1> SUFFICES ASSUME caller'.call = "run", InBarrier' PROVE ReservedInv'
  BY DEF ReservedInv
<1>1. CASE NotifyWorkers
  <2>1. InRunCall /\ caller.at = "notify"
    BY <1>1 DEF NotifyWorkers, CallerAt, InRunCall
  <2>2. num_reserved' = 0 /\ First' = First /\ Last' = Last /\ TurnedAway' = {}
    <3>1. \A v \in Workers : At(v)' = "woken"
      BY <1>1, WorkersFinite DEF NotifyWorkers, ReadyInv, At
    <3> QED BY <1>1, <2>1, <3>1 DEF NotifyWorkers, ChunkInv, InRunCall, First, Last, TurnedAway, Workers
  <2>3. First \in Nat /\ Last \in Nat /\ First < Last
    BY <2>1, RangeOfCall, RunnerAssumption DEF ChunkInv, InRunCall, Task
  <2>4. Cardinality(TurnedAway') = 0
    BY <2>2, FS_EmptySet
  <2> QED BY <2>2, <2>3, <2>4 DEF ReservedInv
<1>2. CASE AwaitWorkers \/ Reenter
  <2>1. UNCHANGED <<num_worker_threads, worker_start_command, num_reserved, worker>>
        /\ caller'.call = caller.call /\ (InBarrier' <=> InBarrier)
    BY <1>2 DEF AwaitWorkers, Reenter, CallerAt, InBarrier
  <2> QED BY <2>1 DEF ReservedInv, First, Last, TurnedAway, Workers, At
<1>3. ASSUME NEW w \in WorkerId, WorkerStep(w) PROVE ReservedInv'
  <2>1. WorkerFrame(w)
    BY <1>3, WorkerLeavesRest
  <2>2. InBarrier /\ caller.call = "run" /\ InRunCall
    BY <2>1 DEF WorkerFrame, InRunCall, InBarrier
  <2> DEFINE R == Last - First
             c == Cardinality(TurnedAway)
  <2>3. R \in Nat /\ R > 0 /\ num_reserved \in Nat
    BY <2>2, RangeOfCall, RunnerAssumption DEF ChunkInv, InRunCall, Task
  <2>4. IsFiniteSet(TurnedAway) /\ c \in Nat
    BY WorkersFinite, FS_CardinalityType DEF TurnedAway
  <2>5. num_reserved <= R + R * (c + 1)
    BY <2>2 DEF ReservedInv
  <2>6. First' = First /\ Last' = Last
    BY <2>1 DEF WorkerFrame
  <2>7. CASE UNCHANGED num_reserved
    <3>1. TurnedAway \subseteq TurnedAway'
      <4>1. ~ (At(w) \in {"report", "wait"}) \/ At(w)' \in {"report", "wait"}
        BY <1>3, WorkersFinite DEF WorkerStep, Report, Resume, RunOnce, Reserve, RunTask, Moves, At
      <4> QED BY <2>1, <4>1 DEF TurnedAway, WorkerFrame
    <3>2. IsFiniteSet(TurnedAway') /\ TurnedAway' \subseteq Workers
      BY <2>1, WorkersFinite DEF TurnedAway, WorkerFrame
    <3>3. Cardinality(TurnedAway') \in Nat /\ c <= Cardinality(TurnedAway')
      BY <3>1, <3>2, FS_Subset, FS_CardinalityType
    <3>4. R * (c + 1) <= R * (Cardinality(TurnedAway') + 1)
      BY <2>3, <2>4, <3>3
    <3>5. R * (c + 1) \in Nat /\ R * (Cardinality(TurnedAway') + 1) \in Nat
      BY <2>3, <2>4, <3>3
    <3>6. num_reserved' <= R + R * (Cardinality(TurnedAway') + 1)
      BY <2>3, <2>5, <2>7, <3>4, <3>5
    <3> QED BY <2>6, <3>6 DEF ReservedInv
  <2>8. CASE Reserve(w)
    <3>1. PICK size \in 1 .. R :
            /\ num_reserved' = num_reserved + size
            /\ IF Reserved >= Last
                 THEN Moves(w, "report")
                 ELSE worker' = [worker EXCEPT ![w].at = "run", ![w].next = Reserved,
                                   ![w].stop = Smaller(Reserved + size, Last)]
      BY <2>8, ReserveExact
    <3>2. w \notin TurnedAway
      BY <2>8, ReserveExact
    <3>3. CASE Reserved >= Last
      <4>1. TurnedAway' = TurnedAway \cup {w}
        BY <2>1, <3>1, <3>3, WorkersFinite DEF TurnedAway, WorkerFrame, Moves, At
      <4>2. Cardinality(TurnedAway') = c + 1
        BY <2>4, <3>2, <4>1, FS_AddElement
      <4>3. R * (c + 1 + 1) = R * (c + 1) + R
        BY <2>3, <2>4
      <4>4. R * (c + 1) \in Nat
        BY <2>3, <2>4
      <4>5. num_reserved' <= R + R * (Cardinality(TurnedAway') + 1)
        BY <2>3, <2>5, <3>1, <4>2, <4>3, <4>4
      <4> QED BY <2>6, <4>5 DEF ReservedInv
    <3>4. CASE ~ (Reserved >= Last)
      <4>1. TurnedAway' = TurnedAway
        BY <2>1, <3>1, <3>2, <3>4, WorkersFinite DEF TurnedAway, WorkerFrame, At
      <4>2. num_reserved < R
        BY <2>2, <2>3, <3>4, RangeOfCall, RunnerAssumption DEF Reserved, Task
      <4>3. R * (c + 1) = R * c + R /\ R * c \in Nat
        BY <2>3, <2>4
      <4>4. num_reserved' <= R + R * (Cardinality(TurnedAway') + 1)
        BY <2>3, <3>1, <4>1, <4>2, <4>3
      <4> QED BY <2>6, <4>4 DEF ReservedInv
    <3> QED BY <3>3, <3>4
  <2> QED BY <1>3, <2>7, <2>8 DEF WorkerStep, Report, Resume, RunOnce, RunTask
<1> QED BY <1>1, <1>2, <1>3
        DEF ThreadNext, CallerCall, CallerStep, Create, Run, RunAlone, RunOnEachThread, Destroy, RunTaskAlone,
            ReturnAlone, PassBarrier, Join, CallerIn, CallerAt, threadVars, InBarrier, AloneInv

\* The function that runs on every thread.
InEachCall == caller.call = "each" /\ caller.at \in {"notify", "barrier", "blocked"}

LEMMA EachStep ==
  ASSUME RunInv, ThreadNext
  PROVE  EachInv' /\ AloneInv'
<1> USE DEF RunInv, SafeInv, ThreadInv, ThreadTypeOK
<1>1. AloneInv'
  <2>1. ASSUME NEW range \in Ranges, RunAlone(range) PROVE AloneInv'
    BY <2>1 DEF AloneInv, RunAlone, CallerIn
  <2>2. CASE RunOnEachThread
    BY <2>2 DEF AloneInv, RunOnEachThread, CallerIn
  <2>3. CASE RunTaskAlone \/ Reenter
    BY <2>3 DEF AloneInv, RunTaskAlone, Reenter, threadVars
  <2>4. ASSUME NEW w \in WorkerId, WorkerStep(w) PROVE AloneInv'
    BY <2>4, WorkerLeavesRest DEF AloneInv, WorkerFrame
  <2>5. ASSUME NEW range \in Ranges, Run(range) PROVE AloneInv'
    BY <2>5 DEF AloneInv, Run, CallerIn
  <2>6. ASSUME NEW n \in 0 .. MaxWorkers, Create(n) PROVE AloneInv'
    BY <2>6 DEF AloneInv, Create, CallerIn
  <2>7. CASE Destroy \/ Join
    BY <2>7 DEF AloneInv, Destroy, Join, CallerIn
  <2>8. CASE ReturnAlone \/ NotifyWorkers \/ AwaitWorkers \/ PassBarrier
    BY <2>8 DEF AloneInv, ReturnAlone, NotifyWorkers, AwaitWorkers, PassBarrier, CallerAt
  <2> QED BY <2>1, <2>2, <2>3, <2>4, <2>5, <2>6, <2>7, <2>8 DEF ThreadNext, CallerCall, CallerStep
<1> SUFFICES ASSUME InEachCall' PROVE EachInv'
  BY <1>1 DEF EachInv, InEachCall
<1>2. CASE RunOnEachThread
  <2>1. num_worker_threads > 0 /\ wanted' = Workers /\ ran' = [t \in Task |-> 0] /\ Workers' = Workers
        /\ ~ InBarrier'
    BY <1>2 DEF RunOnEachThread, InEachCall, CallerIn, StartWorkers, Ask, InBarrier, Workers
  <2>2. Workers \subseteq Task
    BY WorkersFinite, CrewFinite
  <2> QED BY <2>1, <2>2 DEF EachInv
<1>3. CASE NotifyWorkers
  <2>1. InEachCall /\ ~ InBarrier /\ UNCHANGED <<wanted, ran>> /\ Workers' = Workers
    BY <1>3 DEF NotifyWorkers, CallerAt, InEachCall, InBarrier, clientVars, Workers
  <2>2. \A v \in Workers : At(v)' = "woken"
    BY <1>3, WorkersFinite DEF NotifyWorkers, ReadyInv, At
  <2> QED BY <2>1, <2>2 DEF EachInv, InEachCall
<1>4. CASE AwaitWorkers \/ Reenter
  <2>1. UNCHANGED <<num_worker_threads, worker, wanted, ran>>
    BY <1>4 DEF AwaitWorkers, Reenter, clientVars
  <2>2. (InBarrier' <=> InBarrier) /\ (InEachCall' <=> InEachCall)
    BY <1>4 DEF AwaitWorkers, Reenter, CallerAt, InBarrier, InEachCall
  <2> QED BY <2>1, <2>2 DEF EachInv, InEachCall, Workers, At
<1>5. ASSUME NEW w \in WorkerId, WorkerStep(w) PROVE EachInv'
  <2>1. WorkerFrame(w)
    BY <1>5, WorkerLeavesRest
  <2>2. InEachCall
    BY <2>1 DEF WorkerFrame, InEachCall
  <2>3. wanted = Workers /\ \A v \in Workers :
          ran[v] = IF InBarrier /\ At(v) \in {"report", "wait"} THEN 1 ELSE 0
    BY <2>2 DEF EachInv, InEachCall
  <2>4. CASE Report(w) \/ Resume(w)
    <3>1. ran' = ran
      BY <2>4 DEF Report, Resume, clientVars
    <3>2. At(w) \in {"report", "wait"} <=> At(w)' \in {"report", "wait"}
      <4>1. CASE Report(w)
        BY <2>1, <4>1, WorkersFinite DEF Report, Moves, At, WorkerFrame
      <4>2. CASE Resume(w)
        <5>1. worker_start_command = kWorkerOnce
          BY <2>2 DEF CommandInv, InEachCall
        <5> QED BY <2>1, <4>2, <5>1, CommandType DEF Resume, Resumed, At, WorkerFrame
      <4> QED BY <2>4, <4>1, <4>2
    <3> QED BY <2>1, <2>3, <3>1, <3>2 DEF EachInv, WorkerFrame
  <2>5. CASE RunOnce(w)
    <3>1. At(w) = "once" /\ At(w)' = "report" /\ ran' = [ran EXCEPT ![w] = @ + 1]
      BY <2>1, <2>5 DEF RunOnce, Moves, At, Called, WorkerFrame
    <3>2. InBarrier
      BY <2>1, <3>1 DEF CommandInv, WorkerFrame
    <3>3. ran'[w] = 1 /\ \A v \in Workers : v # w => ran'[v] = ran[v]
      BY <2>1, <2>3, <3>1, WorkersFinite, CrewFinite DEF HistoryOK, WorkerFrame
    <3> QED BY <2>1, <2>3, <3>1, <3>2, <3>3 DEF EachInv, WorkerFrame
  <2>6. CASE Reserve(w) \/ RunTask(w)
    BY <2>1, <2>2, <2>6 DEF Reserve, RunTask, CommandInv, InEachCall, WorkerFrame, At
  <2> QED BY <1>5, <2>4, <2>5, <2>6 DEF WorkerStep
<1>6. ASSUME ~ RunOnEachThread, ~ NotifyWorkers, ~ AwaitWorkers, ~ Reenter,
             CallerCall \/ CallerStep
      PROVE  FALSE
  <2>1. ASSUME NEW n \in 0 .. MaxWorkers, Create(n) PROVE FALSE
    BY <2>1 DEF Create, CallerIn, InEachCall
  <2>2. ASSUME NEW range \in Ranges, Run(range) \/ RunAlone(range) PROVE FALSE
    BY <2>2 DEF Run, RunAlone, CallerIn, InEachCall
  <2>3. CASE Destroy
    BY <2>3 DEF Destroy, CallerIn, InEachCall
  <2>4. CASE RunTaskAlone
    BY <2>4 DEF RunTaskAlone, threadVars, InEachCall
  <2>5. CASE ReturnAlone \/ PassBarrier \/ Join
    BY <2>5 DEF ReturnAlone, PassBarrier, Join, CallerIn, CallerAt, InEachCall
  <2> QED BY <1>6, <2>1, <2>2, <2>3, <2>4, <2>5 DEF CallerCall, CallerStep
<1> QED BY <1>2, <1>3, <1>4, <1>5, <1>6 DEF ThreadNext

\* The thread runner, whichever runner takes the step.
LEMMA RunStep ==
  ASSUME NoWrap, RunInv, [Next]_vars
  PROVE  RunInv'
<1>1. SafeInv' /\ OneInv'
  <2>1. OneInv /\ UNCHANGED vars => OneInv'
    BY DEF OneInv, vars, poolVars, threadVars
  <2> QED BY <2>1, SafeStep, OneStep DEF RunInv
<1>2. CASE ThreadRuns
  <2>1. ChunkInv'
    BY <1>2, ChunkWorkerStep, ChunkCallerStep DEF ThreadRuns, ThreadNext
  <2> QED BY <1>1, <1>2, <2>1, ReservedStep, EachStep DEF RunInv, ThreadRuns
<1>3. CASE PoolRuns
  <2>1. caller'.at = "none"
    BY <1>1, <1>3 DEF OneInv, PoolRuns, RunInv
  <2> QED BY <1>1, <2>1 DEF RunInv, ChunkInv, ReservedInv, EachInv, AloneInv, InBarrier
<1>4. CASE UNCHANGED vars
  <2>1. UNCHANGED <<num_worker_threads, worker_start_command, num_reserved, caller, worker, wanted, ran>>
    BY <1>4 DEF vars, threadVars, clientVars
  <2> QED BY <1>1, <2>1 DEF RunInv, ChunkInv, ReservedInv, EachInv, AloneInv, InBarrier, TurnedAway, Workers,
             First, Last, Reserved, Chunk, At
<1> QED BY <1>2, <1>3, <1>4 DEF Next

-----------------------------------------------------------------------------
(* The resizable runner: values ahead, held by a thread, and done.         *)

TakeInv == SafeInv /\ OneInv /\ TaskInv /\ PassedInv /\ RoomInv /\ SingleInv

CallsIn(w) == member[w].at = "call"
Finishing == owner.at \in {"leave", "await", "blocked"}

LEMMA PoolNumbers ==
  ASSUME SafeInv
  PROVE  /\ MaxWorkers \in Nat /\ TaskLimit \in Nat \ {0} /\ Task \subseteq Nat
         /\ next_task \in Nat /\ end_task \in Nat
         /\ IsFiniteSet(FoundNothing) /\ Cardinality(FoundNothing) \in 0 .. MaxWorkers
         /\ \A w \in WorkerId : w \notin FoundNothing => Cardinality(FoundNothing) < MaxWorkers
<1>1. MaxWorkers \in Nat /\ TaskLimit \in Nat \ {0} /\ Task \subseteq Nat
  BY RunnerAssumption DEF Task
<1>2. next_task \in Nat /\ end_task \in Nat
  BY <1>1 DEF SafeInv, PoolInv, PoolTypeOK
<1>3. FoundNothing \in SUBSET WorkerId
  BY DEF FoundNothing
<1>4. IsFiniteSet(FoundNothing) /\ Cardinality(FoundNothing) \in 0 .. MaxWorkers
  BY <1>3, CrewFinite
<1>5. ASSUME NEW w \in WorkerId, w \notin FoundNothing
      PROVE  Cardinality(FoundNothing) < MaxWorkers
  <2>1. FoundNothing \subseteq WorkerId \ {w}
    BY <1>3, <1>5
  <2>2. IsFiniteSet(WorkerId \ {w}) /\ Cardinality(WorkerId \ {w}) = MaxWorkers - 1
    BY CrewFinite, FS_RemoveElement
  <2>3. Cardinality(FoundNothing) <= Cardinality(WorkerId \ {w})
    BY <2>1, <2>2, FS_Subset
  <2> QED BY <1>1, <1>4, <2>2, <2>3
<1> QED BY <1>1, <1>2, <1>4, <1>5

\* Taking a value never wraps the counter around.
LEMMA TakesExact ==
  ASSUME TakeInv, OwnerTakes \/ \E w \in WorkerId : WorkerTakes(w)
  PROVE  next_task' = next_task + 1 /\ InRange
<1>1. InRange
  BY DEF TakeInv, OwnerTakes, WorkerTakes, SafeInv, PoolInv, RunningInv, Joined, Working, InRange, OwnerWorks,
         PoolTypeOK, OwnerPlaces
<1>2. next_task' = AddTask(next_task, 1)
  BY DEF OwnerTakes, WorkerTakes
<1>3. end_task + MaxWorkers + 1 < TaskLimit
  BY <1>1 DEF TakeInv, RoomInv
<1>4. next_task <= end_task + MaxWorkers
  <2>1. CASE OwnerTakes
    <3>1. ~ Finishing
      BY <2>1 DEF OwnerTakes, Finishing
    <3>2. next_task > end_task => next_task <= end_task + Cardinality(FoundNothing)
      BY <1>1, <3>1, PoolNumbers DEF TakeInv, PassedInv, Finishing
    <3> QED BY <3>2, PoolNumbers DEF TakeInv
  <2>2. ASSUME NEW w \in WorkerId, WorkerTakes(w) PROVE next_task <= end_task + MaxWorkers
    <3>1. w \notin FoundNothing
      BY <2>2 DEF WorkerTakes, FoundNothing
    <3>2. next_task > end_task => next_task <= end_task + Cardinality(FoundNothing) + 1
      BY <1>1, PoolNumbers DEF TakeInv, PassedInv
    <3> QED BY <3>1, <3>2, PoolNumbers DEF TakeInv
  <2> QED BY <2>1, <2>2
<1>5. next_task + 1 < TaskLimit
  BY <1>3, <1>4, PoolNumbers DEF TakeInv
<1> QED BY <1>1, <1>2, <1>5, PoolNumbers, AddTaskType DEF TakeInv

\* Steps that take no value, finish none, and stay within the call.
TaskFrame ==
  /\ UNCHANGED <<next_task, end_task, wanted, ran>>
  /\ InRange' => InRange
  /\ owner'.at = "call" <=> owner.at = "call"
  /\ owner'.at = "call" => owner'.task = owner.task
  /\ \A w \in WorkerId : CallsIn(w)' <=> CallsIn(w)
  /\ \A w \in WorkerId : CallsIn(w)' => member'[w].task = member[w].task
  /\ InRange' /\ Finishing' => Finishing

LEMMA TaskStays ==
  ASSUME TakeInv, TaskFrame
  PROVE  TaskInv' /\ RoomInv'
<1>1. RoomInv'
  BY DEF TakeInv, RoomInv, TaskFrame
<1> SUFFICES ASSUME InRange' PROVE TaskInv'
  BY <1>1 DEF TaskInv
<1>2. InRange
  BY DEF TaskFrame
<1>3. \A t \in wanted : Held(t)' <=> Held(t)
  BY DEF Held, TaskFrame, CallsIn
<1> QED BY <1>2, <1>3 DEF TaskInv, TaskFrame, CallsIn, Finishing, TakeInv

\* The count of those that found nothing does not go down.
LEMMA PassedStays ==
  ASSUME TakeInv, SafeInv', InRange' => InRange, UNCHANGED <<next_task, end_task>>,
         InRange => FoundNothing \subseteq FoundNothing',
         InRange' /\ Finishing => Finishing'
  PROVE  PassedInv'
<1> SUFFICES ASSUME InRange', next_task' > end_task' PROVE PassedInv'
  BY DEF PassedInv
<1>1. Cardinality(FoundNothing) <= Cardinality(FoundNothing')
  <2>1. FoundNothing \subseteq FoundNothing' /\ FoundNothing' \in SUBSET WorkerId
    BY DEF FoundNothing
  <2>2. IsFiniteSet(FoundNothing')
    BY <2>1, CrewFinite
  <2> QED BY <2>1, <2>2, FS_Subset
<1>2. Cardinality(FoundNothing') \in Nat /\ Cardinality(FoundNothing) \in Nat
      /\ next_task \in Nat /\ end_task \in Nat
  <2>1. FoundNothing' \in SUBSET WorkerId
    BY DEF FoundNothing
  <2> QED BY <2>1, CrewFinite, PoolNumbers, RunnerAssumption DEF TakeInv
<1>3. next_task <= end_task + Cardinality(FoundNothing) + (IF Finishing THEN 1 ELSE 0)
  BY DEF TakeInv, PassedInv, Finishing
<1> QED BY <1>1, <1>2, <1>3 DEF PassedInv, Finishing

\* Taking the next value, or finding nothing.
LEMMA TakeStep ==
  ASSUME TakeInv, SafeInv', OwnerTakes \/ \E w \in WorkerId : WorkerTakes(w)
  PROVE  TaskInv' /\ PassedInv' /\ RoomInv'
<1> USE DEF TakeInv, SafeInv, PoolInv, PoolTypeOK
<1>1. next_task' = next_task + 1 /\ InRange
  BY TakesExact
<1>2. UNCHANGED <<end_task, wanted, ran>>
  BY DEF OwnerTakes, WorkerTakes, clientVars
<1>3. next_task \in Nat /\ end_task \in Nat
  BY PoolNumbers
<1>4. RoomInv'
  BY <1>1, <1>2 DEF RoomInv
<1>5. /\ wanted \subseteq 0 .. end_task - 1
      /\ \A t \in next_task .. end_task - 1 : t \in wanted
      /\ \A t \in wanted : ran[t] = IF t < next_task /\ ~ Held(t) THEN 1 ELSE 0
      /\ owner.at = "call" => owner.task \in wanted /\ owner.task < next_task
      /\ \A w \in WorkerId : CallsIn(w) =>
           /\ member[w].task \in wanted /\ member[w].task < next_task
           /\ owner.at = "call" => owner.task # member[w].task
           /\ \A v \in WorkerId : v # w /\ CallsIn(v) => member[v].task # member[w].task
      /\ Finishing => next_task >= end_task
  BY <1>1 DEF TaskInv, CallsIn, Finishing
<1>6. \A t \in wanted : t \in Nat /\ t < end_task
  BY <1>3, <1>5
<1>7. \A t \in wanted : Held(t) => t < next_task
  BY <1>5 DEF Held, CallsIn
<1>8. /\ \A w \in WorkerId : CallsIn(w) => member[w].task \in Nat /\ member[w].task < next_task
      /\ owner.at = "call" => owner.task \in Nat /\ owner.task < next_task
  BY ONLY <1>5, <1>6
<1>9. CASE OwnerTakes
  <2>1. owner.at = "dequeue" /\ UNCHANGED <<member, work_available>>
        /\ owner' = Taken(owner)
    BY <1>9 DEF OwnerTakes
  <2>2. CASE next_task >= end_task
    <3>1. owner'.at = "leave" /\ Finishing'
      BY <2>1, <2>2 DEF Taken, Finishing
    <3>2. \A t \in wanted : Held(t)' <=> Held(t)
      BY <2>1, <3>1 DEF Held
    <3>3. \A t \in wanted : t < next_task /\ t < next_task'
      BY <1>1, <1>3, <1>6, <2>2
    <3>4. TaskInv'
      <4>1. \A t \in next_task' .. end_task - 1 : t \in wanted
        BY ONLY <1>1, <1>3, <2>2
      <4>2. \A t \in wanted : ran[t] = IF t < next_task' /\ ~ Held(t)' THEN 1 ELSE 0
        BY ONLY <1>5, <3>2, <3>3
      <4>3. /\ \A w \in WorkerId : CallsIn(w) => member[w].task < next_task'
            /\ owner.at = "call" => owner.task < next_task'
            /\ next_task' >= end_task
        BY ONLY <1>1, <1>3, <1>8, <2>2
      <4> QED BY ONLY <1>2, <1>5, <2>1, <3>1, <4>1, <4>2, <4>3 DEF TaskInv, CallsIn, Finishing
    <3>5. FoundNothing' = FoundNothing
      BY <2>1 DEF FoundNothing
    <3>6. next_task <= end_task + Cardinality(FoundNothing)
      BY <1>1, <1>3, <2>1, <2>2, PoolNumbers DEF PassedInv
    <3>7. PassedInv'
      BY <1>1, <1>2, <1>3, <3>1, <3>5, <3>6, PoolNumbers DEF PassedInv, Finishing
    <3> QED BY <1>4, <3>4, <3>7
  <2>3. CASE next_task < end_task
    <3>1. owner'.at = "call" /\ owner'.task = next_task /\ ~ Finishing'
      BY <1>3, <2>1, <2>3 DEF Taken, Finishing
    <3>2. next_task \in wanted
      BY <1>3, <1>5, <2>3
    <3>3. \A t \in wanted : Held(t)' <=> (Held(t) \/ t = next_task)
      BY <2>1, <3>1 DEF Held
    <3>4. \A t \in wanted : t < next_task' <=> (t < next_task \/ t = next_task)
      BY <1>1, <1>3, <1>6
    <3>5. \A w \in WorkerId : CallsIn(w) => member[w].task # next_task /\ member[w].task < next_task'
      BY ONLY <1>1, <1>3, <1>8
    <3>6. \A t \in next_task' .. end_task - 1 : t \in wanted
      BY <1>1, <1>3, <1>5
    <3>7. \A t \in wanted : ran[t] = IF t < next_task' /\ ~ Held(t)' THEN 1 ELSE 0
      BY <1>3, <1>5, <1>6, <3>3, <3>4
    <3>8. next_task < next_task'
      BY <1>1, <1>3
    <3>9. TaskInv'
      BY <1>2, <1>5, <2>1, <3>1, <3>2, <3>5, <3>6, <3>7, <3>8 DEF TaskInv, CallsIn, Finishing
    <3>10. PassedInv'
      BY <1>1, <1>2, <1>3, <2>3 DEF PassedInv
    <3> QED BY <1>4, <3>9, <3>10
  <2> QED BY <1>3, <2>2, <2>3
<1>10. ASSUME NEW u \in WorkerId, WorkerTakes(u) PROVE TaskInv' /\ PassedInv' /\ RoomInv'
  <2>1. member[u].at = "dequeue" /\ UNCHANGED <<owner, work_available>>
        /\ member' = [member EXCEPT ![u] = Taken(member[u])]
    BY <1>10 DEF WorkerTakes
  <2>2. \A v \in WorkerId : v # u => member'[v] = member[v]
    BY <2>1
  <2>3. CASE next_task >= end_task
    <3>1. member'[u].at = "leave"
      BY <2>1, <2>3 DEF Taken
    <3>2. \A t \in wanted : Held(t)' <=> Held(t)
      BY <2>1, <2>2, <3>1 DEF Held
    <3>3. \A t \in wanted : t < next_task /\ t < next_task'
      BY <1>1, <1>3, <1>6, <2>3
    <3>4. \A w \in WorkerId : CallsIn(w)' => CallsIn(w) /\ member'[w] = member[w]
      BY <2>2, <3>1 DEF CallsIn
    <3>5. TaskInv'
      <4>1. \A t \in next_task' .. end_task - 1 : t \in wanted
        BY ONLY <1>1, <1>3, <2>3
      <4>2. \A t \in wanted : ran[t] = IF t < next_task' /\ ~ Held(t)' THEN 1 ELSE 0
        BY ONLY <1>5, <3>2, <3>3
      <4>3. /\ \A w \in WorkerId : CallsIn(w) => member[w].task < next_task'
            /\ owner.at = "call" => owner.task < next_task'
            /\ next_task' >= end_task
        BY ONLY <1>1, <1>3, <1>8, <2>3
      <4> QED BY ONLY <1>2, <1>5, <2>1, <3>4, <4>1, <4>2, <4>3 DEF TaskInv, CallsIn, Finishing
    <3>6. FoundNothing' = FoundNothing \cup {u} /\ u \notin FoundNothing
      BY <2>1, <2>2, <3>1 DEF FoundNothing
    <3>7. Cardinality(FoundNothing') = Cardinality(FoundNothing) + 1
      BY <3>6, PoolNumbers, FS_AddElement
    <3>8. next_task <= end_task + Cardinality(FoundNothing) + (IF Finishing THEN 1 ELSE 0)
      BY <1>1, <1>3, <2>3, PoolNumbers DEF PassedInv, Finishing
    <3>9. PassedInv'
      BY <1>1, <1>2, <1>3, <2>1, <3>7, <3>8, PoolNumbers DEF PassedInv, Finishing
    <3> QED BY <1>4, <3>5, <3>9
  <2>4. CASE next_task < end_task
    <3>1. member'[u].at = "call" /\ member'[u].task = next_task
      BY <1>3, <2>1, <2>4 DEF Taken
    <3>2. next_task \in wanted /\ ~ Finishing
      BY <1>3, <1>5, <2>4
    <3>3. \A t \in wanted : Held(t)' <=> (Held(t) \/ t = next_task)
      BY <2>1, <2>2, <3>1 DEF Held
    <3>4. \A t \in wanted : t < next_task' <=> (t < next_task \/ t = next_task)
      BY <1>1, <1>3, <1>6
    <3>5. \A w \in WorkerId : CallsIn(w) => member[w].task # next_task /\ member[w].task < next_task'
      BY ONLY <1>1, <1>3, <1>8
    <3>6. \A t \in next_task' .. end_task - 1 : t \in wanted
      BY <1>1, <1>3, <1>5
    <3>7. \A t \in wanted : ran[t] = IF t < next_task' /\ ~ Held(t)' THEN 1 ELSE 0
      BY <1>3, <1>5, <1>6, <3>3, <3>4
    <3>8. owner.at = "call" => owner.task # next_task /\ owner.task < next_task'
      BY ONLY <1>1, <1>3, <1>8
    <3>9. \A w \in WorkerId : CallsIn(w)' => w = u \/ (CallsIn(w) /\ member'[w] = member[w])
      BY <2>2 DEF CallsIn
    <3>10. next_task < next_task'
      BY <1>1, <1>3
    <3>11. \A w \in WorkerId : CallsIn(w)' =>
             /\ member'[w].task \in wanted /\ member'[w].task < next_task'
             /\ owner.at = "call" => owner.task # member'[w].task
             /\ \A v \in WorkerId : v # w /\ CallsIn(v)' => member'[v].task # member'[w].task
      <4> SUFFICES ASSUME NEW w \in WorkerId, CallsIn(w)'
                   PROVE  /\ member'[w].task \in wanted /\ member'[w].task < next_task'
                          /\ owner.at = "call" => owner.task # member'[w].task
                          /\ \A v \in WorkerId : v # w /\ CallsIn(v)' => member'[v].task # member'[w].task
        OBVIOUS
      <4>1. CASE w = u
        BY <3>1, <3>2, <3>5, <3>8, <3>9, <3>10, <4>1
      <4>2. CASE w # u
        BY <1>5, <3>1, <3>5, <3>9, <4>2
      <4> QED BY <4>1, <4>2
    <3>12. TaskInv'
      BY <1>2, <1>5, <2>1, <3>2, <3>6, <3>7, <3>8, <3>11 DEF TaskInv, CallsIn, Finishing
    <3>13. PassedInv'
      BY <1>1, <1>2, <1>3, <2>4 DEF PassedInv
    <3> QED BY <1>4, <3>12, <3>13
  <2> QED BY <1>3, <2>3, <2>4
<1> QED BY <1>9, <1>10

\* A thread has called the function for the value it held.
LEMMA CallStep ==
  ASSUME TakeInv, SafeInv', NEW t0,
         InRange, InRange', t0 \in wanted, Held(t0), ~ Held(t0)',
         \A t \in wanted : t # t0 => (Held(t)' <=> Held(t)),
         Called(t0), UNCHANGED <<next_task, end_task>>,
         owner'.at = "call" => owner' = owner /\ owner.at = "call",
         \A w \in WorkerId : CallsIn(w)' => CallsIn(w) /\ member'[w] = member[w],
         Finishing' => Finishing
  PROVE  TaskInv'
<1>1. t0 < next_task
  BY DEF TakeInv, TaskInv, Held
<1>2. wanted' = wanted /\ ran' = [ran EXCEPT ![t0] = @ + 1]
  BY DEF Called
<1>3. \A t \in wanted : t \in Task
  BY DEF TakeInv, SafeInv, HistoryOK
<1>4. \A t \in wanted : ran'[t] = IF t < next_task /\ ~ Held(t)' THEN 1 ELSE 0
  <2> SUFFICES ASSUME NEW t \in wanted
               PROVE  ran'[t] = IF t < next_task /\ ~ Held(t)' THEN 1 ELSE 0
    OBVIOUS
  <2>1. CASE t = t0
    <3>1. ran[t0] = 0
      BY DEF TakeInv, TaskInv
    <3> QED BY <1>1, <1>2, <1>3, <2>1, <3>1 DEF TakeInv, SafeInv, HistoryOK
  <2>2. CASE t # t0
    <3>1. ran'[t] = ran[t]
      BY <1>2, <1>3, <2>2 DEF TakeInv, SafeInv, HistoryOK
    <3> QED BY <2>2, <3>1 DEF TakeInv, TaskInv
  <2> QED BY <2>1, <2>2
<1> QED BY <1>2, <1>4 DEF TakeInv, TaskInv, CallsIn, Finishing

LEMMA CallsStep ==
  ASSUME TakeInv, SafeInv', OwnerCalls \/ \E w \in WorkerId : WorkerCalls(w)
  PROVE  TaskInv' /\ PassedInv' /\ RoomInv'
<1> USE DEF TakeInv, SafeInv, PoolInv, PoolTypeOK
<1>1. CASE OwnerCalls
  <2>0. PICK t0 : t0 = owner.task
    OBVIOUS
  <2>1. owner.at = "call" /\ owner' = [owner EXCEPT !.at = "dequeue"] /\ Called(t0)
        /\ UNCHANGED <<next_task, end_task, member, work_available>>
    BY <1>1, <2>0 DEF OwnerCalls
  <2>2. InRange /\ InRange' /\ ~ Finishing /\ ~ Finishing' /\ owner'.at = "dequeue"
    BY <2>1 DEF InRange, OwnerWorks, Working, Finishing
  <2>3. t0 \in wanted /\ Held(t0)
    BY <2>0, <2>1, <2>2 DEF TaskInv, Held
  <2>4. ~ Held(t0)'
    BY <2>0, <2>1, <2>2 DEF TaskInv, Held
  <2>5. \A t \in wanted : t # t0 => (Held(t)' <=> Held(t))
    BY <2>0, <2>1, <2>2 DEF Held
  <2>6. TaskInv'
    BY <2>1, <2>2, <2>3, <2>4, <2>5, CallStep DEF CallsIn
  <2>7. FoundNothing' = FoundNothing
    BY <2>1 DEF FoundNothing
  <2> QED BY <2>1, <2>2, <2>6, <2>7, PassedStays DEF RoomInv
<1>2. ASSUME NEW w \in WorkerId, WorkerCalls(w) PROVE TaskInv' /\ PassedInv' /\ RoomInv'
  <2>0. PICK t0 : t0 = member[w].task
    OBVIOUS
  <2>1. CallsIn(w) /\ member' = [member EXCEPT ![w].at = "dequeue"] /\ Called(t0)
        /\ UNCHANGED <<next_task, end_task, owner, work_available>>
    BY <1>2, <2>0 DEF WorkerCalls, CallsIn
  <2>2. InRange
    <3>1. w \in Joined
      BY <2>1 DEF Joined, Working, CallsIn
    <3> QED BY <3>1 DEF RunningInv, InRange, OwnerWorks, Working, OwnerPlaces
  <2>3. InRange' /\ (Finishing' <=> Finishing)
    BY <2>1, <2>2 DEF InRange, OwnerWorks, Finishing
  <2>4. /\ t0 \in wanted /\ Held(t0) /\ (owner.at = "call" => owner.task # t0)
        /\ \A v \in WorkerId : v # w /\ CallsIn(v) => member[v].task # t0
    BY <2>0, <2>1, <2>2 DEF TaskInv, Held, CallsIn
  <2>5. member'[w].at = "dequeue" /\ \A v \in WorkerId : v # w => member'[v] = member[v]
    BY <2>1
  <2>6. ~ Held(t0)'
    BY <2>1, <2>4, <2>5 DEF Held, CallsIn
  <2>7. \A t \in wanted : t # t0 => (Held(t)' <=> Held(t))
    BY <2>0, <2>1, <2>5 DEF Held
  <2>8. TaskInv'
    BY <2>1, <2>2, <2>3, <2>4, <2>5, <2>6, <2>7, CallStep DEF CallsIn
  <2>9. FoundNothing' = FoundNothing
    BY <2>1, <2>5 DEF FoundNothing, CallsIn
  <2> QED BY <2>1, <2>2, <2>3, <2>8, <2>9, PassedStays DEF RoomInv
<1> QED BY <1>1, <1>2

\* A call of Run for a range of values.
LEMMA RunRangeStep ==
  ASSUME NoWrap, TakeInv, NEW range \in Ranges, RunRange(range)
  PROVE  TaskInv' /\ PassedInv' /\ RoomInv'
<1>1. range[1] \in Nat /\ range[2] \in Nat /\ range[1] <= range[2] /\ MaxWorkers \in Nat
      /\ TaskLimit \in Nat
  BY RangeType, RunnerAssumption DEF RunRange, Task
<1>2. next_task' = range[1] /\ end_task' = range[2] /\ wanted' = range[1] .. range[2] - 1
      /\ ran' = [t \in Task |-> 0] /\ owner'.at = "dequeue"
  BY DEF RunRange, Ask, Values, Idle
<1>3. \A w \in WorkerId : ~ CallsIn(w)'
  <2>1. \A w \in WorkerId : ~ CallsIn(w)
    BY DEF RunRange, TakeInv, SafeInv, PoolInv, RunningInv, Joined, Working, CallsIn
  <2> QED BY <2>1 DEF RunRange, Notified, CallsIn, TakeInv, SafeInv, PoolInv, PoolTypeOK
<1>4. RoomInv'
  <2>1. (MaxWorkers + 1) * (range[2] - range[1]) \in Nat
    BY <1>1
  <2>2. range[2] + MaxWorkers + 1 < TaskLimit
    BY <1>1, <2>1, RoomAbove
  <2> QED BY <1>2, <2>2 DEF RoomInv
<1>5. PassedInv'
  BY <1>1, <1>2 DEF PassedInv
<1>6. TaskInv'
  <2>1. \A t \in wanted' : ran'[t] = 0 /\ ~ (t < next_task')
    BY <1>1, <1>2, RangeType DEF Values
  <2>2. wanted' \subseteq 0 .. end_task' - 1 /\ \A t \in next_task' .. end_task' - 1 : t \in wanted'
    BY <1>1, <1>2
  <2> QED BY <1>2, <1>3, <2>1, <2>2 DEF TaskInv, CallsIn
<1> QED BY <1>4, <1>5, <1>6

\* Steps that neither take a value nor call the function.
LEMMA OtherStep ==
  ASSUME TakeInv, SafeInv',
         \/ AwaitDone \/ OwnerLeaves \/ Spurious
         \/ \E w \in WorkerId : WorkerLeaves(w) \/ Quit(w) \/ WaitForWork(w) \/ JoinIn(w)
  PROVE  TaskInv' /\ PassedInv' /\ RoomInv'
<1> USE DEF SafeInv, PoolInv, PoolTypeOK
<1>1. UNCHANGED <<next_task, end_task, wanted, ran>>
  BY DEF AwaitDone, OwnerLeaves, Spurious, WorkerLeaves, Quit, WaitForWork, JoinIn, Stop, clientVars
<1>2. SUFFICES /\ InRange' => InRange
               /\ owner'.at # "call" \/ UNCHANGED owner
               /\ owner.at # "call" \/ UNCHANGED owner
               /\ InRange' => (Finishing' <=> Finishing)
               /\ FoundNothing \subseteq FoundNothing'
               /\ \A w \in WorkerId : (CallsIn(w)' <=> CallsIn(w)) /\ (CallsIn(w)' => member'[w] = member[w])
  BY <1>1, TaskStays, PassedStays DEF TaskFrame
<1>3. CASE AwaitDone \/ OwnerLeaves
  <2>1. /\ UNCHANGED member /\ owner.at \in {"await", "leave"} /\ owner'.at \in {"await", "idle", "blocked"}
        /\ work_available' => work_available
    BY <1>3 DEF AwaitDone, OwnerLeaves, Stop, Idle
  <2>2. /\ InRange' => InRange
        /\ InRange' => (Finishing' <=> Finishing)
        /\ owner'.at # "call" /\ owner.at # "call"
    BY <2>1 DEF InRange, OwnerWorks, Working, Finishing
  <2>3. FoundNothing \subseteq FoundNothing'
    BY ONLY <2>1 DEF FoundNothing
  <2> QED BY ONLY <2>1, <2>2, <2>3 DEF CallsIn
<1>4. CASE Spurious
  <2>1. \A w \in WorkerId : member'[w] = member[w] \/ (member[w].at = "wait" /\ member'[w].at = "check")
    BY <1>4 DEF Spurious, TakeInv
  <2>2. owner' = owner \/ (owner.at = "blocked" /\ owner'.at = "await")
    BY <1>4 DEF Spurious, Idle
  <2>3. UNCHANGED work_available
    BY <1>4 DEF Spurious
  <2> QED BY <2>1, <2>2, <2>3 DEF FoundNothing, CallsIn, InRange, OwnerWorks, Working, Finishing
<1>5. ASSUME NEW u \in WorkerId, WorkerLeaves(u) \/ Quit(u) \/ WaitForWork(u) \/ JoinIn(u)
      PROVE  /\ InRange' => InRange
             /\ owner'.at # "call" \/ UNCHANGED owner
             /\ owner.at # "call" \/ UNCHANGED owner
             /\ InRange' => (Finishing' <=> Finishing)
             /\ FoundNothing \subseteq FoundNothing'
             /\ \A w \in WorkerId : (CallsIn(w)' <=> CallsIn(w)) /\ (CallsIn(w)' => member'[w] = member[w])
  <2>1. owner' = owner \/ (owner.at = "blocked" /\ owner'.at = "await")
    BY <1>5 DEF WorkerLeaves, Quit, WaitForWork, JoinIn, WakesOwner, Idle
  <2>2. /\ InRange' => InRange
        /\ owner'.at # "call" \/ UNCHANGED owner
        /\ owner.at # "call" \/ UNCHANGED owner
        /\ InRange' => (Finishing' <=> Finishing)
    BY <2>1 DEF InRange, OwnerWorks, Working, Finishing
  <2>3. \A w \in WorkerId : w # u => member'[w] = member[w]
    BY <1>5 DEF WorkerLeaves, Quit, WaitForWork, JoinIn, TakeInv
  <2>4. ~ CallsIn(u) /\ ~ CallsIn(u)'
    BY <1>5 DEF WorkerLeaves, Quit, WaitForWork, JoinIn, CallsIn, Idle, TakeInv
  <2>5. FoundNothing \subseteq FoundNothing'
    <3>1. CASE WorkerLeaves(u)
      BY <2>3, <3>1 DEF WorkerLeaves, Stop, FoundNothing, Idle, TakeInv
    <3>2. CASE Quit(u) \/ WaitForWork(u)
      BY <2>3, <3>2 DEF Quit, WaitForWork, FoundNothing, TakeInv
    <3>3. CASE JoinIn(u)
      BY <2>3, <3>3 DEF JoinIn, HasWork, FoundNothing, TakeInv
    <3> QED BY <1>5, <3>1, <3>2, <3>3
  <2>6. \A w \in WorkerId : (CallsIn(w)' <=> CallsIn(w)) /\ (CallsIn(w)' => member'[w] = member[w])
    BY ONLY <2>3, <2>4 DEF CallsIn
  <2> QED BY ONLY <2>2, <2>5, <2>6
<1> QED BY <1>3, <1>4, <1>5

\* A range of one value, which the owner calls the function for.
LEMMA SingleStep ==
  ASSUME TakeInv, SafeInv', PoolNext
  PROVE  SingleInv'
<1> USE DEF TakeInv, SafeInv, PoolInv, PoolTypeOK
<1>1. ASSUME NEW range \in Ranges, RunSingle(range) PROVE SingleInv'
  BY <1>1, RangeType DEF RunSingle, Ask, SingleInv
<1>2. CASE RunSingleTask
  BY <1>2 DEF RunSingleTask, Called, SingleInv, Idle, HistoryOK
<1>3. ASSUME UNCHANGED <<owner, wanted, ran>> PROVE SingleInv'
  BY <1>3 DEF SingleInv
<1>4. ASSUME owner'.at \notin {"single", "return"} PROVE SingleInv'
  BY <1>4 DEF SingleInv
<1>5. ASSUME NEW num \in 0 .. MaxWorkers + 1, SetNumThreads(num) PROVE owner'.at \notin {"single", "return"}
  BY <1>5 DEF SetNumThreads, Idle
<1>6. ASSUME NEW range \in Ranges, RunRange(range) PROVE owner'.at \notin {"single", "return"}
  BY <1>6 DEF RunRange, Idle
<1>7. CASE JoinWorkers \/ ReturnSingle \/ AwaitDone \/ OwnerTakes \/ OwnerCalls \/ OwnerLeaves
  <2>1. owner'.at \notin {"single", "return"}
    BY <1>7 DEF JoinWorkers, ReturnSingle, AwaitDone, OwnerTakes, OwnerCalls, OwnerLeaves, Idle, Taken
  <2> QED BY <2>1, <1>4
<1>8. CASE Spurious
  BY <1>3, <1>4, <1>8 DEF Spurious, Idle, clientVars
<1>9. ASSUME NEW w \in WorkerId, MemberStep(w) PROVE SingleInv'
  <2>1. CASE WorkerCalls(w)
    <3>1. owner.at \notin {"single", "return"} /\ UNCHANGED owner
      BY <2>1 DEF WorkerCalls, RunningInv, Joined, Working
    <3> QED BY <3>1, <1>4
  <2>2. CASE WorkerLeaves(w)
    <3>1. UNCHANGED <<wanted, ran>> /\ (UNCHANGED owner \/ owner'.at = "await")
      BY <2>2 DEF WorkerLeaves, Stop, WakesOwner, Idle, clientVars
    <3> QED BY <3>1, <1>3, <1>4
  <2>3. CASE WorkerTakes(w) \/ Quit(w) \/ WaitForWork(w) \/ JoinIn(w)
    BY <2>3, <1>3 DEF WorkerTakes, Quit, WaitForWork, JoinIn, clientVars
  <2> QED BY <1>9, <2>1, <2>2, <2>3 DEF MemberStep
<1> QED BY <1>1, <1>2, <1>4, <1>5, <1>6, <1>7, <1>8, <1>9 DEF PoolNext, OwnerCall, OwnerStep

\* The resizable runner, whichever runner takes the step.
LEMMA TakeInvStep ==
  ASSUME NoWrap, TakeInv, [Next]_vars
  PROVE  TakeInv'
<1>1. SafeInv' /\ OneInv'
  <2>1. OneInv /\ UNCHANGED vars => OneInv'
    BY DEF OneInv, vars, poolVars, threadVars
  <2> QED BY <2>1, SafeStep, OneStep DEF TakeInv
<1>2. ~ InRange' => TaskInv' /\ PassedInv' /\ RoomInv'
  BY DEF TaskInv, PassedInv, RoomInv
<1>3. CASE ThreadRuns
  <2>1. owner'.at = "idle"
    BY <1>1, <1>3 DEF OneInv, ThreadRuns, TakeInv
  <2> QED BY <1>1, <1>2, <2>1 DEF TakeInv, InRange, OwnerWorks, Working, SingleInv
<1>4. CASE PoolRuns
  <2>1. PoolNext
    BY <1>4 DEF PoolRuns
  <2>2. ASSUME NEW num \in 0 .. MaxWorkers + 1, SetNumThreads(num) PROVE ~ InRange'
    BY <2>2 DEF SetNumThreads, Idle, InRange, OwnerWorks, Working
  <2>3. ASSUME NEW range \in Ranges, RunSingle(range) PROVE ~ InRange'
    BY <2>3 DEF RunSingle, InRange, OwnerWorks, Working
  <2>4. CASE JoinWorkers \/ RunSingleTask \/ ReturnSingle
    <3>1. ~ InRange'
      BY <2>4 DEF JoinWorkers, RunSingleTask, ReturnSingle, Idle, InRange, OwnerWorks, Working
    <3> QED BY <3>1, <1>1, <1>2, <2>1, SingleStep DEF TakeInv
  <2>5. TaskInv' /\ PassedInv' /\ RoomInv'
    BY <1>1, <1>2, <2>1, <2>2, <2>3, <2>4, RunRangeStep, TakeStep, CallsStep, OtherStep
       DEF PoolNext, OwnerCall, OwnerStep, MemberStep, TakeInv
  <2> QED BY <1>1, <2>1, <2>5, SingleStep DEF TakeInv
<1>5. CASE UNCHANGED vars
  <2>1. UNCHANGED <<next_task, end_task, work_available, owner, member, wanted, ran>>
    BY <1>5 DEF vars, poolVars, clientVars
  <2> QED BY <1>1, <2>1 DEF TakeInv, TaskInv, PassedInv, RoomInv, SingleInv, InRange, OwnerWorks, Held,
             FoundNothing
<1> QED BY <1>3, <1>4, <1>5 DEF Next

-----------------------------------------------------------------------------
(* The refinement.                                                         *)

RefineInv == RunInv /\ TakeInv /\ (caller.at = "none" => caller.call = "none")

LEMMA RefineInit ==
  ASSUME NoWrap, Init
  PROVE  RefineInv
<1>1. SafeInv /\ OneInv
  BY SafeInit DEF Init, ThreadInit, PoolInit, OneInv, Idle
<1>2. caller.at = "none" /\ caller.call = "none" /\ owner.at = "idle"
  BY DEF Init, ThreadInit, PoolInit, Idle
<1>3. RunInv
  BY <1>1, <1>2 DEF RunInv, ChunkInv, ReservedInv, EachInv, AloneInv, InBarrier
<1>4. TakeInv
  BY <1>1, <1>2 DEF TakeInv, TaskInv, PassedInv, RoomInv, SingleInv, InRange, OwnerWorks, Working
<1> QED BY <1>2, <1>3, <1>4 DEF RefineInv

LEMMA RefineStep ==
  ASSUME NoWrap, RefineInv, [Next]_vars
  PROVE  RefineInv'
<1>1. RunInv' /\ TakeInv'
  BY RunStep, TakeInvStep DEF RefineInv
<1>2. UNCHANGED caller => (caller'.at = "none" => caller'.call = "none")
  BY DEF RefineInv
<1>3. ASSUME ThreadNext PROVE caller'.at = "none" => caller'.call = "none"
  <2> USE DEF RefineInv, RunInv, SafeInv, ThreadInv, ThreadTypeOK
  <2>1. ASSUME NEW n \in 0 .. MaxWorkers, Create(n) PROVE caller'.at # "none"
    BY <2>1 DEF Create, CallerIn
  <2>2. ASSUME NEW range \in Ranges, Run(range) \/ RunAlone(range) PROVE caller'.at # "none"
    BY <2>2 DEF Run, RunAlone, CallerIn
  <2>3. CASE RunOnEachThread \/ Destroy \/ Join
    BY <2>3 DEF RunOnEachThread, Destroy, Join, CallerIn
  <2>4. CASE ReturnAlone \/ NotifyWorkers \/ AwaitWorkers \/ PassBarrier
    BY <2>4 DEF ReturnAlone, NotifyWorkers, AwaitWorkers, PassBarrier, CallerAt
  <2>5. CASE RunTaskAlone \/ Reenter
    BY <2>5, <1>2 DEF RunTaskAlone, Reenter, threadVars
  <2>6. ASSUME NEW w \in WorkerId, WorkerStep(w) PROVE UNCHANGED caller \/ caller'.at = "barrier"
    BY <2>6 DEF WorkerStep, Report, Resume, RunOnce, Reserve, RunTask, CallerAt
  <2> QED BY <1>3, <1>2, <2>1, <2>2, <2>3, <2>4, <2>5, <2>6 DEF ThreadNext, CallerCall, CallerStep
<1> QED BY <1>1, <1>2, <1>3 DEF RefineInv, Next, ThreadRuns, PoolRuns, threadVars, vars

\* A call of the function.
LEMMA DoStep ==
  ASSUME RefineInv, NEW t \in wanted, ran[t] = 0, Called(t), InRun, InRun'
  PROVE  Promise!Next
<1>1. InRun \in BOOLEAN /\ InRun' \in BOOLEAN
  BY DEF InRun
<1>2. InRun' = InRun
  BY <1>1
<1>3. wanted' = wanted /\ ran' = [ran EXCEPT ![t] = 1]
  BY DEF Called
<1> QED BY <1>2, <1>3 DEF Promise!Next, Promise!Do

\* A call begins.
LEMMA BeginStep ==
  ASSUME NEW values \in SUBSET Task, Ask(values), ~ InRun, InRun'
  PROVE  Promise!Next
<1>1. InRun' = TRUE
  BY DEF InRun
<1> QED BY <1>1 DEF Ask, Promise!Next, Promise!Begin

\* A call returns.
LEMMA ReturnStep ==
  ASSUME InRun, ~ InRun', UNCHANGED clientVars, \A t \in wanted : ran[t] = 1
  PROVE  Promise!Next
<1>1. InRun' = FALSE
  BY DEF InRun
<1> QED BY <1>1 DEF clientVars, Promise!Next, Promise!Return

\* Nothing the client sees.
LEMMA HiddenStep ==
  ASSUME InRun' <=> InRun, UNCHANGED clientVars
  PROVE  UNCHANGED Promise!runVars
<1>1. InRun \in BOOLEAN /\ InRun' \in BOOLEAN
  BY DEF InRun
<1>2. InRun' = InRun
  BY <1>1
<1> QED BY <1>2 DEF clientVars, Promise!runVars

\* Every step of the thread runner is one of the interface, or hidden.
LEMMA ThreadRefines ==
  ASSUME RefineInv, RefineInv', ThreadRuns
  PROVE  Promise!Next \/ UNCHANGED Promise!runVars
<1> USE DEF RefineInv, RunInv, SafeInv, ThreadInv, ThreadTypeOK
<1>1. ThreadNext /\ owner.at = "idle" /\ owner'.at = "idle"
  BY DEF ThreadRuns, OneInv
<1> DEFINE Calling == caller.call \in {"run", "each"} /\ caller.at # "idle"
<1>2. (InRun <=> Calling) /\ (InRun' <=> Calling')
  BY <1>1 DEF InRun
<1>3. ASSUME NEW n \in 0 .. MaxWorkers, Create(n) PROVE UNCHANGED Promise!runVars
  <2>1. ~ Calling /\ ~ Calling' /\ UNCHANGED clientVars
    BY <1>3 DEF Create, CallerIn
  <2> QED BY <1>2, <2>1, HiddenStep
<1>4. ASSUME NEW range \in Ranges, Run(range) \/ RunAlone(range) PROVE Promise!Next
  <2>1. ~ Calling /\ Calling' /\ Ask(Values(range))
    BY <1>4 DEF Run, RunAlone, CallerIn
  <2> QED BY <1>2, <2>1, RangeType, BeginStep
<1>5. CASE RunOnEachThread
  <2>1. ~ Calling /\ Calling' /\ (Ask({0}) \/ Ask(Workers))
    BY <1>5 DEF RunOnEachThread, CallerIn
  <2>2. {0} \in SUBSET Task /\ Workers \in SUBSET Task
    <3>1. Workers \subseteq WorkerId /\ WorkerId \subseteq Task
      BY WorkersFinite, CrewFinite
    <3>2. 0 \in Task
      BY ONLY RunnerAssumption DEF Task
    <3> QED BY ONLY <3>1, <3>2
  <2> QED BY <1>2, <2>1, <2>2, BeginStep
<1>6. CASE Destroy \/ Join
  <2>1. ~ Calling /\ ~ Calling' /\ UNCHANGED clientVars
    BY <1>6 DEF Destroy, Join, CallerIn, CommandInv
  <2> QED BY <1>2, <2>1, HiddenStep
<1>7. CASE RunTaskAlone
  <2>1. PICK t \in wanted : ran[t] = 0 /\ Called(t)
    BY <1>7 DEF RunTaskAlone
  <2>2. Calling /\ Calling'
    BY <1>7 DEF RunTaskAlone, AloneInv, threadVars
  <2> QED BY <1>2, <2>1, <2>2, DoStep
<1>8. CASE ReturnAlone
  <2>1. Calling /\ ~ Calling' /\ UNCHANGED clientVars /\ \A t \in wanted : ran[t] = 1
    BY <1>8 DEF ReturnAlone, AloneInv, CallerAt
  <2> QED BY <1>2, <2>1, ReturnStep
<1>9. CASE NotifyWorkers \/ AwaitWorkers \/ Reenter
  <2>1. (Calling <=> Calling') /\ UNCHANGED clientVars
    BY <1>9 DEF NotifyWorkers, AwaitWorkers, Reenter, CallerAt
  <2> QED BY <1>2, <2>1, HiddenStep
<1>10. CASE PassBarrier
  <2>1. UNCHANGED clientVars /\ ~ Calling' /\ caller.at = "barrier"
    BY <1>10 DEF PassBarrier, CallerAt
  <2>2. \A w \in Workers : At(w) = "wait"
    <3>1. caller'.at = "idle" /\ Workers' = Workers /\ UNCHANGED worker
      BY <1>10 DEF PassBarrier, CallerAt, Workers
    <3> QED BY <3>1 DEF ReadyInv, At
  <2>3. CASE caller.call = "run"
    <3>1. InRunCall /\ InBarrier
      BY <2>1, <2>3 DEF InRunCall, InBarrier
    <3>2. /\ Workers # {} /\ wanted = First .. Last - 1
          /\ \A t \in wanted : ran[t] = IF t < Reserved /\ (\A w \in Workers : t \notin Chunk(w)) THEN 1 ELSE 0
          /\ \A w \in Workers : At(w) \in {"report", "wait"} => Reserved >= Last
      <4>1. ChunkInv
        OBVIOUS
      <4> QED BY ONLY <3>1, <4>1 DEF ChunkInv, InRunCall
    <3>3. \A w \in Workers : Chunk(w) = {}
      BY ONLY <2>2 DEF Chunk
    <3>4. Reserved >= Last
      BY ONLY <2>2, <3>2
    <3>5. num_reserved \in Nat
      BY RunnerAssumption DEF Task
    <3>6. First \in Nat /\ Last \in Nat /\ Reserved \in Nat
      BY <3>1, <3>5, RangeOfCall, RunnerAssumption DEF Reserved, Task
    <3>7. \A t \in wanted : ran[t] = 1
      <4> SUFFICES ASSUME NEW t \in wanted PROVE ran[t] = 1
        OBVIOUS
      <4>1. t < Reserved
        BY ONLY <3>2, <3>4, <3>6
      <4>2. \A w \in Workers : t \notin Chunk(w)
        BY ONLY <3>3
      <4> QED BY ONLY <3>2, <4>1, <4>2
    <3> QED BY <1>2, <2>1, <2>3, <3>7, ReturnStep
  <2>4. CASE caller.call = "each"
    <3>1. \A t \in wanted : ran[t] = 1
      BY <2>1, <2>2, <2>4 DEF EachInv, InBarrier
    <3> QED BY <1>2, <2>1, <2>4, <3>1, ReturnStep
  <2>5. CASE caller.call \notin {"run", "each"}
    BY <1>2, <2>1, <2>5, HiddenStep
  <2> QED BY <2>3, <2>4, <2>5
<1>11. ASSUME NEW w \in WorkerId, WorkerStep(w) PROVE Promise!Next \/ UNCHANGED Promise!runVars
  <2>1. WorkerFrame(w)
    BY <1>11, WorkerLeavesRest
  <2>2. Calling <=> Calling'
    BY <2>1 DEF WorkerFrame
  <2>3. CASE Report(w) \/ Resume(w) \/ Reserve(w)
    <3>1. UNCHANGED clientVars
      BY <2>3 DEF Report, Resume, Reserve
    <3> QED BY <1>2, <2>2, <3>1, HiddenStep
  <2>4. CASE RunOnce(w)
    <3>1. caller.call = "each" /\ InBarrier /\ At(w) = "once" /\ Called(w)
      BY <2>1, <2>4 DEF RunOnce, CommandInv, WorkerFrame
    <3>2. w \in wanted /\ ran[w] = 0 /\ Calling
      BY <2>1, <3>1 DEF EachInv, InBarrier, WorkerFrame
    <3> QED BY <1>2, <2>2, <3>1, <3>2, DoStep
  <2>5. CASE RunTask(w)
    <3>1. caller.call = "run" /\ InBarrier /\ At(w) = "run" /\ Called(worker[w].next)
          /\ worker[w].next < worker[w].stop
      BY <2>1, <2>5 DEF RunTask, CommandInv, WorkerFrame
    <3>2. PICK t : t = worker[w].next
      OBVIOUS
    <3>3. t \in Chunk(w)
      BY <3>1, <3>2, RunnerAssumption DEF Chunk
    <3>4. t \in wanted /\ ran[t] = 0 /\ Calling
      BY <2>1, <3>1, <3>3 DEF ChunkInv, InBarrier, WorkerFrame
    <3> QED BY <1>2, <2>2, <3>1, <3>2, <3>4, DoStep
  <2> QED BY <1>11, <2>3, <2>4, <2>5 DEF WorkerStep
<1> QED BY <1>1, <1>3, <1>4, <1>5, <1>6, <1>7, <1>8, <1>9, <1>10, <1>11
        DEF ThreadNext, CallerCall, CallerStep

\* And so is every step of the resizable runner.
LEMMA PoolRefines ==
  ASSUME RefineInv, RefineInv', PoolRuns
  PROVE  Promise!Next \/ UNCHANGED Promise!runVars
<1> USE DEF RefineInv, TakeInv, SafeInv, PoolInv, PoolTypeOK
<1>1. PoolNext /\ caller.call = "none" /\ caller'.call = "none"
  BY DEF PoolRuns, OneInv, threadVars
<1> DEFINE Calling == owner.at \notin {"idle", "join"}
<1>2. (InRun <=> Calling) /\ (InRun' <=> Calling')
  BY <1>1 DEF InRun
<1>3. ASSUME NEW num \in 0 .. MaxWorkers + 1, SetNumThreads(num) PROVE UNCHANGED Promise!runVars
  <2>1. ~ Calling /\ ~ Calling' /\ UNCHANGED clientVars
    BY <1>3 DEF SetNumThreads, Idle
  <2> QED BY <1>2, <2>1, HiddenStep
<1>4. ASSUME NEW range \in Ranges, RunSingle(range) PROVE Promise!Next
  <2>1. ~ Calling /\ Calling' /\ Ask({range[1]}) /\ {range[1]} \in SUBSET Task
    BY <1>4, RangeType DEF RunSingle
  <2> QED BY <1>2, <2>1, BeginStep
<1>5. ASSUME NEW range \in Ranges, RunRange(range) PROVE Promise!Next
  <2>1. ~ Calling /\ Calling' /\ Ask(Values(range))
    BY <1>5 DEF RunRange, Idle
  <2> QED BY <1>2, <2>1, RangeType, BeginStep
<1>6. CASE JoinWorkers
  <2>1. ~ Calling /\ ~ Calling' /\ UNCHANGED clientVars
    BY <1>6 DEF JoinWorkers, Idle
  <2> QED BY <1>2, <2>1, HiddenStep
<1>7. CASE RunSingleTask
  <2>1. Calling /\ Calling'
    BY <1>7 DEF RunSingleTask, Idle
  <2>2. PICK t : t = owner.task
    OBVIOUS
  <2>3. t \in wanted /\ ran[t] = 0 /\ Called(t)
    BY <1>7, <2>2 DEF RunSingleTask, SingleInv
  <2> QED BY <1>2, <2>1, <2>3, DoStep
<1>8. CASE ReturnSingle
  <2>1. Calling /\ ~ Calling' /\ UNCHANGED clientVars /\ \A t \in wanted : ran[t] = 1
    BY <1>8 DEF ReturnSingle, Idle, SingleInv
  <2> QED BY <1>2, <2>1, ReturnStep
<1>9. CASE AwaitDone
  <2>1. Calling /\ UNCHANGED clientVars /\ owner.at = "await"
    BY <1>9 DEF AwaitDone
  <2>2. CASE num_running_workers = 0
    <3>1. ~ Calling'
      BY <1>9, <2>2 DEF AwaitDone, Idle
    <3>2. Joined = {}
      BY <2>1, <2>2, JoinedCount DEF RunningInv, OwnerWorks, Working
    <3>3. \A t \in wanted : ~ Held(t)
      BY <2>1, <3>2 DEF Joined, Working, Held
    <3>4. /\ \A t \in wanted : t \in 0 .. end_task - 1
          /\ \A t \in wanted : ran[t] = IF t < next_task /\ ~ Held(t) THEN 1 ELSE 0
          /\ next_task >= end_task
      <4>1. TaskInv /\ InRange
        BY <2>1 DEF InRange
      <4> QED BY ONLY <2>1, <4>1 DEF TaskInv
    <3>5. next_task \in Nat /\ end_task \in Nat
      BY PoolNumbers
    <3>6. \A t \in wanted : ran[t] = 1
      <4> SUFFICES ASSUME NEW t \in wanted PROVE ran[t] = 1
        OBVIOUS
      <4>1. t < next_task
        BY ONLY <3>4, <3>5
      <4> QED BY ONLY <3>3, <3>4, <4>1
    <3> QED BY <1>2, <2>1, <3>1, <3>6, ReturnStep
  <2>3. CASE num_running_workers # 0
    <3>1. Calling'
      BY <1>9, <2>3 DEF AwaitDone, Idle
    <3> QED BY <1>2, <2>1, <3>1, HiddenStep
  <2> QED BY <2>2, <2>3
<1>10. CASE OwnerTakes \/ OwnerLeaves \/ Spurious
  <2>1. (Calling <=> Calling') /\ UNCHANGED clientVars
    BY <1>10 DEF OwnerTakes, OwnerLeaves, Spurious, Stop, Taken, Idle
  <2> QED BY <1>2, <2>1, HiddenStep
<1>11. CASE OwnerCalls
  <2>1. Calling /\ Calling' /\ owner.at = "call" /\ InRange
    BY <1>11 DEF OwnerCalls, InRange, OwnerWorks, Working
  <2>2. PICK t : t = owner.task
    OBVIOUS
  <2>3. Called(t)
    BY <1>11, <2>2 DEF OwnerCalls
  <2>4. t \in wanted /\ ran[t] = 0
    BY <2>1, <2>2 DEF TaskInv, Held
  <2> QED BY <1>2, <2>1, <2>3, <2>4, DoStep
<1>12. ASSUME NEW w \in WorkerId, MemberStep(w) PROVE Promise!Next \/ UNCHANGED Promise!runVars
  <2>1. CASE WorkerCalls(w)
    <3>1. w \in Joined /\ CallsIn(w)
      BY <2>1 DEF WorkerCalls, Joined, Working, CallsIn
    <3>2. Calling /\ InRange
      BY <3>1 DEF RunningInv, InRange, OwnerWorks, Working, OwnerPlaces
    <3>3. PICK t : t = member[w].task
      OBVIOUS
    <3>4. Called(t) /\ UNCHANGED owner
      BY <2>1, <3>3 DEF WorkerCalls
    <3>5. t \in wanted /\ ran[t] = 0
      BY <3>1, <3>2, <3>3 DEF TaskInv, Held, CallsIn
    <3> QED BY <1>2, <3>2, <3>4, <3>5, DoStep
  <2>2. CASE ~ WorkerCalls(w)
    <3>1. UNCHANGED clientVars /\ (UNCHANGED owner \/ (owner.at = "blocked" /\ owner'.at = "await"))
      BY <1>12, <2>2 DEF MemberStep, WorkerTakes, WorkerLeaves, Quit, WaitForWork, JoinIn, Stop, WakesOwner,
           Idle
    <3>2. Calling <=> Calling'
      BY <3>1
    <3> QED BY <1>2, <3>1, <3>2, HiddenStep
  <2> QED BY <2>1, <2>2
<1> QED BY <1>1, <1>3, <1>4, <1>5, <1>6, <1>7, <1>8, <1>9, <1>10, <1>11, <1>12
        DEF PoolNext, OwnerCall, OwnerStep

\* Both runners implement JxlParallelRunner (parallel_runner.h): the function
\* is called once for every value of the range before the call returns, and for
\* nothing else, for any number of threads and any ranges with room above them.
THEOREM RunnersKeepPromise ==
  ASSUME NoWrap
  PROVE  Spec => RunsEachOnce
<1>1. Init => RefineInv
  BY RefineInit
<1>2. RefineInv /\ [Next]_vars => RefineInv'
  BY RefineStep
<1>3. Init => Promise!Init
  <2> SUFFICES ASSUME Init PROVE Promise!Init
    OBVIOUS
  <2>1. InRun = FALSE
    BY DEF Init, ThreadInit, PoolInit, InRun, Idle
  <2> QED BY <2>1 DEF Init, ClientInit, Promise!Init
<1>4. RefineInv /\ RefineInv' /\ [Next]_vars => [Promise!Next]_(Promise!runVars)
  <2> SUFFICES ASSUME RefineInv, RefineInv', [Next]_vars
               PROVE  Promise!Next \/ UNCHANGED Promise!runVars
    OBVIOUS
  <2>1. CASE ThreadRuns
    BY <2>1, ThreadRefines
  <2>2. CASE PoolRuns
    BY <2>2, PoolRefines
  <2>3. CASE UNCHANGED vars
    <3>1. (InRun' <=> InRun) /\ UNCHANGED clientVars
      BY <2>3 DEF InRun, vars, threadVars, poolVars
    <3> QED BY <3>1, HiddenStep
  <2> QED BY <2>1, <2>2, <2>3 DEF Next
<1> QED BY <1>1, <1>2, <1>3, <1>4, PTL DEF Spec, RunsEachOnce, Promise!Spec
=============================================================================
