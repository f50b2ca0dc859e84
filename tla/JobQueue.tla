------------------------------ MODULE JobQueue ------------------------------
(***************************************************************************)
(* The job queue of the control server (performance-tests/server/queue.mjs *)
(* and the /api/queue and /api/events handlers of index.mjs).              *)
(*                                                                         *)
(* Node runs one callback at a time, so an action is one callback together *)
(* with the promise continuations that run before the next one: an HTTP    *)
(* handler, a processNext call scheduled by setImmediate, the close event  *)
(* of run.sh, the close event of build-data.mjs.                           *)
(*                                                                         *)
(* The array `queue` only ever grows at its end, with increasing ids, and  *)
(* shrinks by splice, so its order is the order of the ids: it is modelled *)
(* as a function from ids, with status "absent" for an id that is not in   *)
(* the array.                                                              *)
(*                                                                         *)
(* An operator that stands right before another one under one comment, and *)
(* says in its name what it does otherwise, is the mutation of that other  *)
(* one which a property is tested with; no specification uses it.          *)
(***************************************************************************)
EXTENDS Naturals, Sequences

CONSTANTS
  MaxJobs,        \* bound on the jobs ever enqueued
  StackLists,     \* the stackIds arrays a client may post
  VariantLists,   \* the variants arrays a client may post
  Targets,        \* <<stackId, variant>> pairs
  Clients,        \* browsers that may open /api/events
  NoTarget,       \* the target of an id that is not in the queue
  NoRun,          \* runId = null
  Offline         \* the view of a client that is not connected

ASSUME MaxJobsAssumption == MaxJobs \in Nat

(* enqueueBatch: stack-major order, one job for each pair. *)
Product(ss, vs) ==
  [k \in 1..(Len(ss) * Len(vs)) |->
     <<ss[((k - 1) \div Len(vs)) + 1], vs[((k - 1) % Len(vs)) + 1]>>]

(* Targets holds every pair of the arrays that may be posted.              *)
ASSUME ListsAssumption ==
  \A ss \in StackLists, vs \in VariantLists : Product(ss, vs) \in Seq(Targets)

JobIds == 1..MaxJobs

(* A directory of results/: its name is target and time stamp; "by" is the *)
(* job whose run.sh created it, 0 for one that was there before the server *)
(* started.                                                                *)
RunDirs == [target : Targets, stamp : 0..MaxJobs, by : 0..MaxJobs]

Statuses == {"absent", "pending", "running", "done", "failed", "canceled"}
COMPLETED_STATUSES_WithRunning == {"done", "failed", "canceled", "running"}
COMPLETED_STATUSES == {"done", "failed", "canceled"}

Jobs == [target : Targets \cup {NoTarget}, status : Statuses,
         runId : RunDirs \cup {NoRun}]

Absent == [target |-> NoTarget, status |-> "absent", runId |-> NoRun]

VARIABLES
  queue,          \* the job array
  jobIdCounter,   \* id of the next job
  running,        \* the flag processNext tests
  immediates,     \* processNext calls scheduled with setImmediate
  runShs,         \* jobs whose run.sh process is alive
  made,           \* jobs whose run.sh has created its directory
  builds,         \* jobs whose build-data.mjs process is alive
  results,        \* the run directories on disk
  clock,          \* time stamp of the newest directory
  views           \* the queue each SSE client was last sent

vars == <<queue, jobIdCounter, running, immediates, runShs, made, builds,
          results, clock, views>>

-----------------------------------------------------------------------------
PendingOrCanceled == {i \in JobIds : queue[i].status \in {"pending", "canceled"}}
Pending == {i \in JobIds : queue[i].status = "pending"}

(* queue.find: the job processNext takes. *)
LastPending(i) == i \in Pending /\ \A j \in Pending : j <= i
FirstPending(i) == i \in Pending /\ \A j \in Pending : i <= j

(* broadcast("queue_update"): every connected client gets the new queue.   *)
BroadcastNothing == UNCHANGED views
BroadcastQueue ==
  views' = [c \in Clients |-> IF views[c] = Offline THEN Offline ELSE queue']

(* findRunId: null, or the directory of this target with the largest name. *)
(* The answer is given as the set of its (at most one) possible values.    *)
FindRunIdUndefined(target, dirs) ==
  LET mine == {d \in dirs : d.target = target} IN
  IF mine = {} THEN {NoTarget} ELSE {d \in mine : \A e \in mine : e.stamp <= d.stamp}
FindOldestRunId(target, dirs) ==
  LET mine == {d \in dirs : d.target = target} IN
  IF mine = {} THEN {NoRun} ELSE {d \in mine : \A e \in mine : d.stamp <= e.stamp}
FindRunId(target, dirs) ==
  LET mine == {d \in dirs : d.target = target} IN
  IF mine = {} THEN {NoRun} ELSE {d \in mine : \A e \in mine : e.stamp <= d.stamp}

-----------------------------------------------------------------------------
Init ==
  /\ queue = [i \in JobIds |-> Absent]
  /\ jobIdCounter = 1
  /\ running = FALSE
  /\ immediates = 0
  /\ runShs = {}
  /\ made = {}
  /\ builds = {}
  /\ results \in SUBSET [target : Targets, stamp : {0}, by : {0}]
  /\ clock = 0
  /\ views = [c \in Clients |-> Offline]

(* enqueue, once for each target of ts, in one callback.                   *)
Push(ts) ==
  /\ ts # <<>>
  /\ jobIdCounter + Len(ts) - 1 <= MaxJobs
  /\ queue' = [i \in JobIds |->
                 IF i \in jobIdCounter..(jobIdCounter + Len(ts) - 1)
                 THEN [target |-> ts[i - jobIdCounter + 1],
                       status |-> "pending", runId |-> NoRun]
                 ELSE queue[i]]
  /\ jobIdCounter' = jobIdCounter + Len(ts)
  /\ immediates' = immediates + Len(ts)
  /\ BroadcastQueue
  /\ UNCHANGED <<running, runShs, made, builds, results, clock>>

(* POST /api/queue with stackId and variant.                               *)
Enqueue(target) == Push(<<target>>)

(* POST /api/queue with stackIds and variants; empty arrays are refused.   *)
EnqueueBatch(ss, vs) == Push(Product(ss, vs))

(* DELETE /api/queue/:id; anything but a pending job is answered 404.      *)
CancelJob(i) ==
  /\ queue[i].status = "pending"
  /\ queue' = [queue EXCEPT ![i].status = "canceled"]
  /\ BroadcastQueue
  /\ UNCHANGED <<jobIdCounter, running, immediates, runShs, made, builds, results, clock>>

(* DELETE /api/queue/completed; nothing is sent when nothing was removed.  *)
ClearCompletedJobs ==
  /\ \E i \in JobIds : queue[i].status \in COMPLETED_STATUSES
  /\ queue' = [i \in JobIds |->
                 IF queue[i].status \in COMPLETED_STATUSES THEN Absent ELSE queue[i]]
  /\ BroadcastQueue
  /\ UNCHANGED <<jobIdCounter, running, immediates, runShs, made, builds, results, clock>>

(* A scheduled processNext finds the server busy, or nothing to do.        *)
ProcessNextIdle ==
  /\ immediates > 0
  /\ running \/ Pending = {}
  /\ immediates' = immediates - 1
  /\ UNCHANGED <<queue, jobIdCounter, running, runShs, made, builds, results, clock, views>>

(* A scheduled processNext takes the first pending job and spawns run.sh.  *)
ProcessNextWhenBusy(i) ==
  /\ immediates > 0
  /\ FirstPending(i)
  /\ immediates' = immediates - 1
  /\ running' = TRUE
  /\ queue' = [queue EXCEPT ![i].status = "running"]
  /\ runShs' = runShs \cup {i}
  /\ BroadcastQueue
  /\ UNCHANGED <<jobIdCounter, made, builds, results, clock>>
ProcessNext(i) ==
  /\ immediates > 0
  /\ ~running
  /\ FirstPending(i)
  /\ immediates' = immediates - 1
  /\ running' = TRUE
  /\ queue' = [queue EXCEPT ![i].status = "running"]
  /\ runShs' = runShs \cup {i}
  /\ BroadcastQueue
  /\ UNCHANGED <<jobIdCounter, made, builds, results, clock>>

(* run.sh creates its results directory, once for a single variant.        *)
RunShMakesDir(i) ==
  /\ i \in runShs \ made
  /\ clock < MaxJobs
  /\ made' = made \cup {i}
  /\ clock' = clock + 1
  /\ results' = results \cup
       {[target |-> queue[i].target, stamp |-> clock + 1, by |-> i]}
  /\ UNCHANGED <<queue, jobIdCounter, running, immediates, runShs, builds, views>>

(* run.sh exits, with or without having created a directory. The close     *)
(* handler looks up runId, the job gets its status, and build-data.mjs is  *)
(* spawned, all before the next callback. A machine without bash, where    *)
(* the spawn itself fails, is not modelled.                                *)
RunShCloses(i, status) ==
  /\ i \in runShs
  /\ runShs' = runShs \ {i}
  /\ \E run \in FindRunId(queue[i].target, results) :
       queue' = [queue EXCEPT ![i].status = status, ![i].runId = run]
  /\ builds' = builds \cup {i}
  /\ BroadcastQueue
  /\ UNCHANGED <<jobIdCounter, running, immediates, made, results, clock>>

(* build-data.mjs exits; whatever its exit code, the next job is scheduled. *)
BuildClosesAndForgets(i) ==
  /\ i \in builds
  /\ builds' = builds \ {i}
  /\ running' = FALSE
  /\ UNCHANGED <<queue, jobIdCounter, immediates, runShs, made, results, clock, views>>
BuildCloses(i) ==
  /\ i \in builds
  /\ builds' = builds \ {i}
  /\ running' = FALSE
  /\ immediates' = immediates + 1
  /\ UNCHANGED <<queue, jobIdCounter, runShs, made, results, clock, views>>

(* A run directory is removed: DELETE /api/runs once its run-meta.json is  *)
(* there, which may be before run.sh ends, or by hand at any time.         *)
RemoveRun(d) ==
  /\ d \in results
  /\ results' = results \ {d}
  /\ UNCHANGED <<queue, jobIdCounter, running, immediates, runShs, made, builds, clock, views>>

(* GET /api/events: the snapshot is written before the client is added.    *)
Connect(c) ==
  /\ views[c] = Offline
  /\ views' = [views EXCEPT ![c] = queue]
  /\ UNCHANGED <<queue, jobIdCounter, running, immediates, runShs, made, builds, results, clock>>

Disconnect(c) ==
  /\ views[c] # Offline
  /\ views' = [views EXCEPT ![c] = Offline]
  /\ UNCHANGED <<queue, jobIdCounter, running, immediates, runShs, made, builds, results, clock>>

Next ==
  \/ \E t \in Targets : Enqueue(t)
  \/ \E ss \in StackLists, vs \in VariantLists : EnqueueBatch(ss, vs)
  \/ \E i \in JobIds : CancelJob(i)
  \/ ClearCompletedJobs
  \/ ProcessNextIdle
  \/ \E i \in JobIds : ProcessNext(i)
  \/ \E i \in JobIds : RunShMakesDir(i)
  \/ \E i \in JobIds, s \in {"done", "failed"} : RunShCloses(i, s)
  \/ \E i \in JobIds : BuildCloses(i)
  \/ \E d \in results : RemoveRun(d)
  \/ \E c \in Clients : Connect(c) \/ Disconnect(c)

SafetySpec == Init /\ [][Next]_vars

(* Node runs every scheduled callback. run.sh and build-data.mjs end: each *)
(* of their steps has a bound (docker build, wait_ready, k6 DURATION).     *)
Fairness ==
  /\ WF_vars(ProcessNextIdle \/ \E i \in JobIds : ProcessNext(i))
  /\ \A i \in JobIds : WF_vars(\E s \in {"done", "failed"} : RunShCloses(i, s))
  /\ \A i \in JobIds : WF_vars(BuildCloses(i))

Spec == SafetySpec /\ Fairness
-----------------------------------------------------------------------------
(* Every variable has its type, and a job in the array has a target.       *)
TypeOK ==
  /\ queue \in [JobIds -> Jobs]
  /\ \A i \in JobIds : queue[i].status # "absent" => queue[i].target \in Targets
  /\ jobIdCounter \in 1..(MaxJobs + 1)
  /\ running \in BOOLEAN
  /\ immediates \in Nat
  /\ runShs \subseteq JobIds
  /\ made \subseteq JobIds
  /\ builds \subseteq JobIds
  /\ results \subseteq RunDirs
  /\ clock \in 0..MaxJobs
  /\ views \in [Clients -> [JobIds -> Jobs] \cup {Offline}]

(* "Jobs are processed one at a time" (queue.mjs): there is never a second *)
(* run.sh, and no run.sh while the viewer data of the last job is built,   *)
(* although processNext is scheduled by every enqueue and every finish.    *)
OneRunAtATime ==
  /\ \A i, j \in runShs \cup builds : i = j
  /\ runShs \cap builds = {}

(* No lost wake-up: while a job is pending, either one is being worked on  *)
(* (and its end schedules processNext) or a processNext call is scheduled. *)
NoLostWakeup == Pending # {} => running \/ immediates > 0

(* A job in status "running" is exactly a job whose run.sh is alive: a     *)
(* cancel, a clear or a failed build never leaves a job running for ever   *)
(* or hides one whose benchmark goes on.                                   *)
RunningIsAlive == {i \in JobIds : queue[i].status = "running"} = runShs

(* Every connected browser shows the queue the server has: all callbacks   *)
(* that change a status or a runId broadcast it before they end.           *)
ViewsInSync == \A c \in Clients : views[c] \in {Offline, queue}

(* If the run.sh of a job that just closed created a directory and nobody  *)
(* removed it, the runId of the job is that directory and not an older one *)
(* of the same stack and variant.                                          *)
OwnRunIsFound ==
  \A i \in builds : \A d \in results :
    (d.by = i /\ queue[i].status # "absent") => queue[i].runId = d

(* What the server's README says of a finished job: runId is "the newly    *)
(* created results directory", so never the directory of another run.      *)
RunIdIsNewRun ==
  \A i \in JobIds : queue[i].status \in {"done", "failed"} =>
    queue[i].runId = NoRun \/ queue[i].runId.by = i

(* A finished or canceled job keeps its status until it is cleared, a      *)
(* running one can only finish, and a cleared id never comes back.         *)
StatusOnlyAdvances ==
  [][\A i \in JobIds :
       LET s == queue[i].status
           t == queue'[i].status
       IN s # t =>
            \/ s = "pending" /\ t \in {"running", "canceled"}
            \/ s = "running" /\ t \in {"done", "failed"}
            \/ s \in COMPLETED_STATUSES /\ t = "absent"
            \/ s = "absent" /\ t = "pending" /\ i >= jobIdCounter]_vars

(* Every job that was enqueued is eventually finished or canceled.         *)
EveryJobEnds ==
  \A i \in JobIds : queue[i].status \in {"pending", "running"}
                      ~> queue[i].status \notin {"pending", "running"}

(* The queue implements the serial executor: it starts jobs in the order   *)
(* they came, one at a time, and cancels only jobs that did not start.     *)
Serial == INSTANCE SerialExecutor WITH
  MaxTickets <- MaxJobs,
  issued     <- jobIdCounter - 1,
  waiting    <- Pending,
  active     <- runShs \cup builds

ImplementsSerialExecutor == Serial!Spec
=============================================================================
