--------------------------- MODULE JobQueueProofs ---------------------------
(***************************************************************************)
(* Proofs about JobQueue, for every number of jobs, every set of targets   *)
(* and every set of clients.                                               *)
(***************************************************************************)
EXTENDS JobQueue, TLAPS

(* The flag processNext tests is the fact it stands for.                   *)
FlagIsExact == running <=> (runShs \cup builds # {})

(* Ids that were not handed out yet are not in the array.                  *)
FreshIds == \A i \in JobIds : i >= jobIdCounter => queue[i].status = "absent"

(* The inductive invariant: none of its safety parts is inductive alone.   *)
IInv ==
  /\ TypeOK
  /\ FlagIsExact
  /\ FreshIds
  /\ OneRunAtATime
  /\ RunningIsAlive
  /\ NoLostWakeup

USE MaxJobsAssumption

(* A broadcast gives every connected client a queue of the right type.     *)
LEMMA BroadcastType ==
  ASSUME views \in [Clients -> [JobIds -> Jobs] \cup {Offline}],
         queue' \in [JobIds -> Jobs], BroadcastQueue
  PROVE  views' \in [Clients -> [JobIds -> Jobs] \cup {Offline}]
  BY DEF BroadcastQueue

(* The callback of a POST: new pending jobs take the next ids.             *)
LEMMA PushInvariant ==
  ASSUME NEW ts \in Seq(Targets), IInv, Push(ts)
  PROVE  IInv'
  <1> DEFINE new == jobIdCounter..(jobIdCounter + Len(ts) - 1)
  <1>1. Len(ts) \in Nat /\ Len(ts) > 0
    BY DEF Push
  <1>2. queue' \in [JobIds -> Jobs]
    <2> SUFFICES ASSUME NEW i \in JobIds, i \in new
                 PROVE  ts[i - jobIdCounter + 1] \in Targets
      BY DEF Push, IInv, TypeOK, Jobs, Statuses
    <2> QED BY <1>1 DEF JobIds, IInv, TypeOK
  <1>3. TypeOK'
    <2>1. \A i \in JobIds : queue'[i].status # "absent" => queue'[i].target \in Targets
      <3>1. \A i \in JobIds : i \in new => ts[i - jobIdCounter + 1] \in Targets
        BY <1>1 DEF JobIds, IInv, TypeOK
      <3> QED BY <3>1 DEF Push, IInv, TypeOK
    <2> QED BY <1>1, <1>2, <2>1, BroadcastType DEF Push, IInv, TypeOK
  <1>4. \A i \in JobIds : /\ i \in new => queue'[i].status = "pending"
                          /\ i \notin new => queue'[i] = queue[i]
    BY DEF Push
  <1>5. FreshIds'
    BY <1>1, <1>4 DEF Push, IInv, FreshIds, TypeOK, JobIds
  <1>6. RunningIsAlive'
    BY <1>4 DEF Push, IInv, FreshIds, RunningIsAlive, TypeOK, JobIds
  <1>7. NoLostWakeup'
    BY <1>1 DEF Push, IInv, NoLostWakeup, TypeOK
  <1>8. FlagIsExact' /\ OneRunAtATime'
    BY DEF Push, IInv, FlagIsExact, OneRunAtATime
  <1> QED BY <1>3, <1>5, <1>6, <1>7, <1>8 DEF IInv

(* The server starts with an empty queue and nothing to do.                *)
LEMMA InitInvariant == Init => IInv
  <1> SUFFICES ASSUME Init PROVE IInv
    OBVIOUS
  <1>1. Absent \in Jobs /\ Absent.status = "absent"
    BY DEF Absent, Jobs, Statuses
  <1>2. \A i \in JobIds : queue[i].status = "absent"
    BY <1>1 DEF Init
  <1>3. queue \in [JobIds -> Jobs]
    BY <1>1 DEF Init
  <1>4. results \subseteq RunDirs
    BY DEF Init, RunDirs
  <1>5. jobIdCounter \in 1..(MaxJobs + 1) /\ clock \in 0..MaxJobs
    BY DEF Init
  <1>6. TypeOK
    BY <1>2, <1>3, <1>4, <1>5 DEF Init, TypeOK
  <1>7. FlagIsExact /\ OneRunAtATime
    BY DEF Init, FlagIsExact, OneRunAtATime
  <1>8. FreshIds /\ RunningIsAlive /\ NoLostWakeup
    BY <1>2 DEF Init, FreshIds, RunningIsAlive, NoLostWakeup, Pending
  <1> QED BY <1>6, <1>7, <1>8 DEF IInv

(* A callback that rewrites the status (and the runId) of one job keeps    *)
(* the queue well typed and leaves the other jobs alone.                   *)
LEMMA OneJobChanges ==
  ASSUME queue \in [JobIds -> Jobs], NEW i \in JobIds, NEW s \in Statuses,
         \/ queue' = [queue EXCEPT ![i].status = s]
         \/ \E r \in RunDirs \cup {NoRun} :
              queue' = [queue EXCEPT ![i].status = s, ![i].runId = r]
  PROVE  /\ queue' \in [JobIds -> Jobs]
         /\ queue'[i].status = s
         /\ queue'[i].target = queue[i].target
         /\ \A j \in JobIds : j # i => queue'[j] = queue[j]
  <1>1. CASE queue' = [queue EXCEPT ![i].status = s]
    <2>1. [queue[i] EXCEPT !.status = s] \in Jobs
      BY DEF Jobs
    <2> QED BY <1>1, <2>1 DEF Jobs
  <1>2. ASSUME NEW r \in RunDirs \cup {NoRun},
               queue' = [queue EXCEPT ![i].status = s, ![i].runId = r]
        PROVE  /\ queue' \in [JobIds -> Jobs]
               /\ queue'[i].status = s
               /\ queue'[i].target = queue[i].target
               /\ \A j \in JobIds : j # i => queue'[j] = queue[j]
    <2>1. [[queue[i] EXCEPT !.status = s] EXCEPT !.runId = r] \in Jobs
      BY DEF Jobs
    <2> QED BY <1>2, <2>1 DEF Jobs
  <1> QED BY <1>1, <1>2

(* DELETE /api/queue/:id keeps the invariant: the job was not running.     *)
LEMMA CancelInvariant ==
  ASSUME IInv, NEW i \in JobIds, CancelJob(i)
  PROVE  IInv'
  <1>1. /\ queue' \in [JobIds -> Jobs]
        /\ queue'[i].status = "canceled"
        /\ queue'[i].target = queue[i].target
        /\ \A j \in JobIds : j # i => queue'[j] = queue[j]
    BY OneJobChanges DEF CancelJob, IInv, TypeOK, Statuses
  <1>2. TypeOK'
    BY <1>1, BroadcastType DEF CancelJob, IInv, TypeOK, Pending
  <1>3. FreshIds' /\ RunningIsAlive'
    BY <1>1 DEF CancelJob, IInv, FreshIds, RunningIsAlive
  <1>4. NoLostWakeup'
    BY <1>1 DEF CancelJob, IInv, NoLostWakeup, Pending
  <1>5. FlagIsExact' /\ OneRunAtATime'
    BY DEF CancelJob, IInv, FlagIsExact, OneRunAtATime
  <1> QED BY <1>2, <1>3, <1>4, <1>5 DEF IInv

(* Clearing removes neither a pending nor a running job.                   *)
LEMMA ClearInvariant ==
  ASSUME IInv, ClearCompletedJobs
  PROVE  IInv'
  <1>1. Absent \in Jobs /\ Absent.status = "absent"
    BY DEF Absent, Jobs, Statuses
  <1>2. queue' \in [JobIds -> Jobs]
    BY <1>1 DEF ClearCompletedJobs, IInv, TypeOK
  <1>3. \A j \in JobIds : \/ queue'[j] = queue[j]
                          \/ /\ queue[j].status \in COMPLETED_STATUSES
                             /\ queue'[j].status = "absent"
    BY <1>1 DEF ClearCompletedJobs
  <1>4. TypeOK'
    BY <1>2, <1>3, BroadcastType DEF ClearCompletedJobs, IInv, TypeOK
  <1>5. FreshIds' /\ RunningIsAlive'
    BY <1>3 DEF ClearCompletedJobs, IInv, FreshIds, RunningIsAlive, COMPLETED_STATUSES
  <1>6. NoLostWakeup'
    BY <1>3 DEF ClearCompletedJobs, IInv, NoLostWakeup, Pending
  <1>7. FlagIsExact' /\ OneRunAtATime'
    BY DEF ClearCompletedJobs, IInv, FlagIsExact, OneRunAtATime
  <1> QED BY <1>4, <1>5, <1>6, <1>7 DEF IInv

(* Taking a job keeps the invariant: the flag says nothing else runs.      *)
LEMMA ProcessNextInvariant ==
  ASSUME IInv, NEW i \in JobIds, ProcessNext(i)
  PROVE  IInv'
  <1>1. /\ queue' \in [JobIds -> Jobs]
        /\ queue'[i].status = "running"
        /\ queue'[i].target = queue[i].target
        /\ \A j \in JobIds : j # i => queue'[j] = queue[j]
    BY OneJobChanges DEF ProcessNext, FirstPending, IInv, TypeOK, Statuses
  <1>2. runShs = {} /\ builds = {}
    BY DEF ProcessNext, FirstPending, IInv, FlagIsExact
  <1>3. TypeOK'
    BY <1>1, BroadcastType DEF ProcessNext, FirstPending, IInv, TypeOK, Pending
  <1>4. FreshIds'
    BY <1>1 DEF ProcessNext, FirstPending, IInv, FreshIds, Pending
  <1>5. RunningIsAlive'
    BY <1>1, <1>2 DEF ProcessNext, FirstPending, IInv, RunningIsAlive
  <1>6. NoLostWakeup' /\ FlagIsExact' /\ OneRunAtATime'
    BY <1>2 DEF ProcessNext, FirstPending, NoLostWakeup, FlagIsExact, OneRunAtATime
  <1> QED BY <1>3, <1>4, <1>5, <1>6 DEF IInv

(* The close event of run.sh keeps the invariant: the flag stays set.      *)
LEMMA RunShClosesInvariant ==
  ASSUME IInv, NEW i \in JobIds, NEW s \in {"done", "failed"}, RunShCloses(i, s)
  PROVE  IInv'
  <1>1. FindRunId(queue[i].target, results) \subseteq RunDirs \cup {NoRun}
    BY DEF FindRunId, IInv, TypeOK
  <1>2. PICK r \in RunDirs \cup {NoRun} :
          queue' = [queue EXCEPT ![i].status = s, ![i].runId = r]
    BY <1>1 DEF RunShCloses
  <1>3. /\ queue' \in [JobIds -> Jobs]
        /\ queue'[i].status = s
        /\ queue'[i].target = queue[i].target
        /\ \A j \in JobIds : j # i => queue'[j] = queue[j]
    <2>1. queue \in [JobIds -> Jobs] /\ s \in Statuses
      BY DEF IInv, TypeOK, Statuses
    <2> QED BY <1>2, <2>1, OneJobChanges
  <1>4. TypeOK'
    BY <1>3, BroadcastType DEF RunShCloses, IInv, TypeOK, RunningIsAlive
  <1>5. FreshIds'
    <2>1. queue[i].status = "running"
      BY DEF RunShCloses, IInv, RunningIsAlive
    <2> QED BY <1>3, <2>1 DEF RunShCloses, IInv, FreshIds
  <1>6. RunningIsAlive'
    BY <1>3 DEF RunShCloses, IInv, RunningIsAlive
  <1>7. running' /\ FlagIsExact'
    BY DEF RunShCloses, IInv, FlagIsExact
  <1>8. OneRunAtATime'
    BY DEF RunShCloses, IInv, OneRunAtATime
  <1>9. NoLostWakeup'
    BY <1>7 DEF NoLostWakeup
  <1> QED BY <1>4, <1>5, <1>6, <1>7, <1>8, <1>9 DEF IInv

(* The steps that leave the queue and the clients alone.                   *)
LEMMA OtherInvariant ==
  ASSUME IInv,
         \/ ProcessNextIdle
         \/ \E i \in JobIds : RunShMakesDir(i) \/ BuildCloses(i)
         \/ \E d \in results : RemoveRun(d)
         \/ \E c \in Clients : Connect(c) \/ Disconnect(c)
         \/ UNCHANGED vars
  PROVE  IInv'
  <1>1. CASE ProcessNextIdle
    BY <1>1 DEF ProcessNextIdle, IInv, TypeOK, FlagIsExact, FreshIds, OneRunAtATime,
                RunningIsAlive, NoLostWakeup, Pending
  <1>2. ASSUME NEW i \in JobIds, RunShMakesDir(i) PROVE IInv'
    <2>1. queue[i].target \in Targets
      BY <1>2 DEF RunShMakesDir, IInv, TypeOK, RunningIsAlive
    <2>2. clock + 1 \in 0..MaxJobs /\ i \in 0..MaxJobs
      BY <1>2 DEF RunShMakesDir, IInv, TypeOK, JobIds
    <2>3. TypeOK'
      BY <1>2, <2>1, <2>2 DEF RunShMakesDir, IInv, TypeOK, RunDirs
    <2> QED
      BY <1>2, <2>3 DEF RunShMakesDir, IInv, FlagIsExact, FreshIds, OneRunAtATime,
                RunningIsAlive, NoLostWakeup, Pending
  <1>3. ASSUME NEW i \in JobIds, BuildCloses(i) PROVE IInv'
    <2>1. runShs' \cup builds' = {}
      BY <1>3 DEF BuildCloses, IInv, OneRunAtATime
    <2>2. immediates' \in Nat /\ immediates' > 0
      BY <1>3 DEF BuildCloses, IInv, TypeOK
    <2>3. TypeOK' /\ FreshIds' /\ RunningIsAlive'
      BY <1>3, <2>2 DEF BuildCloses, IInv, TypeOK, FreshIds, RunningIsAlive
    <2>4. FlagIsExact' /\ OneRunAtATime' /\ NoLostWakeup'
      BY <1>3, <2>1, <2>2 DEF BuildCloses, FlagIsExact, OneRunAtATime, NoLostWakeup
    <2> QED BY <2>3, <2>4 DEF IInv
  <1>4. ASSUME NEW d \in results, RemoveRun(d) PROVE IInv'
    BY <1>4 DEF RemoveRun, IInv, TypeOK, FlagIsExact, FreshIds, OneRunAtATime,
                RunningIsAlive, NoLostWakeup, Pending
  <1>5. ASSUME NEW c \in Clients, Connect(c) \/ Disconnect(c) PROVE IInv'
    BY <1>5 DEF Connect, Disconnect, IInv, TypeOK, FlagIsExact, FreshIds, OneRunAtATime,
                RunningIsAlive, NoLostWakeup, Pending
  <1>6. CASE UNCHANGED vars
    BY <1>6 DEF vars, IInv, TypeOK, FlagIsExact, FreshIds, OneRunAtATime,
                RunningIsAlive, NoLostWakeup, Pending
  <1> QED BY <1>1, <1>2, <1>3, <1>4, <1>5, <1>6

(* Every callback keeps the invariant.                                     *)
LEMMA StepInvariant == IInv /\ [Next]_vars => IInv'
  <1> SUFFICES ASSUME IInv, [Next]_vars PROVE IInv'
    OBVIOUS
  <1>1. ASSUME NEW t \in Targets, Enqueue(t) PROVE IInv'
    <2>1. <<t>> \in Seq(Targets)
      OBVIOUS
    <2> QED BY <1>1, <2>1, PushInvariant DEF Enqueue
  <1>2. ASSUME NEW ss \in StackLists, NEW vs \in VariantLists, EnqueueBatch(ss, vs)
        PROVE  IInv'
    <2>1. Product(ss, vs) \in Seq(Targets)
      BY ListsAssumption
    <2> QED BY <1>2, <2>1, PushInvariant DEF EnqueueBatch
  <1>3. ASSUME NEW i \in JobIds, CancelJob(i) PROVE IInv'
    BY <1>3, CancelInvariant
  <1>4. ASSUME NEW i \in JobIds, ProcessNext(i) PROVE IInv'
    BY <1>4, ProcessNextInvariant
  <1>5. ASSUME NEW i \in JobIds, NEW s \in {"done", "failed"}, RunShCloses(i, s)
        PROVE  IInv'
    BY <1>5, RunShClosesInvariant
  <1> QED
    BY <1>1, <1>2, <1>3, <1>4, <1>5, ClearInvariant, OtherInvariant DEF Next

(* The invariant holds in every reachable state of the server.             *)
LEMMA Invariance == SafetySpec => []IInv
  BY InitInvariant, StepInvariant, PTL DEF SafetySpec

(* Type correctness of the queue. *)
THEOREM TypeCorrect == SafetySpec => []TypeOK
  BY Invariance, PTL DEF IInv

(* Jobs are processed one at a time, whatever is posted, canceled or       *)
(* cleared meanwhile.                                                      *)
THEOREM OneAtATime == SafetySpec => []OneRunAtATime
  BY Invariance, PTL DEF IInv

(* A pending job is never forgotten: the server is busy or will look again. *)
THEOREM WakeupIsKept == SafetySpec => []NoLostWakeup
  BY Invariance, PTL DEF IInv

(* A job shows as running exactly while its run.sh is alive.               *)
THEOREM RunningMeansAlive == SafetySpec => []RunningIsAlive
  BY Invariance, PTL DEF IInv

(* All connected browsers always show the server's queue.                  *)
THEOREM BrowsersInSync == SafetySpec => []ViewsInSync
  <1>1. Init => ViewsInSync
    BY DEF Init, ViewsInSync
  <1>2. IInv /\ ViewsInSync /\ [Next]_vars => ViewsInSync'
    <2> SUFFICES ASSUME IInv, ViewsInSync, [Next]_vars, NEW c \in Clients
                 PROVE  views'[c] \in {Offline, queue'}
      BY DEF ViewsInSync
    <2>1. CASE BroadcastQueue
      BY <2>1 DEF BroadcastQueue
    <2>2. CASE UNCHANGED <<queue, views>>
      BY <2>2 DEF ViewsInSync
    <2>3. ASSUME NEW d \in Clients, Connect(d) \/ Disconnect(d)
          PROVE  views'[c] \in {Offline, queue'}
      BY <2>3 DEF Connect, Disconnect, ViewsInSync, IInv, TypeOK
    <2> QED
      BY <2>1, <2>2, <2>3 DEF Next, vars, Enqueue, EnqueueBatch, Push, CancelJob,
           ClearCompletedJobs, ProcessNextIdle, ProcessNext, RunShMakesDir,
           RunShCloses, BuildCloses, RemoveRun
  <1> QED BY <1>1, <1>2, Invariance, PTL DEF SafetySpec

(* A job's status only moves forward; in particular a running job cannot   *)
(* be canceled and a canceled one never runs.                              *)
THEOREM StatusesAdvance == SafetySpec => StatusOnlyAdvances
  <1> DEFINE Advances(i) ==
        LET s == queue[i].status
            t == queue'[i].status
        IN s # t =>
            \/ s = "pending" /\ t \in {"running", "canceled"}
            \/ s = "running" /\ t \in {"done", "failed"}
            \/ s \in COMPLETED_STATUSES /\ t = "absent"
            \/ s = "absent" /\ t = "pending" /\ i >= jobIdCounter
  <1>1. IInv /\ [Next]_vars => [\A i \in JobIds : Advances(i)]_vars
    <2> SUFFICES ASSUME IInv, Next, NEW i \in JobIds PROVE Advances(i)
      OBVIOUS
    <2>1. ASSUME NEW ts \in Seq(Targets), Push(ts) PROVE Advances(i)
      <3>1. CASE i >= jobIdCounter
        BY <2>1, <3>1 DEF Push, IInv, FreshIds, TypeOK
      <3>2. CASE ~(i >= jobIdCounter)
        BY <2>1, <3>2 DEF Push, IInv, TypeOK, JobIds
      <3> QED BY <3>1, <3>2
    <2>2. ASSUME NEW t \in Targets, Enqueue(t) PROVE Advances(i)
      <3>1. <<t>> \in Seq(Targets)
        OBVIOUS
      <3> QED BY <2>1, <2>2, <3>1 DEF Enqueue
    <2>3. ASSUME NEW ss \in StackLists, NEW vs \in VariantLists, EnqueueBatch(ss, vs)
          PROVE  Advances(i)
      BY <2>1, <2>3, ListsAssumption DEF EnqueueBatch
    <2>4. ASSUME NEW j \in JobIds, CancelJob(j) PROVE Advances(i)
      BY <2>4, OneJobChanges DEF CancelJob, IInv, TypeOK, Statuses
    <2>5. CASE ClearCompletedJobs
      BY <2>5 DEF ClearCompletedJobs, Absent
    <2>6. ASSUME NEW j \in JobIds, ProcessNext(j) PROVE Advances(i)
      BY <2>6, OneJobChanges DEF ProcessNext, FirstPending, Pending, IInv, TypeOK, Statuses
    <2>7. ASSUME NEW j \in JobIds, NEW s \in {"done", "failed"}, RunShCloses(j, s)
          PROVE  Advances(i)
      <3>1. queue[j].status = "running"
        BY <2>7 DEF RunShCloses, IInv, RunningIsAlive
      <3>2. queue \in [JobIds -> Jobs]
        BY DEF IInv, TypeOK
      <3>3. PICK r : queue' = [queue EXCEPT ![j].status = s, ![j].runId = r]
        BY <2>7 DEF RunShCloses
      <3>4. CASE i = j
        BY <3>1, <3>2, <3>3, <3>4 DEF Jobs
      <3>5. CASE i # j
        BY <3>2, <3>3, <3>5
      <3> QED BY <3>4, <3>5
    <2>8. CASE UNCHANGED queue
      BY <2>8
    <2> QED
      BY <2>2, <2>3, <2>4, <2>5, <2>6, <2>7, <2>8 DEF Next, ProcessNextIdle,
         RunShMakesDir, BuildCloses, RemoveRun, Connect, Disconnect
  <1> QED BY <1>1, Invariance, PTL DEF SafetySpec, StatusOnlyAdvances

-----------------------------------------------------------------------------
(* The directories of results/ while a job runs.                           *)

(* No directory is newer than the clock, and each job's run.sh made it.    *)
DirsAreKnown ==
  \A d \in results : d.stamp <= clock /\ (d.by # 0 => d.by \in made)

(* The directory of a live run.sh is of its target and newer than all the  *)
(* others: nothing else makes one meanwhile.                               *)
OwnDirIsNewest ==
  \A i \in runShs : \A d \in results : d.by = i =>
    /\ d.target = queue[i].target
    /\ \A e \in results : e # d => e.stamp < d.stamp

(* A job that has made a directory, or whose viewer data is built, is not  *)
(* one that will be taken.                                                 *)
TakenOnce ==
  \A i \in made \cup builds : i < jobIdCounter /\ queue[i].status # "pending"

DirInv == DirsAreKnown /\ OwnDirIsNewest /\ TakenOnce /\ OwnRunIsFound

LEMMA DirInit == Init => DirInv
  <1> SUFFICES ASSUME Init PROVE DirInv
    OBVIOUS
  <1>1. runShs = {} /\ builds = {} /\ made = {} /\ clock = 0
        /\ \A d \in results : d.stamp = 0 /\ d.by = 0
    BY DEF Init
  <1> QED BY <1>1 DEF DirInv, DirsAreKnown, OwnDirIsNewest, TakenOnce, OwnRunIsFound

(* A callback that starts no process and makes no directory, and changes   *)
(* no job that was taken, except that it may clear a finished one.         *)
LEMMA DirKept ==
  ASSUME IInv, DirInv, IInv', UNCHANGED <<runShs, made, clock>>,
         results' \subseteq results, builds' \subseteq builds,
         jobIdCounter <= jobIdCounter',
         \A i \in JobIds : i < jobIdCounter /\ queue[i].status # "pending" =>
           queue'[i] = queue[i] \/ (i \notin runShs /\ queue'[i].status = "absent")
  PROVE  DirInv'
  <1>1. /\ made \subseteq JobIds /\ builds \subseteq JobIds /\ runShs \subseteq JobIds
        /\ jobIdCounter \in Nat /\ jobIdCounter' \in Nat /\ JobIds \subseteq Nat
    BY DEF IInv, TypeOK, JobIds
  <1>2. DirsAreKnown'
    BY DEF DirInv, DirsAreKnown
  <1>3. TakenOnce'
    BY <1>1 DEF DirInv, TakenOnce
  <1>4. \A i \in runShs : queue'[i] = queue[i]
    <2>1. \A i \in runShs : i < jobIdCounter /\ queue[i].status = "running"
      <3>1. \A i \in JobIds : i >= jobIdCounter \/ i < jobIdCounter
        BY <1>1
      <3> QED BY <1>1, <3>1 DEF IInv, FreshIds, RunningIsAlive
    <2> QED BY <1>1, <2>1
  <1>5. OwnDirIsNewest'
    BY <1>4 DEF DirInv, OwnDirIsNewest
  <1>6. OwnRunIsFound'
    BY <1>1 DEF DirInv, OwnRunIsFound, TakenOnce
  <1> QED BY <1>2, <1>3, <1>5, <1>6 DEF DirInv

(* A job that is taken has not run before: nothing is by it yet.           *)
LEMMA DirProcessNext ==
  ASSUME IInv, DirInv, NEW i \in JobIds, ProcessNext(i)
  PROVE  DirInv'
  <1>1. runShs = {} /\ builds = {} /\ i \in Pending
    BY DEF ProcessNext, FirstPending, IInv, FlagIsExact
  <1>2. /\ runShs' = {i} /\ UNCHANGED <<builds, made, results, clock, jobIdCounter>>
        /\ queue' = [queue EXCEPT ![i].status = "running"]
    BY <1>1 DEF ProcessNext
  <1>3. i \notin made /\ i # 0 /\ queue \in [JobIds -> Jobs] /\ made \subseteq JobIds
    BY <1>1 DEF DirInv, TakenOnce, Pending, JobIds, IInv, TypeOK
  <1>4. \A d \in results : d.by # i
    BY <1>3 DEF DirInv, DirsAreKnown
  <1>5. \A j \in made : queue'[j] = queue[j]
    BY <1>2, <1>3
  <1> QED BY <1>1, <1>2, <1>4, <1>5
          DEF DirInv, DirsAreKnown, OwnDirIsNewest, TakenOnce, OwnRunIsFound

(* The new directory is the newest, and the only one of its job.           *)
LEMMA DirMade ==
  ASSUME IInv, DirInv, NEW i \in JobIds, RunShMakesDir(i)
  PROVE  DirInv'
  <1> DEFINE new == [target |-> queue[i].target, stamp |-> clock + 1, by |-> i]
  <1>1. /\ i \in runShs /\ i \notin made /\ i # 0
        /\ made' = made \cup {i} /\ clock' = clock + 1 /\ results' = results \cup {new}
        /\ UNCHANGED <<queue, jobIdCounter, runShs, builds>>
    BY DEF RunShMakesDir, JobIds
  <1>2. /\ clock \in Nat /\ \A d \in results : d.stamp \in Nat /\ d.stamp <= clock
        /\ \A d \in results : d.by # i
    BY <1>1 DEF DirInv, DirsAreKnown, IInv, TypeOK, RunDirs
  <1>3. runShs = {i} /\ builds = {}
    BY <1>1 DEF IInv, OneRunAtATime
  <1>4. i < jobIdCounter /\ queue[i].status = "running"
    BY <1>1 DEF IInv, FreshIds, RunningIsAlive, TypeOK, JobIds
  <1>5. DirsAreKnown'
    BY <1>1, <1>2 DEF DirInv, DirsAreKnown
  <1>6. OwnDirIsNewest'
    BY <1>1, <1>2, <1>3 DEF OwnDirIsNewest
  <1>7. TakenOnce' /\ OwnRunIsFound'
    BY <1>1, <1>3, <1>4 DEF DirInv, TakenOnce, OwnRunIsFound
  <1> QED BY <1>5, <1>6, <1>7 DEF DirInv

(* findRunId finds the newest directory, which is the one of this job.     *)
LEMMA DirCloses ==
  ASSUME IInv, DirInv, NEW i \in JobIds, NEW s \in {"done", "failed"}, RunShCloses(i, s)
  PROVE  DirInv'
  <1>1. /\ i \in runShs /\ runShs = {i} /\ builds = {}
        /\ runShs' = {} /\ builds' = {i}
        /\ UNCHANGED <<jobIdCounter, made, results, clock>>
    BY DEF RunShCloses, IInv, OneRunAtATime
  <1>2. PICK run \in FindRunId(queue[i].target, results) :
          queue' = [queue EXCEPT ![i].status = s, ![i].runId = run]
    BY DEF RunShCloses
  <1>3. /\ queue'[i].status = s /\ queue'[i].runId = run
        /\ \A j \in JobIds : j # i => queue'[j] = queue[j]
    BY <1>2 DEF IInv, TypeOK, Jobs
  <1>4. ASSUME NEW d \in results, d.by = i PROVE run = d
    <2>1. d.target = queue[i].target /\ \A e \in results : e # d => e.stamp < d.stamp
      BY <1>1, <1>4 DEF DirInv, OwnDirIsNewest
    <2>2. run \in results /\ d.stamp <= run.stamp
      BY <2>1 DEF FindRunId
    <2>3. d.stamp \in Nat /\ run.stamp \in Nat
      BY <2>2 DEF IInv, TypeOK, RunDirs
    <2> QED BY <2>1, <2>2, <2>3
  <1>5. OwnRunIsFound'
    BY <1>1, <1>3, <1>4 DEF OwnRunIsFound
  <1>6. i < jobIdCounter /\ made \subseteq JobIds
    BY <1>1 DEF IInv, FreshIds, RunningIsAlive, TypeOK, JobIds
  <1>7. TakenOnce'
    BY <1>1, <1>3, <1>6 DEF DirInv, TakenOnce
  <1>8. DirsAreKnown' /\ OwnDirIsNewest'
    BY <1>1 DEF DirInv, DirsAreKnown, OwnDirIsNewest
  <1> QED BY <1>5, <1>7, <1>8 DEF DirInv

(* Every callback keeps what is known of the directories.                  *)
LEMMA DirStep == IInv /\ DirInv /\ [Next]_vars => DirInv'
  <1> SUFFICES ASSUME IInv, DirInv, [Next]_vars PROVE DirInv'
    OBVIOUS
  <1>1. IInv' /\ jobIdCounter \in Nat /\ queue \in [JobIds -> Jobs]
    BY StepInvariant DEF IInv, TypeOK
  <1>2. ASSUME NEW ts \in Seq(Targets), Push(ts) PROVE DirInv'
    <2>1. /\ UNCHANGED <<runShs, made, builds, clock, results>>
          /\ jobIdCounter <= jobIdCounter'
          /\ \A i \in JobIds : i < jobIdCounter => queue'[i] = queue[i]
      BY <1>1, <1>2 DEF Push, JobIds
    <2> QED BY <1>1, <2>1, DirKept
  <1>3. ASSUME NEW i \in JobIds, CancelJob(i) PROVE DirInv'
    <2>1. /\ UNCHANGED <<runShs, made, builds, clock, results, jobIdCounter>>
          /\ queue[i].status = "pending" /\ \A j \in JobIds : j # i => queue'[j] = queue[j]
      BY <1>1, <1>3 DEF CancelJob
    <2> QED BY <1>1, <2>1, DirKept
  <1>4. CASE ClearCompletedJobs
    <2>1. /\ UNCHANGED <<runShs, made, builds, clock, results, jobIdCounter>>
          /\ \A i \in JobIds : \/ queue'[i] = queue[i]
                               \/ queue[i].status \in COMPLETED_STATUSES /\ queue'[i].status = "absent"
      BY <1>4 DEF ClearCompletedJobs, Absent
    <2>2. \A i \in JobIds : queue[i].status \in COMPLETED_STATUSES => i \notin runShs
      BY DEF IInv, RunningIsAlive, COMPLETED_STATUSES
    <2> QED BY <1>1, <2>1, <2>2, DirKept
  <1>5. ASSUME NEW i \in JobIds, BuildCloses(i) PROVE DirInv'
    BY <1>1, <1>5, DirKept DEF BuildCloses
  <1>6. ASSUME NEW d \in results, RemoveRun(d) PROVE DirInv'
    BY <1>1, <1>6, DirKept DEF RemoveRun
  <1>7. CASE UNCHANGED <<queue, jobIdCounter, runShs, made, builds, results, clock>>
    BY <1>1, <1>7, DirKept
  <1>8. \A t \in Targets : <<t>> \in Seq(Targets)
    OBVIOUS
  <1> QED
    BY <1>2, <1>3, <1>4, <1>5, <1>6, <1>7, <1>8, ListsAssumption, DirProcessNext, DirMade, DirCloses
       DEF Next, vars, Enqueue, EnqueueBatch, ProcessNextIdle, Connect, Disconnect

(* A job whose run.sh made a directory that is still there has that        *)
(* directory as its runId, however many other runs of the same stack and   *)
(* variant there are: no other process makes one before the lookup.        *)
THEOREM OwnRunIsAlwaysFound == SafetySpec => []OwnRunIsFound
  <1>1. DirInv => OwnRunIsFound
    BY DEF DirInv
  <1> QED BY DirInit, DirStep, Invariance, <1>1, PTL DEF SafetySpec

(* The queue implements the serial executor, but for the executor's        *)
(* fairness: every step is a step of the executor or leaves it alone.      *)
THEOREM ImplementsSafely == SafetySpec => Serial!SafetySpec
  <1>1. Init => Serial!Init
    <2> SUFFICES ASSUME Init PROVE Serial!Init
      OBVIOUS
    <2>1. Pending = {}
      BY DEF Init, Pending, Absent
    <2> QED BY <2>1 DEF Init, Serial!Init
  <1>2. IInv /\ [Next]_vars => [Serial!Next]_(Serial!vars)
    <2> SUFFICES ASSUME IInv, [Next]_vars PROVE [Serial!Next]_(Serial!vars)
      OBVIOUS
    <2> USE DEF Serial!vars
    <2>0. queue \in [JobIds -> Jobs] /\ jobIdCounter \in 1..(MaxJobs + 1)
      BY DEF IInv, TypeOK
    <2>1. ASSUME NEW ts \in Seq(Targets), Push(ts) PROVE Serial!Next
      <3>1. Len(ts) \in 1..MaxJobs
        BY <2>0, <2>1 DEF Push
      <3>2. Pending' = Pending \cup (jobIdCounter..(jobIdCounter + Len(ts) - 1))
        <4>1. \A i \in JobIds : queue'[i].status = "pending" <=>
                 \/ i \in jobIdCounter..(jobIdCounter + Len(ts) - 1)
                 \/ queue[i].status = "pending"
          BY <2>1 DEF Push
        <4>2. jobIdCounter..(jobIdCounter + Len(ts) - 1) \subseteq JobIds
          BY <2>0, <2>1, <3>1 DEF Push, JobIds
        <4> QED BY <4>1, <4>2 DEF Pending
      <3>3. Serial!Submit(Len(ts))
        BY <2>0, <2>1, <3>1, <3>2 DEF Push, Serial!Submit
      <3> QED BY <3>1, <3>3 DEF Serial!Next
    <2>2. ASSUME NEW t \in Targets, Enqueue(t) PROVE Serial!Next
      <3>1. <<t>> \in Seq(Targets)
        OBVIOUS
      <3> QED BY <2>1, <2>2, <3>1 DEF Enqueue
    <2>3. ASSUME NEW ss \in StackLists, NEW vs \in VariantLists, EnqueueBatch(ss, vs)
          PROVE  Serial!Next
      BY <2>1, <2>3, ListsAssumption DEF EnqueueBatch
    <2>4. ASSUME NEW i \in JobIds, CancelJob(i) PROVE Serial!Next
      <3>1. i \in Pending /\ Pending' = Pending \ {i}
        BY <2>0, <2>4, OneJobChanges DEF CancelJob, Pending, Statuses
      <3>2. Serial!Withdraw(i)
        BY <2>4, <3>1 DEF CancelJob, Serial!Withdraw
      <3> QED BY <3>1, <3>2 DEF Serial!Next
    <2>5. CASE ClearCompletedJobs
      <3>1. Pending' = Pending
        BY <2>5 DEF ClearCompletedJobs, Pending, Absent, COMPLETED_STATUSES
      <3> QED BY <2>5, <3>1 DEF ClearCompletedJobs
    <2>6. ASSUME NEW i \in JobIds, ProcessNext(i) PROVE Serial!Next
      <3>1. i \in Pending /\ Pending' = Pending \ {i}
        BY <2>0, <2>6, OneJobChanges DEF ProcessNext, FirstPending, Pending, Statuses
      <3>2. runShs = {} /\ builds = {}
        BY <2>6 DEF ProcessNext, FirstPending, IInv, FlagIsExact
      <3>3. Serial!Start(i)
        BY <2>6, <3>1, <3>2 DEF ProcessNext, FirstPending, Serial!Start
      <3> QED BY <3>1, <3>3 DEF Serial!Next
    <2>7. ASSUME NEW i \in JobIds, NEW s \in {"done", "failed"}, RunShCloses(i, s)
          PROVE  UNCHANGED Serial!vars
      <3>1. queue[i].status = "running"
        BY <2>7 DEF RunShCloses, IInv, RunningIsAlive
      <3>2. PICK r : queue' = [queue EXCEPT ![i].status = s, ![i].runId = r]
        BY <2>7 DEF RunShCloses
      <3>3. \A j \in JobIds : queue'[j].status = "pending" <=> queue[j].status = "pending"
        BY <2>0, <3>1, <3>2 DEF Jobs
      <3>4. Pending' = Pending
        BY <3>3 DEF Pending
      <3> QED BY <2>7, <3>4 DEF RunShCloses
    <2>8. ASSUME NEW i \in JobIds, BuildCloses(i) PROVE Serial!Next
      <3>1. runShs' \cup builds' = {} /\ runShs \cup builds # {}
        BY <2>8 DEF BuildCloses, IInv, OneRunAtATime
      <3>2. Serial!Finish
        BY <2>8, <3>1 DEF BuildCloses, Serial!Finish, Pending
      <3> QED BY <3>2 DEF Serial!Next
    <2>9. CASE UNCHANGED <<queue, jobIdCounter, runShs, builds>>
      BY <2>9 DEF Pending
    <2> QED
      BY <2>2, <2>3, <2>4, <2>5, <2>6, <2>7, <2>8, <2>9 DEF Next, vars, ProcessNextIdle,
         RunShMakesDir, RemoveRun, Connect, Disconnect
  <1> QED BY <1>1, <1>2, Invariance, PTL DEF SafetySpec, Serial!SafetySpec
=============================================================================
