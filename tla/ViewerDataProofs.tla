-------------------------- MODULE ViewerDataProofs ---------------------------
(***************************************************************************)
(* Proofs about ViewerData, for any runs, labels, number of requests and   *)
(* of overlapping builds.                                                  *)
(***************************************************************************)
EXTENDS ViewerData, TLAPS

(* The run has ended: complete, or removed. No run goes back from there.   *)
Ended(r) == disk[r] \notin {"unborn", "running"}

(* A list, in index.json or in the memory of a build, is of ended runs     *)
(* whose details are written.                                              *)
Sound(list) == \A r \in Runs : list[r] # "absent" => r \in details /\ Ended(r)

IInv ==
  /\ TypeOK
  /\ Sound(index)
  /\ \A b \in Builders : Sound(build[b].found)
  /\ \A r \in edit.runs : Ended(r)

(* The values a run on disk may have are all different.                    *)
LEMMA DistinctValues ==
  /\ \A l \in Finished : l \notin {"unborn", "running", "gone", "absent"}
  /\ Finished \subseteq OnDisk
  /\ "job" \in Builders /\ "timer" \in Builders
  BY ViewerAssumption DEF Finished, OnDisk, Builders

LEMMA EmptyBuilds ==
  /\ Nothing \in [Runs -> Finished \cup {"absent"}] /\ Sound(Nothing)
  /\ \A p \in Phases :
       /\ Fresh(p) \in [phase : Phases, todo : SUBSET Runs,
                        found : [Runs -> Finished \cup {"absent"}]]
       /\ Fresh(p).found = Nothing
  <1>1. Nothing \in [Runs -> Finished \cup {"absent"}] /\ Sound(Nothing)
    BY DEF Nothing, Sound
  <1> QED BY <1>1 DEF Fresh

LEMMA InitInvariant == Init => IInv
  <1> SUFFICES ASSUME Init PROVE IInv
    OBVIOUS
  <1>1. /\ NoBuild.found = Nothing
        /\ NoBuild \in [phase : Phases, todo : SUBSET Runs,
                        found : [Runs -> Finished \cup {"absent"}]]
    BY EmptyBuilds DEF NoBuild, Phases
  <1>2. build = [b \in Builders |-> NoBuild] /\ index = Nothing /\ details = {}
    BY DEF Init
  <1>3. \A b \in Builders : Sound(build[b].found)
    BY <1>1, <1>2, EmptyBuilds
  <1>4. TypeOK
    <2>1. build \in [Builders -> [phase : Phases, todo : SUBSET Runs,
                                  found : [Runs -> Finished \cup {"absent"}]]]
      BY <1>1, <1>2
    <2>2. NoEdit \in [by : Builders, runs : SUBSET Runs, to : Finished \cup {"gone"}]
      BY DistinctValues DEF NoEdit, Finished
    <2>3. disk \in [Runs -> OnDisk \cup {"unborn", "gone"}]
      BY DEF Init, OnDisk, Finished
    <2>4. events \in 0..MaxEvents
      BY ViewerAssumption DEF Init
    <2>5. owed \in BOOLEAN /\ timerBusy \in BOOLEAN
      BY DEF Init
    <2>6. index \in [Runs -> Finished \cup {"absent"}] /\ details \subseteq Runs
      BY <1>2, EmptyBuilds
    <2>7. edit = NoEdit
      BY DEF Init
    <2> QED BY <2>1, <2>2, <2>3, <2>4, <2>5, <2>6, <2>7 DEF TypeOK
  <1> QED BY <1>2, <1>3, <1>4, EmptyBuilds DEF IInv, Init, NoEdit

(* What happens on disk.                                                   *)
LEMMA DiskInvariant ==
  ASSUME IInv, NEW r \in Runs,
         \/ RunMakesDir(r) \/ RemoveByHand(r)
         \/ \E label \in Finished, queued \in BOOLEAN : RunEnds(r, label, queued)
  PROVE  IInv'
  <1>1. /\ UNCHANGED <<index, details, build, edit, timerBusy>>
        /\ owed' \in BOOLEAN /\ events' \in 0..MaxEvents
    BY ViewerAssumption DEF RunMakesDir, RemoveByHand, RunEnds, Event, IInv, TypeOK
  <1>2. PICK x \in OnDisk \cup {"gone"} :
          /\ disk' = [disk EXCEPT ![r] = x]
          /\ x = "running" => disk[r] = "unborn"
    BY DistinctValues DEF RunMakesDir, RemoveByHand, RunEnds, OnDisk
  <1>3. /\ disk' \in [Runs -> OnDisk \cup {"unborn", "gone"}]
        /\ \A q \in Runs : Ended(q) => Ended(q)'
    BY <1>2, DistinctValues DEF IInv, TypeOK, Ended, OnDisk
  <1>4. TypeOK'
    BY <1>1, <1>3 DEF IInv, TypeOK
  <1>5. \A q \in edit'.runs : Ended(q)'
    BY <1>1, <1>3 DEF IInv, TypeOK
  <1>6. Sound(index)' /\ \A b \in Builders : Sound(build[b].found)'
    BY <1>1, <1>3 DEF IInv, Sound
  <1> QED BY <1>4, <1>5, <1>6 DEF IInv

(* A request starts on runs that have ended.                               *)
LEMMA StartInvariant ==
  ASSUME IInv, NEW q \in Requests, Request(q)
  PROVE  IInv'
  <1>1. PICK runs \in SUBSET Known, to \in Finished \cup {"gone"} : Start(q, runs, to)
    BY ViewerAssumption
       DEF Request, DeleteRuns, AssignSuite, DissolveSuite, DeleteSuiteRuns, InSuite, Known, Finished
  <1>2. /\ UNCHANGED <<disk, index, details, build, owed, timerBusy>>
        /\ edit' = [by |-> q, runs |-> runs, to |-> to] /\ events' \in 0..MaxEvents
    BY <1>1, ViewerAssumption DEF Start, Event, files, IInv, TypeOK
  <1>3. \A r \in runs : Ended(r) /\ r \in Runs
    BY DistinctValues DEF Known, Ended
  <1>4. TypeOK'
    BY <1>2, <1>3 DEF IInv, TypeOK, Builders
  <1>5. \A r \in edit'.runs : Ended(r)'
    BY <1>2, <1>3 DEF Ended
  <1>6. Sound(index)' /\ \A b \in Builders : Sound(build[b].found)'
    BY <1>2 DEF IInv, Sound, Ended
  <1> QED BY <1>4, <1>5, <1>6 DEF IInv

(* A build is spawned, fails or is reported: it has found nothing.         *)
LEMMA EmptyInvariant ==
  ASSUME IInv, NEW b \in Builders, NEW p \in Phases,
         build' = [build EXCEPT ![b] = Fresh(p)],
         UNCHANGED details, \A r \in Runs : Ended(r) => Ended(r)',
         disk' \in [Runs -> OnDisk \cup {"unborn", "gone"}],
         edit' \in [by : Builders, runs : SUBSET Runs, to : Finished \cup {"gone"}],
         edit'.runs \subseteq edit.runs,
         index' = index \/ index' = build[b].found,
         owed' \in BOOLEAN, timerBusy' \in BOOLEAN, events' \in 0..MaxEvents
  PROVE  IInv'
  <1>1. /\ Fresh(p) \in [phase : Phases, todo : SUBSET Runs,
                         found : [Runs -> Finished \cup {"absent"}]]
        /\ Fresh(p).found = Nothing /\ Sound(Nothing)
    BY EmptyBuilds
  <1>2. TypeOK'
    <2>1. build' \in [Builders -> [phase : Phases, todo : SUBSET Runs,
                                   found : [Runs -> Finished \cup {"absent"}]]]
      BY <1>1 DEF IInv, TypeOK
    <2>2. index' \in [Runs -> Finished \cup {"absent"}]
      BY DEF IInv, TypeOK
    <2> QED BY <2>1, <2>2 DEF IInv, TypeOK
  <1>3. \A r \in edit'.runs : Ended(r)'
    BY DEF IInv, TypeOK
  <1>4. Sound(index)'
    BY DEF IInv, Sound
  <1>5. \A c \in Builders : Sound(build[c].found)'
    <2>1. \A c \in Builders : build'[c].found = build[c].found \/ build'[c].found = Nothing
      BY <1>1 DEF IInv, TypeOK
    <2> QED BY <1>1, <2>1 DEF IInv, Sound
  <1> QED BY <1>2, <1>3, <1>4, <1>5 DEF IInv

(* The handler relabels or removes runs that have ended.                   *)
LEMMA EditInvariant ==
  ASSUME IInv, NEW r \in Runs, EditRun(r)
  PROVE  IInv'
  <1>1. /\ UNCHANGED <<index, details, owed, timerBusy, events>>
        /\ edit \in [by : Builders, runs : SUBSET Runs, to : Finished \cup {"gone"}]
        /\ Ended(r)
    BY DEF EditRun, IInv, TypeOK
  <1>2. /\ disk' \in [Runs -> OnDisk \cup {"unborn", "gone"}]
        /\ \A q \in Runs : Ended(q) => Ended(q)'
    BY <1>1, DistinctValues DEF EditRun, IInv, TypeOK, Ended
  <1>3. /\ edit' \in [by : Builders, runs : SUBSET Runs, to : Finished \cup {"gone"}]
        /\ edit'.runs \subseteq edit.runs
    <2>1. CASE edit' = NoEdit
      BY <2>1, DistinctValues DEF NoEdit, Finished
    <2>2. CASE edit' = [edit EXCEPT !.runs = @ \ {r}]
      BY <1>1, <2>2
    <2> QED BY <2>1, <2>2 DEF EditRun
  <1>4. CASE UNCHANGED build
    <2>1. TypeOK' /\ \A q \in edit'.runs : Ended(q)'
      BY <1>1, <1>2, <1>3, <1>4 DEF IInv, TypeOK
    <2>2. Sound(index)' /\ \A b \in Builders : Sound(build[b].found)'
      BY <1>1, <1>2, <1>4 DEF IInv, Sound
    <2> QED BY <2>1, <2>2 DEF IInv
  <1>5. CASE build' = [build EXCEPT ![edit.by] = Fresh("spawned")]
    <2>1. edit.by \in Builders /\ "spawned" \in Phases
      BY <1>1 DEF Phases
    <2>2. owed' \in BOOLEAN /\ timerBusy' \in BOOLEAN /\ events' \in 0..MaxEvents
      BY <1>1 DEF IInv, TypeOK
    <2> QED BY <1>1, <1>2, <1>3, <1>5, <2>1, <2>2, EmptyInvariant
  <1> QED BY <1>4, <1>5 DEF EditRun, Spawned

(* Builds are spawned, finish, fail and are reported.                      *)
LEMMA BuildEndsInvariant ==
  ASSUME IInv, NEW b \in Builders,
         \/ JobRefresh \/ TimerRefresh
         \/ WriteIndex(b) \/ BuildFails(b) \/ BuildCloses(b)
  PROVE  IInv'
  <1>1. /\ UNCHANGED <<disk, details, edit>>
        /\ owed' \in BOOLEAN /\ timerBusy' \in BOOLEAN /\ events' \in 0..MaxEvents
    <2> USE DEF IInv, TypeOK, files
    <2>1. CASE JobRefresh \/ TimerRefresh
      BY <2>1 DEF JobRefresh, TimerRefresh
    <2>2. CASE WriteIndex(b) \/ BuildCloses(b)
      BY <2>2 DEF WriteIndex, BuildCloses
    <2>3. CASE BuildFails(b)
      BY <2>3, ViewerAssumption DEF BuildFails, Event
    <2> QED BY <2>1, <2>2, <2>3
  <1>2. /\ \A r \in Runs : Ended(r) => Ended(r)'
        /\ disk' \in [Runs -> OnDisk \cup {"unborn", "gone"}]
        /\ edit' \in [by : Builders, runs : SUBSET Runs, to : Finished \cup {"gone"}]
        /\ edit'.runs \subseteq edit.runs
    BY <1>1 DEF IInv, TypeOK, Ended
  <1>3. \E c \in Builders, p \in Phases :
          /\ build' = [build EXCEPT ![c] = Fresh(p)]
          /\ index' = index \/ index' = build[c].found
    BY DistinctValues DEF JobRefresh, TimerRefresh, WriteIndex, BuildFails, BuildCloses,
       files, Spawned, NoBuild, Phases
  <1> QED BY <1>1, <1>2, <1>3, EmptyInvariant

(* A build lists the directories and reads one: what it has found is       *)
(* complete, and its details are written.                                  *)
LEMMA ReadInvariant ==
  ASSUME IInv, NEW b \in Builders, ReadDirectory(b) \/ LoadRun(b)
  PROVE  IInv'
  <1> DEFINE type == [phase : Phases, todo : SUBSET Runs,
                      found : [Runs -> Finished \cup {"absent"}]]
  <1>1. UNCHANGED <<disk, index, edit, owed, timerBusy, events>>
    BY DEF ReadDirectory, LoadRun, files
  <1>2. build[b] \in type
    BY DEF IInv, TypeOK
  <1>3. \E new \in type :
          /\ build' = [build EXCEPT ![b] = new]
          /\ \/ new.found = build[b].found /\ details' = details
             \/ \E r \in Runs : /\ disk[r] \in Finished /\ details' = details \cup {r}
                               /\ new.found = [build[b].found EXCEPT ![r] = disk[r]]
    <2>1. CASE ReadDirectory(b)
      <3> DEFINE new == [build[b] EXCEPT !.phase = "reading",
                                         !.todo = {r \in Runs : disk[r] \in OnDisk}]
      <3>1. new \in type /\ new.found = build[b].found
        BY <1>2 DEF Phases
      <3>2. build' = [build EXCEPT ![b] = new] /\ details' = details
        BY <2>1 DEF ReadDirectory, files
      <3> QED BY <3>1, <3>2
    <2>2. CASE LoadRun(b)
      <3>1. PICK r \in Runs :
              IF disk[r] \in Finished
              THEN /\ build' = [build EXCEPT ![b].todo = @ \ {r}, ![b].found[r] = disk[r]]
                   /\ details' = details \cup {r}
              ELSE build' = [build EXCEPT ![b].todo = @ \ {r}] /\ UNCHANGED details
        BY <2>2 DEF LoadRun
      <3>2. CASE disk[r] \in Finished
        <4> DEFINE new == [build[b] EXCEPT !.todo = @ \ {r}, !.found[r] = disk[r]]
        <4>1. new \in type /\ new.found = [build[b].found EXCEPT ![r] = disk[r]]
          BY <1>2, <3>2
        <4>2. build' = [build EXCEPT ![b] = new] /\ details' = details \cup {r}
          BY <3>1, <3>2
        <4> QED BY <3>2, <4>1, <4>2
      <3>3. CASE disk[r] \notin Finished
        <4> DEFINE new == [build[b] EXCEPT !.todo = @ \ {r}]
        <4>1. new \in type /\ new.found = build[b].found
          BY <1>2
        <4>2. build' = [build EXCEPT ![b] = new] /\ details' = details
          BY <3>1, <3>3
        <4> QED BY <4>1, <4>2
      <3> QED BY <3>2, <3>3
    <2> QED BY <2>1, <2>2
  <1>4. PICK new \in type :
          /\ build' = [build EXCEPT ![b] = new]
          /\ \/ new.found = build[b].found /\ details' = details
             \/ \E r \in Runs : /\ disk[r] \in Finished /\ details' = details \cup {r}
                               /\ new.found = [build[b].found EXCEPT ![r] = disk[r]]
    BY <1>3
  <1>5. details \subseteq details' /\ details' \subseteq Runs
    BY <1>4 DEF IInv, TypeOK
  <1>6. TypeOK'
    BY <1>1, <1>4, <1>5 DEF IInv, TypeOK
  <1>7. \A r \in Runs : (Ended(r) <=> Ended(r)') /\ (disk[r] \in Finished => Ended(r))
    BY <1>1, DistinctValues DEF Ended
  <1>8. (\A r \in edit.runs : Ended(r))' /\ Sound(index)'
    BY <1>1, <1>5, <1>7 DEF IInv, TypeOK, Sound
  <1>9. \A c \in Builders : Sound(build[c].found)'
    <2> SUFFICES ASSUME NEW c \in Builders PROVE Sound(build[c].found)'
      OBVIOUS
    <2>1. CASE build'[c].found = build[c].found
      BY <1>5, <1>7, <2>1 DEF IInv, Sound
    <2>2. CASE c = b /\ new.found # build[b].found
      <3>1. PICK r \in Runs : /\ disk[r] \in Finished /\ details' = details \cup {r}
                              /\ new.found = [build[b].found EXCEPT ![r] = disk[r]]
        BY <1>4, <2>2
      <3>2. build'[c].found = [build[c].found EXCEPT ![r] = disk[r]]
        BY <1>4, <2>2, <3>1 DEF IInv, TypeOK
      <3> QED BY <1>2, <1>5, <1>7, <2>2, <3>1, <3>2 DEF IInv, Sound
    <2> QED BY <1>4, <2>1, <2>2 DEF IInv, TypeOK
  <1> QED BY <1>6, <1>8, <1>9 DEF IInv

LEMMA NextInvariant == IInv /\ [Next]_vars => IInv'
  <1> SUFFICES ASSUME IInv, [Next]_vars PROVE IInv'
    OBVIOUS
  <1>1. CASE UNCHANGED vars
    BY <1>1 DEF IInv, TypeOK, Sound, Ended, vars, files
  <1>2. ASSUME NEW r \in Runs, EditRun(r) PROVE IInv'
    BY <1>2, EditInvariant
  <1>3. ASSUME NEW r \in Runs,
               \/ RunMakesDir(r) \/ RemoveByHand(r)
               \/ \E label \in Finished, queued \in BOOLEAN : RunEnds(r, label, queued)
        PROVE  IInv'
    BY <1>3, DiskInvariant
  <1>4. ASSUME NEW q \in Requests, Request(q) PROVE IInv'
    BY <1>4, StartInvariant
  <1>5. ASSUME NEW b \in Builders,
               \/ JobRefresh \/ TimerRefresh
               \/ WriteIndex(b) \/ BuildFails(b) \/ BuildCloses(b)
        PROVE  IInv'
    BY <1>5, BuildEndsInvariant
  <1>6. ASSUME NEW b \in Builders, ReadDirectory(b) \/ LoadRun(b) PROVE IInv'
    BY <1>6, ReadInvariant
  <1> QED BY <1>1, <1>2, <1>3, <1>4, <1>5, <1>6, DistinctValues DEF Next, Build

LEMMA Invariant == Spec => []IInv
  BY InitInvariant, NextInvariant, PTL DEF Spec

(* Whatever runs end, are edited or vanish while any number of builds      *)
(* overlap, every variable keeps its type.                                 *)
THEOREM TypeCorrect == Spec => []TypeOK
  <1>1. IInv => TypeOK
    BY DEF IInv
  <1> QED BY <1>1, Invariant, PTL

(* However builds of the viewer data overlap and fail, and whatever        *)
(* handlers delete meanwhile, every listed run can be opened.              *)
THEOREM ListedCanBeOpened == Spec => []ListedHasDetail
  <1>1. IInv => ListedHasDetail
    BY DEF IInv, Sound, ListedHasDetail
  <1> QED BY <1>1, Invariant, PTL

(* No handler and no build touches or shows a run before run.sh has        *)
(* completed it.                                                           *)
THEOREM UnfinishedLeftAlone == Spec => []UnfinishedIsLeftAlone
  <1>1. IInv => UnfinishedIsLeftAlone
    BY DEF IInv, Sound, Ended, UnfinishedIsLeftAlone
  <1> QED BY <1>1, Invariant, PTL
=============================================================================
