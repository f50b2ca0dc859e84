----------------------------- MODULE ViewerData -----------------------------
(***************************************************************************)
(* The results of finished runs and the viewer data made from them.        *)
(*                                                                         *)
(* run.sh makes results/<run id>/ first and writes run-meta.json last;     *)
(* runs.mjs relabels and deletes finished runs on request; after every     *)
(* change, after every job and every 15 s the server spawns                *)
(* build-data.mjs, which reads results/ and writes data/index.json and     *)
(* data/runs/<run id>.json. Builds are processes of their own: they run    *)
(* beside each other and beside the handlers, which are synchronous until  *)
(* they await their build.                                                 *)
(*                                                                         *)
(* A run is reduced to its suite label. That the queue runs one job at a   *)
(* time is the subject of JobQueue.                                        *)
(***************************************************************************)
EXTENDS Naturals, FiniteSets

CONSTANTS
  Runs,           \* run ids, in the order of their names
  Labels,         \* suite labels, as clients and SUITE_NAME give them
  Trimmed,        \* [Labels -> Labels]: String.prototype.trim
  Requests,       \* requests that may be under way at a time
  MaxEvents       \* bound on requests, removals by hand and failing builds

ASSUME ViewerAssumption ==
  /\ Runs \subseteq Nat /\ IsFiniteSet(Runs)
  /\ Trimmed \in [Labels -> Labels] /\ MaxEvents \in Nat
  /\ Labels \cap {"none", "unborn", "running", "gone", "absent"} = {}
  /\ Requests \cap {"timer", "job"} = {}

Finished == Labels \cup {"none"}        \* run-meta.json is there and complete
OnDisk == Finished \cup {"running"}     \* the directory is there
Builders == Requests \cup {"timer", "job"}

VARIABLES
  disk,           \* each run in results/
  index,          \* the runs in index.json, with their labels
  details,        \* the runs that have a data/runs/<run id>.json
  build,          \* the build-data.mjs each awaits
  edit,           \* what the handler that runs has yet to do
  owed,           \* run.sh has closed, its build is not spawned yet
  timerBusy,      \* periodicRefreshRunning
  events          \* requests, removals and failures so far

files == <<disk, index, details>>
vars == <<files, build, edit, owed, timerBusy, events>>

Nothing == [r \in Runs |-> "absent"]
Fresh(phase) == [phase |-> phase, todo |-> {}, found |-> Nothing]
NoBuild == Fresh("idle")
Spawned == Fresh("spawned")
NoEdit == [by |-> "job", runs |-> {}, to |-> "none"]
-----------------------------------------------------------------------------
Init ==
  /\ disk \in [Runs -> {"unborn", "none"}]
  /\ index = Nothing
  /\ details = {}
  /\ build = [b \in Builders |-> NoBuild]
  /\ edit = NoEdit
  /\ owed = FALSE
  /\ timerBusy = FALSE
  /\ events = 0

(* One more event of those that are bounded. *)
Event == events < MaxEvents /\ events' = events + 1

(* run.sh makes the directory of a run; run ids end in the time of day.    *)
RunMakesDir(r) ==
  /\ disk[r] = "unborn"
  /\ disk' = [disk EXCEPT ![r] = "running"]
  /\ UNCHANGED <<index, details, build, edit, owed, timerBusy, events>>

(* run.sh writes run-meta.json with the label it was given, and closes:    *)
(* SUITE_NAME, or the suiteName of POST /api/queue, which is only trimmed  *)
(* for its answer. A run from the queue, one at a time, is owed a build.   *)
RunEnds(r, label, queued) ==
  /\ disk[r] = "running"
  /\ queued => ~owed /\ build["job"] = NoBuild
  /\ disk' = [disk EXCEPT ![r] = label]
  /\ owed' = (owed \/ queued)
  /\ UNCHANGED <<index, details, build, edit, timerBusy, events>>

(* Someone removes a run directory by hand. *)
RemoveByHand(r) ==
  /\ disk[r] \in OnDisk
  /\ Event
  /\ disk' = [disk EXCEPT ![r] = "gone"]
  /\ UNCHANGED <<index, details, build, edit, owed, timerBusy>>

(* A request for some runs starts; nothing else runs in the server until   *)
(* it has gone through them. Requests that are refused change nothing.     *)
Start(q, runs, to) ==
  /\ edit = NoEdit /\ build[q] = NoBuild
  /\ runs # {}
  /\ Event
  /\ edit' = [by |-> q, runs |-> runs, to |-> to]
  /\ UNCHANGED <<files, build, owed, timerBusy>>

(* Mutant: normalizeRunIds looks for the directory. *)
Known_Directories == {r \in Runs : disk[r] \in OnDisk}

(* normalizeRunIds: a run that is under way has no readable meta. *)
Known == {r \in Runs : disk[r] \in Finished}

AssignSuite(q, runs, name) == runs \subseteq Known /\ Start(q, runs, Trimmed[name])
DeleteRuns(q, runs) == runs \subseteq Known /\ Start(q, runs, "gone")

(* listRunIdsInSuite, of the trimmed name. *)
InSuite(name) == {r \in Runs : disk[r] = Trimmed[name]}

DissolveSuite(q, name) == Start(q, InSuite(name), "none")
DeleteSuiteRuns(q, name) == Start(q, InSuite(name), "gone")

(* The handler deals with one run; after the last it spawns its build. A   *)
(* run that vanished meanwhile has no meta to label: the handler throws,   *)
(* with the other runs done or not and without a build.                    *)
EditRun(r) ==
  /\ r \in edit.runs
  /\ IF disk[r] \notin Finished /\ edit.to # "gone"
     THEN edit' = NoEdit /\ UNCHANGED <<disk, build>>
     ELSE /\ disk' = [disk EXCEPT ![r] = edit.to]
          /\ IF edit.runs = {r}
             THEN edit' = NoEdit /\ build' = [build EXCEPT ![edit.by] = Spawned]
             ELSE edit' = [edit EXCEPT !.runs = @ \ {r}] /\ UNCHANGED build
  /\ UNCHANGED <<index, details, owed, timerBusy, events>>

(* The close handler of run.sh. *)
JobRefresh ==
  /\ edit = NoEdit
  /\ owed /\ owed' = FALSE
  /\ build' = [build EXCEPT !["job"] = Spawned]
  /\ UNCHANGED <<files, edit, timerBusy, events>>

(* setInterval: every 15 s, unless the last periodic build is under way. *)
TimerRefresh ==
  /\ edit = NoEdit
  /\ ~timerBusy /\ timerBusy' = TRUE
  /\ build' = [build EXCEPT !["timer"] = Spawned]
  /\ UNCHANGED <<files, edit, owed, events>>
-----------------------------------------------------------------------------
(* build-data.mjs lists the directories. *)
ReadDirectory(b) ==
  /\ build[b].phase = "spawned"
  /\ build' = [build EXCEPT ![b].phase = "reading",
                            ![b].todo = {r \in Runs : disk[r] \in OnDisk}]
  /\ UNCHANGED <<files, edit, owed, timerBusy, events>>

IsNext(r, runs) == r \in runs /\ \A s \in runs : r <= s

(* Mutant: loadRun takes a run without a readable run-meta.json. *)
LoadRun_WithoutMeta(b) ==
  /\ build[b].phase = "reading"
  /\ \E r \in Runs :
       /\ IsNext(r, build[b].todo)
       /\ build' = [build EXCEPT ![b].todo = @ \ {r}, ![b].found[r] = disk[r]]
       /\ details' = details \cup {r}
  /\ UNCHANGED <<disk, index, edit, owed, timerBusy, events>>

(* It reads the next one and writes its data/runs/<run id>.json, unless    *)
(* there is no complete run-meta.json.                                     *)
LoadRun(b) ==
  /\ build[b].phase = "reading"
  /\ \E r \in Runs :
       /\ IsNext(r, build[b].todo)
       /\ IF disk[r] \in Finished
          THEN /\ build' = [build EXCEPT ![b].todo = @ \ {r}, ![b].found[r] = disk[r]]
               /\ details' = details \cup {r}
          ELSE build' = [build EXCEPT ![b].todo = @ \ {r}] /\ UNCHANGED details
  /\ UNCHANGED <<disk, index, edit, owed, timerBusy, events>>

(* Mutant: it drops the details of runs it has not found. *)
WriteIndex_Prunes(b) ==
  /\ build[b].phase = "reading" /\ build[b].todo = {}
  /\ index' = build[b].found
  /\ details' = {r \in details : build[b].found[r] # "absent"}
  /\ build' = [build EXCEPT ![b] = Fresh("exited")]
  /\ UNCHANGED <<disk, edit, owed, timerBusy, events>>

(* Mutant: without a run to list, the old list stays. *)
WriteIndex_WhenFound(b) ==
  /\ build[b].phase = "reading" /\ build[b].todo = {}
  /\ index' = IF build[b].found = Nothing THEN index ELSE build[b].found
  /\ build' = [build EXCEPT ![b] = Fresh("exited")]
  /\ UNCHANGED <<disk, details, edit, owed, timerBusy, events>>

(* Last, it writes index.json. *)
WriteIndex(b) ==
  /\ build[b].phase = "reading" /\ build[b].todo = {}
  /\ index' = build[b].found
  /\ build' = [build EXCEPT ![b] = Fresh("exited")]
  /\ UNCHANGED <<disk, details, edit, owed, timerBusy, events>>

(* It exits with an error before that. *)
BuildFails(b) ==
  /\ build[b].phase \in {"spawned", "reading"}
  /\ Event
  /\ build' = [build EXCEPT ![b] = Fresh("failed")]
  /\ UNCHANGED <<files, edit, owed, timerBusy>>

(* Mutant: a handler does not catch the error of its build. *)
BuildCloses_WithoutCatch(b) ==
  /\ edit = NoEdit
  /\ build[b].phase = "exited" \/ (build[b].phase = "failed" /\ b \notin Requests)
  /\ timerBusy' = (timerBusy /\ b # "timer")
  /\ build' = [build EXCEPT ![b] = NoBuild]
  /\ UNCHANGED <<files, edit, owed, events>>

(* The server learns of its end: whoever awaited it goes on, the request   *)
(* is answered, the timer may fire again.                                  *)
BuildCloses(b) ==
  /\ edit = NoEdit
  /\ build[b].phase \in {"exited", "failed"}
  /\ timerBusy' = (timerBusy /\ b # "timer")
  /\ build' = [build EXCEPT ![b] = NoBuild]
  /\ UNCHANGED <<files, edit, owed, events>>
-----------------------------------------------------------------------------
Request(q) ==
  \/ \E runs \in SUBSET Runs :
       DeleteRuns(q, runs) \/ \E name \in Labels : AssignSuite(q, runs, name)
  \/ \E name \in Labels : DissolveSuite(q, name) \/ DeleteSuiteRuns(q, name)

Build(b) == ReadDirectory(b) \/ LoadRun(b) \/ WriteIndex(b)

Next ==
  \/ \E r \in Runs :
       \/ RunMakesDir(r) \/ RemoveByHand(r) \/ EditRun(r)
       \/ \E label \in Finished, queued \in BOOLEAN : RunEnds(r, label, queued)
  \/ \E q \in Requests : Request(q)
  \/ JobRefresh \/ TimerRefresh
  \/ \E b \in Builders : Build(b) \/ BuildFails(b) \/ BuildCloses(b)

(* Handlers run to their end, the timer fires, processes that were spawned *)
(* end and their end is reported. A run need not end.                      *)
Fairness ==
  /\ WF_vars(\E r \in Runs : EditRun(r))
  /\ WF_vars(JobRefresh) /\ WF_vars(TimerRefresh)
  /\ \A b \in Builders : WF_vars(Build(b)) /\ WF_vars(BuildCloses(b))

Spec == Init /\ [][Next]_vars
FairSpec == Spec /\ Fairness
-----------------------------------------------------------------------------
Phases == {"idle", "spawned", "reading", "exited", "failed"}

(* Every variable has its type. *)
TypeOK ==
  /\ disk \in [Runs -> OnDisk \cup {"unborn", "gone"}]
  /\ index \in [Runs -> Finished \cup {"absent"}]
  /\ details \subseteq Runs
  /\ build \in [Builders -> [phase : Phases, todo : SUBSET Runs,
                             found : [Runs -> Finished \cup {"absent"}]]]
  /\ edit \in [by : Builders, runs : SUBSET Runs, to : Finished \cup {"gone"}]
  /\ owed \in BOOLEAN /\ timerBusy \in BOOLEAN
  /\ events \in 0..MaxEvents

(* Every run in the list of the viewer can be opened, whichever of several *)
(* builds wrote the list and whatever was removed meanwhile.               *)
ListedHasDetail == \A r \in Runs : index[r] # "absent" => r \in details

(* A run that is still being measured is never shown, relabelled or        *)
(* deleted by a request: only when its results are complete.               *)
UnfinishedIsLeftAlone ==
  \A r \in Runs : disk[r] \in {"unborn", "running"} => index[r] = "absent" /\ r \notin edit.runs

(* When requests and failures end, the viewer comes to list what is in     *)
(* results/ and stays so: a list that an older build wrote over a newer    *)
(* one, or that a failed build left behind, does not last.                 *)
InStep == \A r \in Runs : index[r] = IF disk[r] \in Finished THEN disk[r] ELSE "absent"
ViewerCatchesUp == <>[]InStep

(* Every request is answered, also when its build fails. *)
RequestsAreAnswered ==
  \A q \in Requests : edit.by = q \/ build[q] # NoBuild ~> edit.by # q /\ build[q] = NoBuild

(* A suite that a run carries can be dissolved by the name it carries.     *)
SuitesCanBeDissolved == \A r \in Runs : disk[r] \in Labels => InSuite(disk[r]) # {}
=============================================================================
