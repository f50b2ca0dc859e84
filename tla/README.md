# TLA+ models of the multi-stack Petstore benchmark

The repository holds two systems. **The stacks** are seventeen implementations of
the Petstore HTTP API, in twelve languages, each on a database of its own in one
PostgreSQL server. **The harness** (`performance-tests/`) queues benchmark jobs,
runs each in Docker with k6, and shows the results in a browser. This directory
models the parts of both that have state and whose steps interleave, and the one
stack that brings its own HTTP layer: rust/hyper, whose generated server and client
make up most of the implementation's lines.

## Inventory

Paths are relative to the repository root; `PS` is `petshop-stacks`, `PT` is
`performance-tests`.

| Component | State | Operations | What is hard |
|---|---|---|---|
| Control server: queue (`PT/server/queue.mjs`, `index.mjs`) | job array, `running` flag, SSE clients | enqueue, batch, cancel, clear, processNext, ends of run.sh and build-data.mjs | callbacks interleave with the awaits of processNext; browsers only get changes |
| Control server: runs and suites (`PT/server/runs.mjs`) | `results/<run>/run-meta.json`, `results/archive/` | assign a label, dissolve, delete runs, delete a suite | labels are stored and compared after different normalisations; run.sh and builds use the same directories |
| Viewer data (`PT/server/dataRefresh.mjs`, `PT/viewer/scripts/build-data.mjs`) | `data/index.json`, `data/runs/*.json` | rebuild after a job, after a request, every 15 s | several builds overlap and write the same files |
| `PT/run.sh` | containers, images, results directory, database | build, start, wait, truncate, preseed, sample, k6, report | every step can fail; `set -e` does not hold in `run_one` |
| k6 scripts (`PT/k6`) | weights, one pool of pets per virtual user | setup, create, read, update, delete | pools start from copies of one seed list |
| Stacks: pets (17 repositories under `PS`) | tables `pet`, `pet_photo`, sequences | POST, PUT, form, DELETE, photo | the statements of concurrent requests interleave; seventeen variants of each operation |
| Stacks: users | table `"user"`, its sequence, row locks | create, create a list, update (rename), delete | the key is the username and the id is not unique; lists in one transaction, as a sequence, or all at once |
| Stacks: orders | table `"order"` | place, get, delete | single statements after the draw of an id |
| rust/hyper: generated crate (`PS/rust/hyper/src`) | connections, contexts with credentials | 19 operations: client method, router, authorization, handler | client and server each have their own table of paths, formats and codes; connections break |
| rust/hyper: application (`PS/rust/hyper/examples/server`) | table `"user"` | the same 19 operations | statements are awaited one by one, a broken connection drops the handler in between |
| Stacks: read caches (Spring, Helidon, Quarkus, Express, Fastify) | entries with a time to live | read-through, put, evict | a fill races with an eviction; one cache per process |
| Stacks: connection pools | free connections | acquire, release | a request that needs two connections |
| Database schema (`database/postgresql_schema.sql`) | tables, unique indexes, sequences | defaults, `setval` | ids of clients and of sequences share one key space |
| Viewer SPA (`PT/viewer/src`) | cache of the data files, queue view | fetch, clear, poll, SSE | answers that were under way when the cache was cleared |
| Reports (`PT/report.py`, `sampler.py`, `pg-stats.sh`) | files of one run | parse, aggregate, print | nothing concurrent |
| In-memory repositories | – | – | doubles for tests |

What makes each of the modelled parts correct:

* **queue** – one benchmark at a time (two would measure each other), no job
  forgotten, every browser shows the queue, a job links to its own results.
* **runs, suites, viewer data** – no unfinished run is listed, edited or deleted; a listed
  run can be opened; whatever overlaps or fails, the list comes to agree
  with `results/`; every request is answered.
* **pets** – an operation takes effect at one moment or, where a stack sends several
  statements, at least never resurrects a pet, loses a form or hits a pet it did not name.
* **users** – they come by POST, go by DELETE and are renamed only to free names; a list in a
  transaction is whole; an id once given is kept; nobody waits for a lock for ever.
* **rust/hyper** – what a client is told is what the application said of the very call the
  client made; nobody works on pets without the scopes; a user changes only in an exchange
  that names it; every request ends.
* **caches** – an entry is never stale for longer than the time to live and one request;
  with no request under way the caches a stack maintains are current.

## Modules

| Module | Models | Notes |
|---|---|---|
| `SerialExecutor` | what the queue promises | abstract: tickets wait, one is active |
| `JobQueue` | `queue.mjs` and its handlers | one action per handler and callback |
| `PetstoreApi` | what the pet operations promise | abstract: one step per operation |
| `PetRequests` | concurrent requests and their SQL statements | one action per kind of statement |
| `StackPrograms` | the statements of each pet operation in each of the 17 stacks | data for `PetRequests` |
| `UserRequests` | concurrent requests for users, row locks, transactions | one action per kind of statement |
| `UserPrograms` | the statements of each user operation in each of the 17 stacks | data for `UserRequests` |
| `HyperCalls` | calls as they travel | shared by both sides |
| `HyperServer` | `src/server/mod.rs`, `src/context.rs`, `server_auth.rs` | router, authorization, one table entry per handler |
| `HyperClient` | `src/client/mod.rs` | one table entry per method |
| `HyperExchange` | client, connection, server and application together | composes the two sides over the users of `server.rs` |
| `PetCache` | concurrent requests over caches and the table | one action per cache or table step |
| `CachePrograms` | the steps of each operation in each stack with a cache | data for `PetCache` |
| `ViewerData` | `results/`, the handlers of runs and suites, builds of the viewer data | composes run.sh, server and builds |
| `MC*` | values for TLC | |
| `*Proofs`, `StepLemmas` | theorems and lemmas | see below |

### JobQueue

`queue` is the array of `queue.mjs`, indexed by job id (ids are counted up, and the
array is in their order); `jobIdCounter` and `running` are the variables of the same
name; `immediates` counts the `processNext` calls given to `setImmediate`; `runShs` and
`builds` are the jobs whose run.sh or build-data.mjs is alive, which is where
`processNext` awaits; `results` are the run directories, each with its target, the
second it was made in and the job that made it; `views` is what each browser was last
sent. The code between two awaits is one action, as it is in Node: `ProcessNext(i)` goes
from the check of `running` to the spawn, `RunShCloses` from the close event through
`findRunId`, the status and the broadcast to the spawn of build-data.mjs,
`BuildCloses` from its end to `setImmediate`. Every broadcast of the code is in the
action that makes it.

The refinement mapping to `SerialExecutor` takes the ids handed out for `issued`, the
pending jobs for `waiting`, and the job with a live process for `active`.

### PetRequests, StackPrograms, PetstoreApi

A stack is a record from operations to sequences of statements: `StackPrograms` names the
file of each and was read from it statement by statement. A worker takes
a request, sends its statements one at a time and answers; statements of different workers
interleave, as they do on the connections of a pool. A statement differs from its
neighbours only by what the code does with the outcome: `"update"` looks at the row count,
`"updateAny"` does not, `"updateReturning"` dereferences the returned row, and so on; the
action of the statement says which. Every statement may also fail. `seq` is
`pet_id_seq`, started by the `setval` of the schema behind the rows that were loaded.

A row is a name and a status: the other columns are written alike. A client may give any id,
in a POST too: no handler limits it. POST keeps such an id and leaves the sequence where it is.
`posted` is a history variable, the ids that clients have given in a POST; no statement reads
it. A request for an id the sequence has yet to reach is thus part of every run and theorem.

In `PetstoreApi` each operation is one step between the call and the answer, with the
answers the handlers give; a stack implements it when every request takes effect at one
moment. A POST without an id gets a free one there, or one that some client has given: more the
stacks do not promise. Stacks that read first and then write do not implement it, and are not
claimed to.

Which property is claimed of which stack is a constant of the model (`UpdateOnly`,
`FieldWise`, `PhotoChecked`, `FreshIds`, `OneStep`), given by sets in `StackPrograms`. All seventeen
programs are defined. Ten stacks are claimed to create rows in POST alone, twelve to write forms
field by field, three to check the pet with the photo, thirteen (and Ktor) to draw ids from the
sequence, eight to be atomic; together these are fourteen stacks. Ktor takes part in the run about
dereferenced rows. Phoenix,
whose PUT and form both write back a row they have read, and Laravel, whose PUT is an upsert and
whose form writes back such a row, meet none of the conditions and are in no run about pets.

### UserRequests, UserPrograms

Requests and statements are as in `PetRequests`; the seventeen stacks share thirteen
programs. Three things are new:

* **Row locks.** `locker` says which request holds the row, or the key, of each username and
  `draft` what it has written there and not committed. Only two kinds of request hold a lock
  beyond one step: a list in a transaction (gin and fiber, Spring), and an `UPDATE` that sets the
  key itself, which takes the row (`LockRow`) and then needs the new name (`Rename`). All other
  statements lock and commit at once, but wait (`Waits`) while another request holds the row.
  PostgreSQL finds circles of waiting requests and fails one of them
  (`DeadlockDetected`); two lists in opposite orders make such a circle.
* **Lists.** `mode` says how the entries of a list belong together: `"transaction"` as above,
  `"sequence"` is one statement after the other until one fails, `"skipping"` (Phoenix)
  goes on after a failure, `"atOnce"` (Express, Fastify) sends all and answers at the first
  failure while the others are under way.
* **Ids.** `"user".id` has a default but no constraint. A statement writes the id at hand
  (`"upsert"`), draws one itself (`"upsertDrawing"`), leaves the id alone (`"upsertButId"`,
  `"updateButId"`), and so on.

What is claimed of which stack is again a constant. `PostCreates` are the stacks whose PUT is an
`UPDATE`: all but Ktor and Phoenix, which read the user and then upsert it, and Laravel. `GiveIds`
are gin/fiber, Spring, ASP.NET Core, Phoenix and Drogon; the other stacks may write NULL over an
id, in PUT or in a list. "Keeps an id" does not mean "keeps its own": a PUT without an id
in Go, Spring and Drogon writes back the id it has read, also to a user that was deleted
and created anew in between.

### HyperCalls, HyperServer, HyperClient, HyperExchange

`Handlers` and `Methods` are two tables with an entry for each of the 19 operations, read from
`server/mod.rs` and `client/mod.rs` independently: which credentials, how the path, header, query and
body are read or written, which status stands for which variant of the response type.
`Routes` are the arms of the server's `match` in their order. `Refusal` is what a handler
does before it asks the application, in the code's order of checks; `Response` what it does after.

`HyperExchange` puts them together. An exchange goes from `"idle"` through `"sent"` (the request is
on its way), `"called"` (the application is at work) and `"answered"` to `"done"`; a connection that
breaks loses the message on its way (`LoseMessage`) or leaves the handler `"abandoned"`, which may
finish the statement under way before hyper drops it (`Drop`). `task` is the call the server made of
the request, `said` what the application answered to what. The user operations of
`examples/server/server.rs` are modelled statement by statement over `users`; pets and orders, which
are the same single statements as elsewhere, may be answered with anything the trait allows.
`"allowAll"` is the authenticator `server.rs` puts in front, `"claims"` the one of
`server_auth.rs` with a token that has both scopes and one that has only `read:pets`.

Strings are kept whole: `AwkwardNames` are the four kinds of user names (with a slash, a question mark,
a hash, a percent sign) that `ID_ENCODE_SET` lets through and that the server reads as something
else; `Segments` says as what. Beside calls of the generated client there are requests
of other clients (`SendOther`) with bodies in their own format, two kinds of credentials at
once, unknown methods and paths.

### PetCache, CachePrograms

The table is a version number, counted up by every write, with the time each version was
replaced; an entry is the version it was made from and when it expires. `now` is
discrete time. A request takes at most `MaxDelay`: that is the only assumption about speed.
`home` is the process that serves the request: Fastify's cluster has a cache in each.

### ViewerData

`disk` is each run's place in `results/`: `"unborn"`, `"running"` (the directory is there,
run-meta.json is not), a label or `"none"` (complete), `"gone"`. `build[b]` is the
build-data.mjs that `b` awaits: a request, the timer or the queue. Handlers are
synchronous up to their build, so while `edit` says that a handler is at work nothing
else in the server moves; run.sh, people at a shell, and builds do. A build reads its
list of directories, then one run at a time, then writes the index.

## Runs

| Run | Bounds | Shows |
|---|---|---|
| `queue` | 3 jobs on 2 targets, posted one by one or as a batch, a browser | serial, no lost wake-up, statuses, SSE views, own runId; every job ends; the queue implements `SerialExecutor` with its fairness |
| `queue_run_id` | 2 jobs | **violated**: a run that dies early is linked to an older run |
| `pets` | 14 stacks, 2 workers, 2 ids, the table empty or with 1 row, 1 name, 2 statuses | eight stacks implement `PetstoreApi`; no resurrection, no lost form, no photo of nothing, a drawn id hits only a pet whose id a client has given, each where it is claimed |
| `pets_ids` | the same, gin and fiber | **violated**: the sequence hands out an id that a client has given, and the upsert replaces that client's pet |
| `pets_reread` | 2 names, FastAPI and Ktor | **violated**: a DELETE in between turns 404 into a crash |
| `user_requests` | 13 programs, 2 workers, 2 names, lists in both orders, ids 1 to 3 | users come and go as named, lists are whole, ids are kept, every request is answered |
| `hyper_exchange` | 2 exchanges: one with every call and 13 other requests, one with a list and a removal beside it; 4 contexts, 2 authenticators | results are true, answers arrive, pets need scopes, users change as named, every request ends |
| `hyper_names` | 1 exchange with every call | **violated**: with an awkward name the client changes another user |
| `cache_age` | 2 workers, 1 process, 5 ticks, 3 versions | staleness is bounded, in Spring, Helidon and Express |
| `cache_quiet` | 1 worker, 6 ticks, 4 versions | sequentially, maintained caches are current |
| `viewer_data` | 2 runs, 1 label, 1 request at a time, timer and queue, 3 bounded events | all of ViewerData's properties |
| `viewer_suites` | 2 runs, a label with and one without a blank | **violated**: a suite that cannot be dissolved |

Why these bounds are enough to be interesting:

* Three jobs are the fewest in which one runs, one waits, and one can be cancelled or
  cleared in between; more processNext calls than jobs that can start happen with two.
* All hazards of pets are between two requests for one id. The sequence hands out both ids
  of the empty table, one after the loaded row, and clients may give either before or after. Two
  statuses are enough to see a form for one field lost, or a row written over.
* Two lists of two users in opposite orders are the smallest deadlock. A sequence of
  three ids serves a list and one more user and then ends, so `nextval` fails too. One profile is
  enough for who comes and goes; the theorems have any number of them.
* In `hyper_exchange` the second exchange does what changes users in several steps or makes one
  vanish, while the first does everything there is; two passwords tell a login that may
  succeed from one that may not. The application's answers to pets and orders are all tried.
* The time to live is shorter than the run, so entries expire; three versions let an entry
  be two writes behind. There is one process: with two, as Fastify has, TLC does not come to an
  end in reasonable time, and only the theorem (any number of processes) speaks of them. One worker with `MaxVersion = 4` reaches every sequence of up to three writes.
* Two runs are the fewest in which a request is half done; a request, the timer's and the
  queue's build can all be under way. `MaxEvents = 3` counts requests, removals and failing
  builds together: a deletion beside a failing build and a removal by hand fits. The theorems
  have no such bounds.

Deadlock is checked except in `queue_run_id`: a queue with all its ids used and no browser has
nothing left to do.

Every property has a mutant: an operator `<Definition>_<Change>` or similar beside the
definition it would replace, in the way a plausible bug would, under which the property's
run fails.

## Fairness

* `JobQueue`: Node runs every callback it has scheduled; run.sh and build-data.mjs end
  (docker build, `wait_ready` and the k6 duration all have an end, and a close event follows).
  Nothing else is fair: nobody need post, cancel or connect.
* `ViewerData`: a handler that runs finishes its loop; the close handler of run.sh runs;
  `setInterval` fires again and again; a spawned build ends, in success or failure, and its
  end is reported. Failures are events and bounded, so in the end a build succeeds; that is what
  `ViewerCatchesUp` claims ("when requests and failures end"). run.sh itself need not end.
* `UserRequests`: strong fairness of each worker's next statement. It is strong because a lock may
  be taken again and again by others: PostgreSQL grants it in the order of waiting, and its deadlock
  detector runs after a second. Nobody has to call, and no statement has to fail.
* `HyperExchange`: Tokio polls what can go on, PostgreSQL answers or fails every statement, a client that
  has an answer reads it (weak fairness of `Serve`, `Application`, `Read`). Nobody has to call, no connection
  has to break.
* `PetRequests`, `PetCache`: safety only.

## Proofs

All proofs are for any values of the constants that meet the named assumptions
(`MaxJobsAssumption`, `ListsAssumption`, `PetBounds`, `PetPrograms`, `PetModelValues`,
`UserBounds`, `UserProgramsAssumption`, `UserModelValues`, `HyperAssumption`,
`CacheBounds`, `StepsAssumption`, `ViewerAssumption`): any number of jobs, targets, workers, rows,
lists, exchanges, processes, runs, labels, overlapping builds.

* **JobQueueProofs** – type correctness, `OneRunAtATime`, `NoLostWakeup`, `RunningIsAlive`,
  `ViewsInSync`, `StatusOnlyAdvances`, `OwnRunIsFound`, and that the queue implements the safety part of
  `SerialExecutor`. The inductive invariant adds two facts the properties do not state: `running` is
  true exactly while a process is alive (`FlagIsExact`: without it a second `processNext` could not be
  excluded), and ids from `jobIdCounter` on are unused (`FreshIds`: without it a new job could take
  over a live one's id). For `OwnRunIsFound` there is a second one, `DirInv`: `findRunId` takes the newest
  directory of the target, and that is the job's own because no other process makes one while its run.sh
  lives (`OwnDirIsNewest`), directories are never newer than the clock (`DirsAreKnown`), and a job that
  made one is never taken again (`TakenOnce`). The model stamps every directory with a
  later second than the ones before; two runs of a target whose directories fall within one second would share it.
* **PetRequestsProofs** – `TypeOK`. Its invariant says what a request has when it comes to
  its next statement: an id, unless the statement draws one, and the row it has read, if it is a
  form that will write a whole row. `WellFormed` demands of a program that this comes about.
* **PetSafetyProofs** – the properties of `pets`, each from the one
  thing a stack must do: create in POST alone (`OnlyAddCreates`), write fields in place
  (`FormsWriteFields`), check the pet in the inserting statement (`PhotosChecked`), draw ids from
  the sequence (`DrawsFreshIds`). Nothing is assumed of the ids that clients give. For the sequence
  (`OnlyPostedAreReplaced`) the invariant is therefore about what is `Known`: every row, and every id
  a request may yet write, is at or below `seq` or was given by a client; and an id that was drawn is
  the request's own (`OwnId`: no row has it, and no other request will write it) unless a client has
  given it, too. `InsertsNeverReplace` is about the stronger property that `pets_ids` shows
  violated, `IdsDoNotCollide`: it holds of stacks whose POST is a plain INSERT
  (`RefusesTakenIds`), which answer an error instead. `UpdateStacksOnlyUpdate`, `FormStacksWriteFields`,
  `PhotoStacksCheck`, `SequenceStacksDraw` and `InsertStacksRefuse` (Helidon, Quarkus, Express) show
  that the programs of the stacks do what is assumed, which is why the module extends `StackPrograms`.

  The same module proves the refinement: `RequestsAreAtomic` says that a stack implements `PetstoreApi`, for any
  number of requests at a time and any ids of clients, if its programs are `Atomic`: each operation takes
  effect in its last statement, and sends nothing before it but a `SELECT` by id or a `nextval`. Under the
  mapping a request takes effect in the step of its last statement, and all steps before are stutters; the one
  case that needs an argument is an id that was drawn, which must still be free, or given by a client,
  when it is inserted, and for that the invariant (`TidyInv`) contains the one about the sequence.
  `AtomicStacksAreAtomic` shows it of the eight stacks of `AtomicStacks`.
* **UserRequestsProofs** – `TypeOK`, `EveryUserHasAnId`, `UsersComeAndGoAsNamed`, `ListsAreWhole`,
  for any programs that are `WellFormed`, with `GivesIds` and `UpdatesInPlace` of the stacks that are claimed
  to have these; `IdStacksGiveIds` and `UpdateStacksUpdate` show that the real programs do. What a request
  has left to send is a sequence, so the first third of the module is about `Plan`: every statement of
  it serves the request (`Fits`), neighbours follow each other as they may (`InOrder`), a
  list in a transaction upserts every user and ends with its commit. The invariant
  says that this stays true of what is left (`Working`); that locks are held by
  transactions and by rows about to be renamed, and by nobody who is done (`Held`); that every user of a
  list in a transaction is drafted or yet to be upserted (`Collects`), which is why a commit
  writes them all; and that rows and drafts have ids (`HaveIds`). Each kind of statement then
  has one lemma that says what it may do (`Outcome`), and one lemma shows that this keeps the invariant.
* **HyperExchangeProofs** – all properties of `HyperExchange` but its liveness: `TypeOK`, `AnswersArrive`,
  `PetsNeedScopes`, `SuccessIsDeserved`, `PlainResultsAreTrue`, `UsersChangeAsNamed`. `TablesAgree` compares
  the two tables operation by operation: the same variants, the same code unless it is 500, no code twice. The
  invariant `IInv` says who has a task, that nothing is said before the application answers, and that response and
  result are made from what was said; for the scopes, that a task on pets was granted.

  The other three ask where a request ends up. `Written` says what path the client writes for each operation,
  with a name in it that may come apart into two segments; `Looks` what paths each arm of the server's
  `match` takes. `WhereItGoes` compares them line by line: a request reaches its operation, or it is
  `Misread`: a GET of a user called `login` or `logout` (or of a pet called `findByStatus` or `findByTags`, which
  the proof does not exclude, though ids are numbers). No answer of those operations is one that the client of the other can take for
  success (`MisreadAnswers`); that, and not the routing, is why success is deserved with any name. `KeyArrives`,
  `HeaderArrives`, `QueryArrives` and `BodyArrives` say what of the parameters gets through when the name
  stays as it is, and with at most one tag. The inductive invariant `JInv` adds to `IInv` the way of each
  exchange (`Journey`): its request is what the client made of the call, its task `Comes` from that call, and
  so does what the application spoke to; of a list, what is left is a suffix of the client's; a response the
  application did not speak is a refusal. That refusals exclude 404 when the names are plain
  (`PlainRefusals`) is needed because the client reads a 404 of the router as "not found".

  `HyperAssumption` has that calls type-check against trait Api (`TypedCall`: parameters an operation
  does not have are absent, a list of tags is not empty) and that no user is
  called `None`, the model's mark for "absent".
* **PetCacheProofs** – `TypeOK` and `BoundedStaleness`, for any programs, processes and
  times to live; and `QuietMeansCurrent` (theorem `QuietCachesAreCurrent`) for one request at a time in one process,
  which is what that property is about: with two, a reader may put back what a writer has just
  evicted. The first invariant bounds the age of what each request holds by the time
  since it started, and the age of each entry by that and the time since it was put. The second one
  (`QuietInv`) says of each kept cache that its entry is current or about to be put right, that every write a
  request has left to make is followed by a put or an eviction, or finds the entry evicted, and that what it will
  put is what it has read last. `KeepsInStep` asks this of a stack's programs; `CachesAreKeptInStep` shows it of Spring,
  Helidon, Express and Fastify, which is why the module extends `CachePrograms`. An evicted entry stays evicted
  until the write of Helidon's DELETE only because nobody else reads meanwhile.
* **ViewerDataProofs** – `TypeOK`, `ListedHasDetail`, `UnfinishedIsLeftAlone`. The
  invariant extends "listed runs have details and have ended" from the index to what every
  build has found so far: an overlapping build's list becomes the index later.

**Only model-checked**: everything under fairness (`EveryJobEnds`, the fairness of the
refinement to `SerialExecutor`, `ViewerCatchesUp`, `RequestsAreAnswered` of both modules that have it,
`RequestsEnd`), since the proof system has neither `ENABLED` nor rules for fairness that would reach these.

## Disagreements met while modelling

With a run that shows them:

* `queue.mjs:208` – the runId of a job whose run.sh made no directory is that of an older
  run; `PT/server/README.md:120` promises the newly created one (`queue_run_id`).
* `index.mjs:110` – the trimmed suite name is overwritten by the untrimmed one from
  `...shared`; `runs.mjs` looks for the trimmed one, so such a suite can be neither dissolved nor
  deleted (`viewer_suites`).
* `pet_api_impl.py:141` (FastAPI), `PostgresPetstoreRepository.kt:52` (Ktor) – the row is
  dereferenced after a write that a DELETE may have overtaken (`pets_reread`).
* `store.go:93` (gin, and alike in the other stacks that upsert) – POST keeps an id the client gives
  and does not move the sequence, so the id is later drawn for another client's pet, which replaces the first;
  `postgresql_schema.sql:177` promises collision-free ids (`pets_ids`).
* `client/mod.rs:39` (rust/hyper) – `ID_ENCODE_SET` leaves a slash, `?`, `#` and `%` in a
  name as they are; the comment above it promises the path segment set (`hyper_names`).

Without a run, seen in the code and taken as they are by the models:

* `postgres_repository.ex:21` (Phoenix) – a `nextval` that fails yields id 1 and the upsert replaces pet 1
  (the mutant of `OnlyPostedPetsAreReplaced` does the same).
* `postgres_petstore_repository.rb:39` (Rails) – PUT of a pet is an upsert; the repository's other
  implementation and its spec answer 404.
* `PostgresPetstoreRepository.php:251` (Laravel) – createUser resolves conflicts on `id`, on which `"user"` has
  no unique index: PostgreSQL refuses the statement, whatever the data.
* `PostgresPetstoreRepository.kt:271` (Ktor), `postgres_repository.ex:311` (Phoenix) – PUT of a user reads and
  upserts, so a DELETE in between is undone.
* `UserService.js:17` (Express) and its Fastify counterpart – `Promise.all` answers at the first insert
  that fails and leaves the others under way.
* rust/hyper: the client sends XML under the label `application/json`, so a required body is
  refused with 400 and an optional one silently dropped (`client/mod.rs:500`); the token of a login is
  parsed as an XML document and never arrives; several tags are joined by commas into one value,
  which the server takes as one tag; `upload_file` panics over a file that is not UTF-8; the client looks for
  status 0 where the server sends 500 for `UnexpectedError`; a query `status` that does not parse is
  refused, although the comment at `server/mod.rs:612` has it ignored. `PlainResultsAreTrue` and
  `AnswersArrive` are stated around these.

Caches: a reader that selected before a write may put the old row after the writer has
evicted or put the new one, in every stack with a cache, and a Fastify worker never hears of
another's write. The code relies on short times to live (`PS/nodejs/fastify/db/cache.js:5`);
`BoundedStaleness` is the precise form of what that buys.

## Not modelled, and why

* **Log lines, job parameters, measurements**: payload. No decision of the code depends on them.
* **Restart of the server, run.sh step by step**: the queue is lost and an orphaned run.sh goes on;
  what it shares with the next run are containers and images, which are not modelled.
* **Torn files**: a file is written in one step; a build or browser that reads half of a
  JSON file skips it or fails, and the next periodic build repairs it.
* **Archives** (`results/archive`): written, never read by the system.
* **Reads that write nothing** (findByStatus, findByTags, inventory, getUserByName, login, logout) are
  only in `PetCache` and `HyperExchange`.
* **Orders outside rust/hyper**: each operation is one statement, after the draw of an id in some
  stacks. Two orders meet in nothing but that draw, which `PetRequests` has.
* **Connection pools**: every composite operation was read to hold one connection at a time,
  which Ktor states as a rule; a model would restate it.
* **Connection set-up, TLS, headers of responses, XML and JSON themselves, the command line client** of
  rust/hyper: a body parses or does not, by its format.
* **k6 scripts**: load; the all-zero weights of `crud-mix.js:47` are listed as a hazard.
* **Viewer filters and charts, report.py, sampler.py, pg-stats.sh**: presentation and arithmetic on
  the files of one finished run.
* **In-memory repositories**: doubles for tests.

## What could come next

1. `RunSh`: `run_one` step by step with failing steps (`set -e` is off inside it), the container
   and the image it leaves behind, and a restart of the server beside an orphan.
2. `CrudMix`: the pools of the virtual users over `PetstoreApi`. With `SKIP_SETUP=1` each user
   touches only pets it created, so no PUT meets a deleted pet; with shared seeds it may.
3. `ViewerClient`: `data.js` and the reconnecting SSE stream over `ViewerData`.
4. Quarkus in `CachePrograms`: `@CacheResult` computes under the key's lock, `@CacheInvalidate`
   after the method.
