# Verification of the hotel booking platform

TLA+ models of the program in `src/`, the TLC configurations that check them on
small instances, and TLAPS proofs of what matters most for every instance.

- [1. The system](#1-the-system): components, their state, how they interact, what is hard
- [2. Modules](#2-modules): which module models what, and how
- [3. Runs](#3-runs): what each configuration checks and shows
- [4. Bounds, fairness, deadlock](#4-bounds-fairness-deadlock)
- [5. Proofs](#5-proofs): what is proved, from what, and along which argument
- [6. Disagreements found](#6-disagreements-found)
- [7. Not modelled](#7-not-modelled)
- [8. Plan](#8-plan)

`PROJECT.json` lists the same things for tools: components, runs, the source
lines behind each definition (`map`), one mutation of the code per property,
hazards and theorems.

## 1. The system

A FastAPI process serves seven *capabilities* (property, booking, pricing,
reviews, dashboard, notifications, search) and the routes of one kit, the private
estate. Routes are plain `def` functions: they run on a pool of threads.

    request -> route (app/routes.py) -> handler (app/actions/*.py)
                 |                        |  dispatch.execute(block, action, ...)   one fresh
                 |                        |     -> blocks: team, workflow, audit,    block instance
                 |                        |        queue, memory, ...                per call
                 |                        v
                 |                     ok_envelope (app/persist.py) -> store.save (app/store.py)
                 v                                                        SQLite, a connection per thread
              answer
    estate routes (kits/.../estate_kit_router.py) -> DualRagService -> RagStore or PostgresRagStore
    steward routes (kits/.../steward_runtime/api.py) -> auth -> retrieval / ingestion / packs -> one Postgres
    note routes (app/rag_routes.py) -> one JSONL file

Every call of `dispatch.execute` loads the block's class from a shared
`sys.modules`, makes an instance, and runs its coroutine in an event loop of its own
(`asyncio.run`), so **nothing an instance keeps in memory outlives one call**; what
lasts is what the blocks write to files and databases, and that is where the
interesting properties are.

| component | state it keeps | operations that change it | hard behaviours | correct when |
|---|---|---|---|---|
| Team block `vendor/cerebrum/blocks/team.py` | teams, memberships, invitations; `state.json` and `state.json.tmp` | create, update, delete, invite, accept, remove, set_role, leave; load, save | overlapping instances each with a copy, crash or disk error while saving, long sequences of legal requests | slugs unique, quota equals seats, seats come from an invitation or the creation, only the owner ends a team, an answered team survives, the file refines one registry served atomically |
| Capability routes, dispatch, store | committed rows, an open transaction per connection, the answer | POST, GET, failures of block, insert, commit, thread, process | partial failure between blocks and row, connection that outlives the request, one writer at a time | ok iff stored, stored once, after the blocks, lists only grow, every taken POST is answered |
| Block loading `app/dispatch.py` | entries of `sys.modules`, the import lock | repair of notification, deletion and import of knowledge | threads replacing each other's half-executed module | entries settle, a lone call never fails, calls end |
| Property handler `actions/property_management.py` | which bodies have a row; the team file | team block, workflow's team step, row | two stores without a transaction, repeated create, refused create reported as success | a listed row has a team, a team is never doubled |
| Job queue `blocks/queue.py` | job objects, deques, id table, worker task | enqueue, dequeue, the worker's pass, handler returns / raises, retry | clients interleaved with a worker that awaits, retries as new jobs, worker dies with its loop | a pending job is in one place, order, one live attempt, outcomes final, pending leaves |
| Memory cache `blocks/memory.py` | `cache`, `access_order`, a cleanup task | get, set, delete, flush, eviction, expiry | two structures changed side by side, limit shared by namespaces, stale entries | structures agree, never overfull, evicts the least recent, a get answers as a lossy map |
| Audit log `blocks/audit.py` | rows with sequence and previous hash; head and counter of an instance | log, initialise | awaited insert between reading and moving the head, failed inserts, crash, two instances | what is answered logged is stored, chain intact, numbers unique, the head names the last row |
| RAG file store `rag/store.py` | `manifest.json`, `records.jsonl` and temporaries per layer | upsert_document | two files swapped one after the other, shared temporary names, crash, disk error | what was answered is found; files refine an index |
| RAG Postgres store `rag/postgres_store.py` | one table for both layers, `_ensured` | ensure_schema, upsert_document | delete-then-insert at READ COMMITTED, aborted transactions | one version per document, answered stays; table refines an index |
| RAG service `rag/service.py` and routes | the `_SERVICE` global, `_bootstrapped`, the lock | query, ingest, bootstrap | double-checked flag, unlocked global, failing ingest under the lock, restart in between | bootstrapped means the corpus is there, one seeder per service |
| Chunking `rag/chunking.py`, `steward_runtime/ingestion.py` | the place reached in one text | one turn of either loop | a boundary found behind the place reached, overlap against maximum, a short rest | chunks follow without gap, get further, fit the maximum |
| Workflow block `blocks/workflow.py` | `_pipelines`, `_scheduled_tasks`, the tasks, the run history | run, schedule, unschedule, the scheduler loop | a task cancelled in the middle of a step, definitions replaced under a run, steps that hang, loops that crashed | one task per pipeline, runs recorded, "completed" is complete, runs go on |
| Event bus `blocks/event_bus.py` | subscriptions, pending ids, futures | subscribe, request, respond | answer, timer and cancellation race for one future | at most one "delivered", the requester gets that answer |
| Startup `app/main.py`, alembic | tables and version of the SQLite file | lifespan, `ensure_schema`, upgrade by server or command line | a death between two statements, tables made before the migration that makes them | a server that serves has its tables |
| Steward schema `steward_runtime/migrations` | tables, money columns and version of Postgres | upgrade by the admin route or a pack loader, readiness probe | upgrades side by side from any earlier release | the version says what the tables are, ready stays ready |
| Steward runtime `steward_runtime/` | tenants, projects, documents, packs, verdicts; pilot accounts, tokens, access; the cached embedder | query, ingest, lists, status, inventory, reset of the pilot fixture; pack loads with and without force | every session one transaction at READ COMMITTED, waits on keys, restart, kill, access revoked half way | answers stay in scope, one verdict per answer, packs whole |
| Hotel notes `app/rag_routes.py` | one JSONL file | ingest appends a line, query reads what parses | an append cut off, texts with line separators of their own | an ingested note is found |
| Authentication of operators, pure blocks | none that outlives a call | | | see section 7 |

How they meet: a handler runs its blocks in a fixed order and then saves one row
(booking: workflow, database, validation, event_bus, queue, audit; property:
database, team, workflow, audit; pricing: formula_executor,
recommendation_template, analytics, database; reviews: capture, knowledge,
vector_search, analytics, notification; dashboard: dashboard, analytics, database;
notifications: notification, event_bus, queue, workflow; search: vector_search,
knowledge, recommendation_template, memory, analytics). A block that answers an
error does not stop the handler, one that raises does. The team file, the audit
table, the SQLite file and the RAG files are shared by every thread and by every
process on the same data directory; the steward's database by the server and the
command lines of the pack loaders. Components that meet are composed:
`PropertyListing` (team block, workflow step, row), `CapabilityPlatform` (blocks,
store, threads), `StewardRuntime` (access, corpus, sessions), `RagBootstrap`
(service above the file store). The others share nothing.

## 2. Modules

State variables carry the names of the attributes or files they stand for; an
action stands for a whole handler where nothing else can run in between (no await,
no other thread that sees the state), and for one step of it where something can.

**Team registry.** `TeamOps` defines the operations as pure operators on a registry
record (`Create`, `Delete`, `InviteTo`, `Accept`, `Remove`, `SetRole`, `Update`,
`Leave`, each with its guard `May...`), and `Result(r, q)`, what serving request `q`
makes of registry `r`. A member's seats are a sequence of roles, because
`accept_invitation` appends a membership without looking for an earlier one, and
`_get_membership` answers the first. `TeamRegistry` is the abstract promise: one
registry, requests served atomically, and `Fail` for a request that changes nothing
but may have drawn an id. `TeamStore` is what the code does: a worker loads the whole
file into its copy (`ServeCopy`), opens `state.json.tmp` (which truncates it),
writes, renames, answers. A file is an inode here: a worker whose `.tmp` was renamed by
another goes on writing into `state.json`. `DiskError` is the caught `OSError`
after which the action answers success anyway; `Crash` ends all workers at once.
`MCTeamStore` puts two scenarios in one state space: instances run one at a time, where
the file must refine `TeamRegistry` (`AtomicAlone`; `Promise` is the refinement
mapping), and overlapping instances, where only what `CopiesConsistent` says is left.

**Property listing.** `PropertyListing` EXTENDS `TeamStore`: a property POST is two
`create_team` requests with the same input (its own block and `step_1` of the
workflow, from the same `block_inputs`), each loading and saving, and then a row.

**Platform.** `CapabilityPlatform` follows a POST through a thread: door
(`Take`/`Refuse`), blocks in order (`RunBlock`/`BlockRaises`), `EnsureSchema` whose
commit also commits whatever the connection had open, `Insert`, `Commit`, answer.
`open[t]` is the uncommitted row of the thread's connection, which outlives the
request; SQLite's rule of one writer is `Elsewhere`. What a block wrote outside the
row's database is `effects`.

**Block loading.** `BlockLoader` has the entries of `sys.modules` for the two modules
dispatch repairs, each absent, complete, or being executed by some thread, and the
import lock of one of them; every access of `sys.modules` is a step. Every call looks
at the notification entry once, a call for `notification` or `workflow` a second time.

**Job queue.** `JobQueue` keeps the job objects once (`jobs`) and lets the queues and the
id table refer to them, as the Python objects do. The worker's pass goes over a
snapshot of the queue names (`rest`) and awaits a handler only in `StartHandler`;
`LoopFree` says when clients may run. `QueueTurns` is what the block promises of whose
turn it is: the queues and the worker's place in its pass, without the jobs. Every step of
`JobQueue` is one of its steps or leaves both alone (proved). In it enqueues have no end, as
references to jobs can be used again, so that starvation can be asked about on a few of them.

**Memory cache.** `MemoryCache` has `cache` and `access_order` separately. The
ordered dictionary is represented by, for each key, the set of keys after it: it has
the same information and no positions to renumber. `LossyMap` is the promise: a read
answers the last value written or nothing.

**Audit.** `AuditChain`: a call takes a number and reads the head (`Begin`), inserts
(`Insert`/`InsertFails`), moves the head (`Confirm`). An event stands for its hash.
`database` says what is wired for a behaviour: a block that keeps the contract the
audit block was written for, the vendored database block, or none. `overlapped`
remembers whether two calls or two instances were ever active at once: the chain is
promised only to a log that never was.

**Dual RAG.** `RagIndex` is the promise: per layer a map from document to version.
`RagFiles` models `write_index` step by step, manifest first, with a file that is
complete, cut off, or interleaved by two writers (`Torn`). `RagPostgres` models the
transactions: what a DELETE sees, whose uncommitted rows it waits for, which key an
insert collides with, what an aborted transaction's commit does. The database's own
rules are external and taken from its documented READ COMMITTED behaviour.
`RagBootstrap` models the service global, the double-checked flag and the lock above the
default store, of files: an upsert reads a layer (`ReadsLayer`) and later puts it back
(`PutsBack`), and threads that are between the two on one layer can drop each other's
documents, mix their texts or find the temporary file gone. Over the Postgres store the
behaviours are those in which nothing comes between the two steps. The fixtures are a
constant; this commit has no `data/demo/estate_fixtures.json`, and without one
(`Fixtures = << >>`) there is nothing to seed or to miss.

**Chunking.** `Chunking` keeps of a text only what may be cut where: `after[b]` says
what stands before position `b` (heading line, blank line, line, sentence, space).
Every sequence of such marks is allowed, which is more than there are texts. `pos`
is how far the text is cut, `shared` where the next chunk begins, `shared .. pos` being
what it repeats of the last. `NextChunk` is a turn of `chunk_text`, `NextWindow` one of
`_chunk_text`.

**Workflow.** `Workflow` has callers and scheduler tasks that share one event loop:
whoever is `running` keeps it until it awaits a step's block or sleeps. A run carries
its own copy of the steps; a definition stored in the meantime is seen by the next
turn only. `Cancelled` ends a task wherever it awaits, and leaves no record.

**Event bus.** In `EventBus` an answer, the timer and a cancellation make a waiting
requester runnable (`Resolve`, `TimerFires`, `Cancel`); `Resumes` is when it runs.
Between the two other calls come, and that is where the races are.

**Startup.** `PlatformStartup` has the server and a command line as two processes that
create tables one statement at a time; `StewardSchema` the steward's upgrade as one
transaction, several side by side, from each release's schema, and the readiness probe
over it under any configuration.

**Steward runtime.** A request or a pack load is a session with a *program*, the
list of statements its handler will run (`QueryProgram`, `IngestProgram`,
`LoadProgram`), executed one by one against the committed rows `db` and the session's
own. `StewardAuth` resolves headers to a principal in a session before; what an
operator revokes after that does not reach the running request. `StewardCorpus` has the
rows and what ingestion and search make of them; ranks are a choice among the rows in
scope. An insert waits for the holder of its key and fails on a committed one, and any
failure rolls the session back. `Commit` publishes a session's rows; the answer follows in
a step of its own (`SendAnswer`), and `reply` says whether it is still due, was sent, or
was lost to a restart or with the connection, which COMMIT may also outlive.

**Hotel notes.** `HotelNotes` keeps the file as its lines. An append may be cut off
anywhere, which leaves its beginning for the next line to continue; a text may hold the
separators at which `splitlines` breaks.

The `MC...` modules name sets of model values and symmetries; some add a
variable that classifies behaviours (`scenario` in `MCTeamStore`, `diskFailed` in
`MCPropertyListing`, `commitFailed` in `MCCapabilityPlatform`), so that one run states what
is promised with and without a fault. Components that share nothing are checked in one
run each behaviour of which is of one of them, the others staying as they begin:
`MCStores` (memory cache, audit chain, the two schemas, notes, job queue) and
`MCBlocks` (loading, workflow, event bus, turns of the queue) by `part`, `MCRag` (the
JSONL store of one layer, the Postgres store, chunking) by `store`. An operator whose comment begins with `Faulty` is
a plausible bug in the definition after it, never part of a specification: put in
that definition's place, it makes the property that `PROJECT.json` names beside it fail.


## 3. Runs

Each configuration is named after its module; `tlc -config MCx.cfg MCx` runs it.

| run | asks | properties and what they show |
|---|---|---|
| `team_registry` | every sequence of requests, served one at a time | `QuotaStaysExact`: the second copy of the member count never drifts. `OwnerSeatIsTheOwners`: while the owner holds the owner role only he changes his seat. `NoSeatFromNothing`: an invitation becomes at most one seat |
| `team_store` | one at a time with crashes; overlapping with crashes and disk errors | `CopiesConsistent`: whatever is loaded, held or written is internally consistent, however it came about. `AnsweredSurvivesAlone`, `AtomicAlone`: one at a time, a crash at any step of saving loses nothing that was answered, and the file refines `TeamRegistry` |
| `team_store_torn` | the same, expected to fail | `NeverHalfWritten`: two instances share one temporary name, one swaps in what the other has just truncated, and a crash leaves it (section 6) |
| `property_listing` | property POSTs one after another, crash at any step, lost saves | `ListedHasTeamIfSaved`: the order team, then row, holds across both stores. `TeamIsStable`: repeating a POST never replaces or doubles the team |
| `platform` | POSTs and GETs on a pool, with blocks, commits, threads and the process failing | `OkIsStored`, `StoredAfterBlocks`, `StoredOnce`, `ListsOnlyGrow`: the row and the answer agree although a connection outlives its request. `RefusedNeverStoredIfCommitted`: only a failed commit breaks "refused means not stored". `TakenIsAnswered`: nobody waits for ever behind a left-open transaction |
| `stores` | the memory cache | `CacheInv`: the two structures agree and the limit holds. `EvictsLeastRecent`: against a history variable that knows who was used since. `CacheIsLossyMap`: refinement of `LossyMap` |
| | the audit chain: overlapping calls, failed inserts, crashes, two instances, three wirings | `AuditInv`: numbers unique and what is answered logged is stored (`SequenceUnique`, `LoggedIsStored`) in every interleaving; the chain verifies and the head is its end (`VerifyIntact`, `HeadIsLast`) until calls or instances overlap |
| | startups, command-line upgrades, deaths between statements | `ServingHasTables`: whatever was killed before, a server that serves has every table. `ServerNeverStamps`: the revision is only ever recorded by a command line |
| | steward upgrades side by side, from any release; the probe under any configuration | `SchemaInv`: the recorded revision is what the tables are, and a server called ready stays ready |
| | notes appended, some cut off, some with separators | `NotesFound`: an append cut off takes at most one later note with it; queries fail as a whole only after a cut inside a character or a text with a value between separators |
| | the job queue: clients interleaved with the worker and its handlers, retries, a worker that is gone | `QueueInv`: pending iff in its own queue, once (`PendingQueuedOnce`); the order within it (`QueueOrder`); a retry neither loses a request nor doubles it (`OneAttemptLeft`); an id finds the latest job of its millisecond (`IdFindsLatest`) |
| `rag_bootstrap` | queries, ingests and the bootstrap route on two services over the file store, crash, failing store | `BootInv`: one seeder per service, and a service that says bootstrapped has every fixture, unless a bootstrap was cut off, a user's document was there first, somebody without its lock was still seeding, or a write that overlapped another on the layer lost a document |
| `blocks` | three threads in `dispatch.execute` | `LoaderInv`: whatever they overwrote, the entries settle usable. `NoFailureAlone`: a call fails only while another is at work. `CallEnds`: the import lock strands nobody |
| | a caller and two scheduler tasks, definitions replaced and rescheduled at any point, steps that fail, hang or are unknown | `WorkflowInv`: one task per pipeline, always with a definition, and "completed" only of runs that were. `RunsAreRecorded`: a run that ends leaves its own record, unless its schedule was changed under it. `RunsGoOn`: a caller is answered and a scheduled pipeline runs again and again, unless its task crashed |
| | a request with its timer, its cancellation and two handlers | `BusInv`: one responder at most is told "delivered", the requester gets its answer, an id that stays behind is a cancelled requester's |
| | the job queue's turns, without the jobs, with enqueues without end, in front and behind | `PendingLeaves`: while the loop lives, a job waits for ever only if clients put others in front of it for ever; other queues, later jobs, retries and what clients take never keep it waiting. That nobody starves at all is false of the code (`NobodyStarves`, section 6) |
| `workflow_alias` | the same module, expected to fail | `AliasAccepted`: steps named by `block_id` are refused (section 6) |
| `rag` | two ingests into the JSONL store, crash and disk error at every step of `write_index` | `FilesInv`: an answered document stays, the counts are wrong by one document at most. `FilesAreAnIndex`: refinement of `RagIndex` until two ingests overlap |
| | overlapping upserts into the Postgres store, aborts, restarts, a missing extension | `PostgresInv`: an answered document never leaves; two versions only after two upserts of one document overlapped. `TableIsAnIndex`: refinement of `RagIndex` until then |
| | every text of up to five positions, both chunkers | `ChunksTile`: no gap, no standstill, nothing oversize, no more repeated than the overlap |
| `steward` | requests of two tenants and pack loaders side by side, with revoked access, restart, kill or a failing database between any two statements and between commit and answer | `AnswersStayInScope`: an answer holds what may be cited from the tenant and estate the principal was admitted to and from the platform's layer. `VerdictPerAnswer`: who is told a verdict finds exactly that one in the ledger, who is told of a failure none; a question without an answer has none, or the one its committed session would have been told. `PacksWhole`: a pack is there whole, under its one source record, or not at all |
| `steward_drift` | the same module, a restart with another backend, expected to fail | `HitsMatchEmbedder`: a question is compared with vectors of another embedder (section 6) |

## 4. Bounds, fairness, deadlock

**Bounds.** They are the sizes of the constant sets and the following guards.

| run | bounds | enough because |
|---|---|---|
| `team_registry` | 3 users, 2 slugs, `TeamId` 2 (teams ever created), `Token` 2 (invitations ever sent), `MaxTeams` and `MaxMembers` 2 | an owner, a senior and a third party; both limits can be reached and passed; a slug can be reused after a deletion |
| `team_store` | 2 instances, 2 users, 2 slugs, 2 teams, 1 invitation that offers `admin` | two writers make every lost or torn file; overlapping instances are restricted to one user and slug, which is what collides |
| `property_listing` | 1 worker, 3 posts of 2 owners under 2 names, 4 team ids | a repeated name, a second owner of the same name, an owner at the limit |
| `platform` | 2 threads, 3 posts, 2 capabilities, blocks `<<team, audit>>` and `<<memory>>` | one writer and one waiter; a post to reuse a connection after another failed on it; a block that lasts, one that does not |
| `stores`: memory | 2 namespaces of 2 keys, 2 values, `MaxSize` 2, `MaxTime` 2, ttl 0 (none) or 1 | two keys compete for a full cache while a third and a fourth evict; entries expire before, at and after their use |
| audit | 4 events, 2 instances | a chain of three with a failed insert and a restart in between |
| startup | 3 entities, one server, one command line | a first, a middle and a last table to die between |
| steward schema | 2 upgrades, an empty database and two earlier releases, 5 configurations | one upgrade loses against the other; between them the configurations pass and fail the checks of the probe |
| notes | 4 notes: plain, accented, with separators, with a value between separators | one of each kind that reads differently |
| job queue | 2 queues, 2 types (one without handler, the other asked for with `max_retries` 1 and 2), `MaxJobs` 3, `MaxMillis` 1 (both in `MCStores`) | a job, its retry and a competitor |
| `rag_bootstrap` | 2 layers of one fixture, 2 user documents of which one has a fixture's name; 2 threads, 2 services | partial means one of two; two writes overlap on a layer; the unlocked global makes at most one service per thread |
| `blocks`: loading | 3 threads, 3 kinds of block | one deletes, one executes, one waits for the lock |
| workflow | 1 pipeline, 1 caller, 2 tasks, 5 definitions of at most `MaxSteps` 2 steps, `HistoryCap` 1 | a task, its replacement and a caller under the same id; tasks are reused when they ended. One record shows the last run's; older ones are only dropped |
| bus | 1 id, 2 topics of which one is a pattern, a plain and a coroutine handler, `MaxHandlers` 2 | two responders for one request; requests under different ids share nothing but the handlers |
| turns | 2 queues, 3 references; no bound on enqueues, as references are used again | one waits, one is put in front of it, one is a retry or waits in the other queue |
| `rag`: files | 1 layer at a time, 2 documents, 2 versions, 2 writers; `OneOverlap` | layers have separate files and names. After two ingests overlapped, when nothing is promised, the next ones come one at a time |
| postgres | 2 layers, 2 documents, 2 versions, 2 writers | layers share the key space |
| chunking | `MaxLength` 5, two configurations, windows of 3 with overlap 1 | overlap, target and maximum all differ, a rest can be short; for every length and configuration it is proved |
| `steward` | 2 tenants with one estate id, 3 principals, 2 API sessions, 2 loaders, `MaxCalls` 2, `MaxDisturbed` 1; empty database or both estates filled | two sessions make every wait and conflict on a key; one fault between any two statements |

**Fairness** is assumed where the program schedules: the event loop runs the worker's
task and a handler ends (`TurnsFair`; the loop itself may be gone); a thread in the
middle of `execute` runs on (`LoaderFair`); a thread that serves a request runs on
(`MCSpec` of the platform); in the workflow block every step is answered or
times out and the event loop takes its tasks in turn (`WorkflowFair`: strong fairness,
since a task is not enabled while another has the loop). Clients are never obliged to ask, faults never to happen.
`CallEnds` is stated for when calls stop, since weak fairness allows threads that call
for ever to pass the import lock round without the others.

**Deadlock** is checked except where the system may stop: a queue whose jobs are all
done, a log all of whose events happened, a request that was answered, sessions that
all had their call, and the registries when every id is drawn.

**Symmetry** is used in runs without liveness properties and over sets the
specification never orders.

## 5. Proofs

TLAPS proves the following for any constants that satisfy the named assumptions beside the
`CONSTANTS` (`TeamSentinels`, `TeamLimits`, `StoreFiles`, `PlatformRouting` and so on, which
TLC evaluates in the runs above). They say that placeholders are none of the values they
stand beside, that bounds are numbers, and what the configuration of the program checks
itself; those that say more are named below.

Every safety invariant, action property and refinement the passing runs check is proved.

| module | theorem | says |
|---|---|---|
| `TeamOpsProofs` | lemmas `CreateSound` ... `ResultSound` | a request the block accepts turns a sound registry into a sound one |
| `TeamRegistryProofs` | `TeamTypeCorrect`, `TeamSlugsUnique`, `TeamQuotaExact` | the type, unique slugs, exact quotas |
| | `TeamEndsWithOwner`, `OwnerKeepsSeat`, `SeatsComeFromInvites` | what no request may do: end another's team, touch the owner's seat, let in the uninvited |
| `TeamStoreProofs` | `StoreTypeCorrect`, `StoreCopiesConsistent` | any number of overlapping, crashing instances never load, hold or write an inconsistent registry |
| | `StoreAnsweredSurvives`, `StoreIsAtomic` | one instance at a time, with crashes: an answered team stays, and the file refines `TeamRegistry` |
| | `ListedPropertiesHaveTeams`, `TeamsOfListingsStay` | a listed row has its team unless a save was lost; a team is neither replaced nor doubled |
| `CapabilityPlatformProofs` | `PlatformTypeCorrect`, `PlatformOkIsStored`, `PlatformStoredAfterBlocks`, `PlatformStoredOnce`, `PlatformRefusedNeverStored`, `PlatformListsOnlyGrow` | the row properties of `platform` for any number of threads, posts, capabilities and blocks |
| `BlocksProofs` | `QueueCorrect` | `QueueInv` for any number of queues, types, priorities and retries |
| | `QueueImplementsTurns` | every step of the queue block is one of `QueueTurns` or moves neither queues nor worker |
| | `WorkflowCorrect`, `WorkflowRecordsRuns` | one task per pipeline; "completed" is complete; a run ends with its own record |
| | `LoaderCorrect`, `LoaderServesAlone` | entries of `sys.modules` settle usable; a lone call never fails |
| | `BusCorrect` | one responder at most is told "delivered", and the requester gets its answer |
| `StoresProofs` | `CacheCorrect`, `CacheEvictsLeastRecent`, `CacheRefinesLossyMap` | the cache's two structures agree, it evicts the least recent and refines `LossyMap` |
| | `AuditCorrect` | numbers unique and logged means stored in every interleaving, the chain verifies until calls overlap |
| | `BootCorrect` | one seeder per service; bootstrapped means seeded but for the four excuses: cut off, early, raced, lost |
| | `NotesCorrect` | an append cut off takes at most one later note with it |
| | `ServingIsWhole`, `NeverStamps` | a server that serves has all tables; no startup records the revision |
| | `SchemaIsRecorded` | with any upgrades, releases and configurations the revision is what the tables are, and ready stays ready |
| `RagProofs` | `FilesCorrect`, `FilesRefineIndex` | an answered document stays in the JSONL files, which refine `RagIndex` until two ingests overlap |
| | `PostgresCorrect`, `TableRefinesIndex` | the same of the table, in every interleaving of transactions |
| | `TextsAreTiled` | both chunkers tile every text with every valid configuration |
| `StewardProofs` | `RuntimeCorrect`, `StewardAnswersStayInScope`, `StewardVerdictPerAnswer` | any number of sessions, tenants, documents and pack loads: answers stay in scope; who is told a verdict finds that one in the ledger, and no commit, failure or restart leaves another |
| | `StewardLedgerOnlyGrows` | a committed verdict is neither changed nor deleted; a new one comes with the commit of its query |
| | `PacksCorrect`, `StewardPacksWhole` | of any packs, loaded by any number of sessions side by side: keys unique, each pack there whole under the one record that counts it, or not at all |
| | `StewardLoadedStays` | a loaded pack keeps a record and its rows; the service core is committed once |

Each argument is an inductive invariant: it holds at first, every action keeps it, and the
property follows. The invariants that needed an idea:

*Team.* `Sound(r)` is: typed, slugs unique, quota exact. It is preserved by each operator,
by one lemma per operation in `TeamOpsProofs` over seats as sequences of roles
(`SeatShape`, and finiteness carried along so that counting seats makes sense).
`RegistryInv` adds that a live team's id was drawn, so that `create_team` gets an id
no team has. In the file system, `StoreInv` says that the state file, the temporary file
and every copy are sound or unreadable. This is enough because an unreadable file loads
as the empty registry, which is sound, and nothing else enters a copy but `Result` of a
loaded one: torn and lost files lose data but never make inconsistent data.

*Team, one instance at a time.* `AloneInv` says what the one that serves has in hand: its
copy is `Result` of what is in the file *now*, since nobody else swaps, and after the write
the temporary file is that copy. So the rename is the abstract step, and every other step
stutters (`StoreIsAtomic`). `KeptInv` adds who may take a team out of those answered.
`HandlerInv` carries this through the two blocks and the row of a property POST
(`CreationInv`: the id a block is about to use has neither team nor seats in the file;
`ServedInv`: from the first block's answer on, the post has a team or its owner is at the
limit). Both listing theorems are for one worker, as the run is: two that overlap can lose
a team, which section 6 shows.

*Platform.* `OkIsStored` is not inductive: the step that answers ok must know that the row
of this very request is in the table. `PlatformInv` adds who owns a job (`JobsOwned`: no
post is served by two threads), where its row is at each place of the handler
(`RowFollowsJob`: open until the commit, in the table after it) and that a post never
sent has no row anywhere (`UnsentHasNoRow`). `ListsOnlyGrow` follows from the fact that
every step appends to `rows` or leaves it, and that `listed` is a prefix of it. Until a
commit raises, the only row left open is one about to be committed (`NothingLeftOpen`);
that is why nothing else can store a refused request.

*Queue.* `QueueInv` and two facts it leaves out: a request is numbered by its first
attempt, and the job whose handler is awaited is still running. From the second, the
handler's end never finds a job a client has changed meanwhile. For `QueueImplementsTurns`
the type invariant is enough: a job that is made has a number no queue refers to yet.
The refinement is of the steps; fairness and `PendingLeaves` stay with TLC.

*Workflow.* `RunSound`: what a run has noted and what it has before it are together its
own steps, unless it broke off, and then it says "partial". With `LoopsHaveOne` a task that
ends knows which pipeline's record it writes.

*Loading.* `LoaderInv` is about when all is quiet. `NotificationKept`, `LockKept` and
`KnowledgeKept` say what holds meanwhile: an entry half executed is somebody's who executes
it, and one that is missed is somebody's to import.

*Event bus.* `BusInv` alone lacks what holds before a request: `NewUntold` says that
nobody was told anything under an id that was not yet asked for. With the types of the
variables it is inductive: an id leaves `pending` in the same step in which a
responder is told or the timer fires, so that a second responder finds nothing.

*Memory cache.* `Ordered`: the recency relation is a total order in which every set of
keys has a first, which is why eviction always finds the one key to drop. `UsedCovers`
relates it to the history variable of `EvictsLeastRecent`.

*Audit.* `OneAtATime` spells out what `overlapped` is short for, `HeadWhileServing` where
the head is between taking a number and moving it.

*Bootstrap.* `HoldsAsAsker` (who is under the lock), `SeededSoFar` (what a seeder has behind
it is in), and `PartialExplained`: a partial corpus is being filled or has an excuse. An upsert writes
what it read, perhaps long ago; `WritesCurrent` says that whoever was alone on the layer
since then still has in hand all that the layer has. So only overlapping upserts lose a
document, and that is all the excuse `lost` covers.

*Notes.* `LostCounted` counts one cut append for each lost note, and one more while the file
ends unfinished: the note it may yet take with it.

*Startup.* `BehindAreMade`: a process that creates tables has made those before the one
it is at; so one that is past the last has made all. `UpgradeIsLate`: the server's upgrade
starts with all tables there, and therefore gets no further than its first statement.
From the second follows `ServerNeverStamps`, from both `ServingHasTables`.

*Steward schema.* `OnItsWay`: an upgrade that began at the revision which is still
recorded would, if it committed now, leave the schema of the revision it has reached.
Those that began at another revision fail at their commit. `ReadyIsHead`: what the probe
called ready is at the head, which no upgrade leaves.

*RAG files.* `LayerInv`, of a layer no two ingests of which overlapped: the two files differ
at one document at most, and the one writer's text is the records that are there with its
document (`WriterSound`, phase by phase). So the swap of the records is the abstract step,
wherever the writer dies.

*RAG table.* `AloneUnlessMixed`: unless two upserts of a document overlapped, the DELETE of
one saw all rows of it that there are when it commits. In every case a transaction deletes
only rows of the document it inserts (`SnapsOwn`), which is why an answered document stays.

*Chunking.* `ChunksTile` says nothing of where the next chunk begins. `NextBegins` does:
not after `pos`, and before it by the overlap at most. As the overlap is less than the
target (`chunk_text`) and at most half a window (`_chunk_text`), the next cut lies beyond
`pos` whatever the marks are. The lemma `CutOnce` is that argument for both loops.

*Steward runtime.* The properties are about sessions that are over, the argument about those
that are open. `RuntimeInv` says of each that what is left of its program is the end of a
program of its call (`Questioning`, `Ingestion`, `Reading`, `Loading`): a question ends with
the one statement that writes its verdict, no other program has one, and a question searches
only the layers its call names. `Written` ties its uncommitted rows to the answer it is about
to give (`Audits(x.rows) = Verdict(s, x)`), so that the commit, which publishes both, makes
the ledger right (`LedgerOf(db, s) = Due(s, tx[s])`) and a rollback loses both. `RepliesOk`: an answer is due, sent or lost only
of a session that was committed, so what a lost answer leaves is the verdict it held. For the scope,
`RowsOk` says that a document in the platform's layer names a source or was uploaded by a
session that is over, was served and whose principal was a curator; an open session may hold
one only if its own principal is (`RowOk`), which `AuthorizeEstate` saw to when the call was
taken. Revoking access in the middle changes no session's principal. What has been found can
only get more legitimate: sessions of curators get more (`MoreCurated`).

*Steward packs.* `PacksWhole` is about committed rows, and a commit publishes what a session
wrote long before, so `PacksInv` is about what open sessions hold. It has three parts.
`KeysOk`: committed keys are unique, the rows an open session inserted have keys no committed
row has (but one it deletes), and no two open sessions inserted or deleted rows of one key;
an insert keeps this because it waits for the key or fails on it (`Flush`), a commit because
what it publishes was held until now. `Staged`: what an open loader has written is
exactly what the steps it has taken write (`Content`: all documents, all utterances, the
rows of the first so many lines), under the record it made itself (`Makes`, `Made`), made in
the place of the one it deleted (`Replaces`) or found (`Uses`); a request has written
nothing of a pack (`Asker`). As nothing but a commit publishes and a failure drops
everything, a pack is never there in part. `PacksOk`: the committed packs are whole, and
what an open loader found of its pack's record is still there, unless a forced load of the
utterances has been served (`ForcedIntents`), which is the excuse `PackRowsTraceable`
grants; and an inventory that has listed the record of the service core lists its documents.
What else could break it is a second load of the service core: its documents have
fixed ids, so `KeysOk` stops it before its commit (`CoreAfter`), which is also the argument of
`StewardLoadedStays`. That the record counts what is there needs no induction over the
fold that counts: the record has `Chunks` of the very set that is committed with it.
`LedgerOnlyGrows` and `LoadedStays` are action formulas of `StewardRuntime`; no configuration
lists them, `[][LedgerOnlyGrows]_runtimeVars` is how to.

*Assumptions of the steward's theorems.* `RuntimeQueries`: a call names layer 0, 1 or 2.
`RuntimeLoads`: a load is of one of the four packs, as there is one command line for each.
`RuntimePacks`: packs have different names, their files are not empty and the service core's
documents have different names, which is so of the files committed beside the loaders.
`RuntimeEnrolled`: the pilot fixture is a table of accounts, tokens and grants.
`RuntimeCorpora`: a database found at the beginning has ids and source generations of
its own, unique keys, in the platform's layer what loaders left, and packs that are whole or absent,
as `PacksWhole` shows that earlier sessions leave them; no forced load of the utterances is
among those. An upload of a curator into the platform's layer, and a forced load, are sessions of the
behaviour, of which there may be any number.

A proof attempt found that two `CASE`s of the steward's model had overlapping guards, of
which TLA+ takes any and TLC the first (`Denied`, and the curator check in `Request`); they
are now `IF`s in the order of the code's early returns.

Only model-checked is what the prover does not reach, liveness under fairness and `ENABLED`:
`PendingLeaves`, `TakenIsAnswered`, `CallEnds`, `RunsGoOn`. Induction over data is out of its
reach too (its induction theorems take operators as parameters): no theorem here says what a
fold computes, only that two of the same set agree. The theorems of
`StewardProofs` are about `RuntimeSpec`; the run's `MCSpec` only bounds how many calls and
disturbances there are.

## 6. Disagreements found

What the repository says of itself and the code does not do. Three have a run; the
others are definitions of the modules, stated as the text says them: put the one named here
into the module's configuration (as `INVARIANT`, or `PROPERTY` if it is an action
property) and TLC shows the behaviour. Where no definition is named, the module has the
behaviour as an action or an initial state.

| text | what the code does | definition |
|---|---|---|
| team.py:135-136 "Written whole and swapped in, so a crash mid-write cannot leave a half-written team registry behind." | every instance writes the same `state.json.tmp` (143): one truncates it while the other renames it, and a crash leaves the empty file as `state.json` | `NeverHalfWritten` (run `team_store_torn`) |
| team.py:158-160 the reload in `__init__` "is what makes create_team -> get_team survive a fresh block instance" | of two overlapping actions the later swap drops the team the earlier one created and answered | `AnsweredTeamsSurvive` |
| team.py:297 "# Check team size limit" | checked when inviting only; invitations sent below the limit are all accepted (330-372) | `TeamSizeLimit` |
| team.py:394 "Cannot remove owner unless you're owner" | the owner is recognised by role (395): after he lowered his own with `set_role`, a member who outranks him removes him | `OwnerRemovedByOwnerOnly` |
| property_management.py:22 "List a property with a front-desk team and persist inventory." | the handler reads no block result before it saves: at the team limit the row is stored without a team (62) | `ListedPropertyHasTeam` |
| docs/coder_brief.md:226 "Accept means HTTP 200, not ok:false, store.list_all(entity) holds" | when `conn.commit()` raises (store.py:87), the row stays in the open transaction of the connection and the next request of that thread commits it (store.py:69), even a GET | `RefusedNeverStored` |
| queue.py:193 `if job["retry_count"] >= job["max_retries"]` | a retry is a new job with the default `max_retries` and count 0 (199): a handler that keeps raising is retried for ever, at priority 0 | `HandlerRetries` |
| queue.py:141 "Get job status" | the id is the millisecond of the enqueue (92); of two in one millisecond the table keeps the later | `IdFindsLatest` states what holds |
| queue.py:96 `# 0 = normal, 1 = high` | high means in front of everything (118), also of earlier high ones, and a pass serves one job of a queue (168): a steady flow of them keeps the others waiting for ever | `NobodyStarves` of `QueueTurns`, in the place of `PendingLeaves` in `MCBlocks` |
| queue.py:22 "Background job processing" | the worker task ends with the `asyncio.run` that initialised the block (vendor/blocks/queue/block.py:69): no job is ever processed | `worker = "gone"` in `QueueInit` |
| memory.py:19 "cache while remaining logically isolated." | eviction takes the oldest key of all namespaces (186) | `NamespacesIsolated` |
| audit.py:16 "Blockchain-style hash chaining for integrity" | the head is read before the awaited insert (148) and moved after it (169): overlapping calls name one predecessor and `_verify_chain` reports a break nobody made | `VerifyIntact` without `~overlapped` |
| audit.py:12 "Immutable audit trail for compliance" | the vendored database block reads `values`, is given `data` (163; database.py:305) and its envelope hides the failure; unwired (158), nothing is stored: both answer logged | `LoggedIsStored` without `database = "contract"` |
| dispatch.py:79 "import restored so execute('notification', action='send') can bind."; dispatch.py:56 "Install an in-memory module so ask/search can bind" | published before its code has run and without a lock (103), and deleted while another thread imports it (142): first calls that overlap can fail with `AttributeError` or `KeyError` | `NobodyFails` |
| postgres_store.py:4-5 "Optional CREATE EXTENSION vector is attempted but not required" | the exception is caught in a transaction Postgres has aborted (58): the commit rolls the tables back and `_ensured` is set | `EnsuredMeansTable` |
| kits/private_estate_operations/README.md:16 "per-estate documents, separately indexed" | the hash leaves the layer out and is the primary key of the table both share (17): a document in one layer is refused in the other | `LayersSeparate` |
| workflow.py:345 ""block_id" accepted as an alias: every consumer outside this repo ... calls the identifier block_id" | `_validate_chain` reads `block` alone (261) and refuses such a pipeline of two steps before the loop that accepts the alias | `AliasAccepted` (run `workflow_alias`) |
| embedding_guard.py:1 "Embedding fingerprint / mismatch guard — fail closed on drift." | the guard compares with `prior_fingerprint` (ingestion.py:217), which no caller passes, and a query does not ask it: after a restart with another backend questions are compared with the old vectors | `HitsMatchEmbedder` (run `steward_drift`) |
| packs/load_steward_core.py:1 "--profile mini [--force]" | a forced load deletes the source record (packs/__init__.py:124), not the documents; those have fixed ids (193), so inserting them again fails on their keys and the load is rolled back | `LoadedStays` states what holds (proved): no second load commits |

## 7. Not modelled

- Pure computation: formatting, embeddings, scoring and formulas are floating point or
  text; block inputs and records are taken as built or refused.
- The blocks the handlers run for their answer only (analytics, dashboard, knowledge,
  vector search, recommendation, validation, formula, capture): their state dies with the
  instance of one call. `CapabilityPlatform` has them as steps that succeed or raise.
- The rules of SQLite, Postgres, POSIX files and Python's import system are external:
  modelled as far as the code relies on them (one writer, the truncating open, the atomic
  rename, READ COMMITTED, the lock of one module's import).
- The estate block stubs return their input; tests, user interface and deployment are
  read for what they claim.
- Operator authentication is a function of the environment and one header; the database,
  notification and core modules convert, connect and deliver. None keeps anything between
  two steps another could come between.
- Event bus: a publish that is not a request, the event history and the topology, which no
  operation reads back. Workflow: interpolation of step inputs and cron arithmetic.
- Migrations: downgrades and alembic's offline mode, which nothing in the repository runs.
- Steward runtime: parsing, embeddings and ranks (a choice among what is in scope). Its
  `HealApproval` table is written by no code.

## 8. Plan

1. **Composition**: `PropertyListing` over `Workflow`'s own pipeline.
2. **The other direction of the RAG stores**: what holds of two ingests that overlapped
   (`FilesInv` and `PostgresInv` name it for the answered documents only).
