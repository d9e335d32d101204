# secval in TLA+

secval indexes source repositories and audits them with language models. This
directory holds TLA+ models of the parts of it that run concurrently or fail
half-way and of the algorithms between a source file and an answer, TLC
configurations that check them on small instances, and TLAPS proofs that they
keep their invariants on every instance. Paths below are relative to
`src/src/secval/` unless they start with `src/`.

Contents: 1 the system and its components; 2 plan; 3 the modules and the code;
4 what each run checks; 5 bounds and fairness; 6 refinement and proofs; 7
disagreements with the documentation; 8 what is not modelled.

## 1. The system and its components

An API process (FastAPI, `web_api/`) holds two queue services, each with one
worker thread on a pool of one, one SQLite file and one file lock. Several
processes may share the files, which is what the file lock, the leases and the
marking of leftovers at a start are there for.
The index queue runs the index pipeline against OpenSearch, Qdrant, Neo4j and
the source store; the audit queue runs an audit, which by itself is a small
concurrent system: a main investigator, workers, reviews and validation runs in
a thread pool, sharing one task document and one budget of model calls.

| Component | State | Operations | Talks to | What is hard | What makes it correct |
|---|---|---|---|---|---|
| Index job queue (`services/index_job_service.py`, `cross_process_file_lock.py`, `task_lease.py`) | rows of `index_jobs` (status, stage, lease, attempt), the file lock, a future per process | create, resume, cancel, recover_stale, run_exclusive, drain, heartbeat, close | SQLite, the index pipeline by callbacks (`progress`) | several processes, crashes, late heartbeats, decisions on rows read earlier | one indexer at a time; nobody closes an executing job; no job twice; rows do not say more of the index than is so; no job is forgotten |
| Start and restart of a worker (the same file, `services/audit_service.py`) | `self.future`, `self.lock`, the callbacks of futures | `_start_worker_if_needed`, `_worker_finished` | the executor | a callback that runs inline, a row inserted while the worker leaves | one drain loop; no row without somebody to look at it; create returns |
| Index pipeline (`services/index_service.py`) and index stores (`infrastructure/opensearch/`, `qdrant/`, `neo4j/`, `joern/`) | documents, vectors, graph and projects of each run | write, bind, clean up, roll back | the stores, the snapshots | no transaction spans the stores; failures while rolling back or cleaning up; records shared by two runs of one snapshot id | a bound run is whole; a rolled-back one left nothing; a retired one has left nothing |
| Source snapshots (`infrastructure/audit/source_snapshot_store.py`) | files, snapshots, bindings | capture, bind, retire, delete_unbound | the index pipeline | check then delete against a bind | a bound run keeps its source, but for that race |
| Upload (`web_api/repository_upload.py`, `services/repository_operation.py`) | repository directory and its backups, the in-process `index_lock` | replace | the index pipeline, by the lock | a crash or a failing rename between two renames | the last whole version is in the directory or in a backup |
| Code processing (`code_processing/`) | none: functions of the files | split, link, build the graph | tree-sitter, Joern, Neo4j | nested declarations, scopes, imports, hierarchies in any order, two sources of calls | each call in one chunk, in Java typed by the variable in force, linked to what is imported, counted once |
| Search (`services/search_service.py`, `infrastructure/fusion`, `reranker`, the retrievers) | none of its own; reads the stores one after the other | search | OpenSearch, Qdrant, a model | indexing changes the stores between two readings; ties; an answer of the model that is partial, wrong or absent | nothing found is lost or doubled; the order that both engines agree on is kept; a search fails only when a vector's document is gone |
| Audit queue and store (`services/audit_service.py`, `infrastructure/audit/sqlite_audit_store.py`) | task document, runtime row, file lock, `store.lock` | create in three saves, cancel, recover, claim, finish, drain, heartbeat | SQLite, the audit | a save is a read and a write in two transactions; the lock around it is local to a process | one audit; a lease is its owner's; outcomes are final; accepted cancels become outcomes |
| Agent team (`services/agent_team.py`, `agent_worker.py`) | worker rows, deliveries, `model_requests`, the pool and `futures` | submit, request, deliver, resume_for_validation, close | the model, the task document | everybody takes calls from one budget; results arrive while main decides | calls counted, none beyond the budget; the reserve is kept; a report only after all results; every audit ends |
| Path pipeline (`services/path_validation_pipeline.py`, methods of `AgentTeam`) | sketches, packets, validation futures | progress, result, schedule, run, wait_for_all | workers, the pool | the list of packets is rebuilt while packets are under way; schedulers take no lock | a path is in one packet; no path is forgotten; the wait ends |
| Audit runner and reports (`services/audit_runner.py`, `independent_review.py`, `finding_report.py`, `report_coverage.py`, `audit_checkpoint.py`) | ledger of candidates and evidence, checkpoint, reviews, report | record, review, collect, assemble, stop, resume | the team, the model | concurrent reviews with evidence of their own, reuse of older reviews, failures of one review | only what was reviewed as it stands is reported; no candidate disappears; cited evidence is in the ledger |
| Kernel, candidate ledger, evidence tools, web API, configuration, frontend | none of their own | queries, pure functions, wiring | | | not modelled (section 8) |

`PROJECT.json` lists every component with its sources and its status, and the
hazards at their lines.

## 2. Plan

Done: `IndexJobs` (the queue the documentation promises most about),
`WorkerStart` (the step that `IndexJobs` takes as atomic), `AuditQueue`,
`AgentTeam`, `PathPackets`; then `RepositoryUpload` and `IndexCommit` (the
commit that `IndexJobs` takes as three stretches, with the source snapshots and
the upload beside it), the modules of code processing and search,
`FindingReview`, the abstract `ExclusiveQueue` and the proofs that `IndexJobs`,
and `AuditQueue` of one process, implement it.

Proved beside them, in `XProofs` for a module `X`: the safety properties of
`IndexJobs`, `WorkerStart`, `AuditQueue`, `IndexCommit` with `RepositoryUpload`,
`PathPackets`, `AgentTeam` and `FindingReview`; and, in `CodeProcessingProofs`,
those of `InheritedReturns`, `CallMatching` and `Search`, and what the operators
of `CallLinks` resolve a name to (section 6).

Next:

1. The continuation in `AgentTeam.start` with rows of a parent, file reviews.
2. The candidate ledger's transitions and the Spring analysis.

## 3. The modules and the code

**`IndexJobs`** (instance in `MCIndexJobs`)**.** One row per job, `ppc`/`pjob`/`goal`/`saw`/`todo` for the
request thread of each process and `wpc`/`wjob`/`wstage`/`beat` for its worker.
An action is one SQLite transaction, one file-lock call or one section under
`self.lock`. `request_cancel` is three steps (`CancelRead`, `CancelReload`,
`CancelWrite`) because the code reads, reads again in `update`, and writes with
`WHERE id=?` only. `recover_stale` is four (`RecoverRead` to `RecoverWrite`).
`Crash` drops a process with its handles and leaves its rows; `Start`, `Boot`,
`Mark`, `Kick` are the constructor. Of the pipeline it keeps three stretches,
each announced by `progress` (`SaveStage`, which may raise the cancellation) and
done or failed by `DoStretch`, `FailStretch`. `cleaned` says that the older
documents and vectors are deleted, `retired` that the older bindings are: a graph
or Joern clean-up that fails is only logged (`index_service.py:190-211`), so that
the last stretch may end well without the second.

**`WorkerStart`.** One process; threads are the requesters, the executor's
thread and the one that closes. `self.lock` is a variable; `Submit` and
`Register` are the two calls of `_start_worker_if_needed`; `SetResult` makes a
future done and only then runs its callbacks; a `Register` on a future that is
done runs the callback in the registering thread, under the lock it holds.

**`AuditQueue`** (instance in `MCAuditQueue`)**.** Documents are `[status, scoped]`; `SaveRead` and the writes
are the two transactions of `AuditStore.update`, serialised by `slock[p]`, which
is per process as `store.lock` is. `run_task` is three saves (running, work,
outcome) and its ways to raise. `StartWorker` is atomic here, its fine grain
being `WorkerStart`'s subject.

**`AgentTeam`** (instance in `MCAgentTeam`)**.** A worker's row (`wstat`, `wreason`, `wcalls`, `wprog`,
`wresume`) and its thread (`wpc`); main's place in `_run_task` (`mpc`);
`dprog`, `dfinal` for `team_deliveries`; a review per candidate. `Take`,
`TakeWorker` and `Refusal` are `AgentTeam.request` under `team.lock`, with its
two saves. A cancel takes `store.lock` only, so it may come after `check_running`
or between the saves: then what is saved later is dropped (`AuditStore.update`) and
the request is sent all the same (`CancelInside`), and who sent it fails when the
answer is to be noted (`MainLost`, `WorkerFails`, `ReviewLost`). `sent` counts what
each agent really sends; the code has no such counter. It is a
new task without the path pipeline; `can_finalize` is a free choice, for it
depends on what the model wrote; the pool's order of waiting futures is free.

**`PathPackets`.** A packet is the set of its paths (its id is a hash of them).
`Rebuild` replaces the list by packets of the queued sketches, as
`submit_worker_progress` and `persist_path_sketches` do;
`schedule_path_validations` takes no lock and is a read, a pick and a submit;
a run looks its packet up three times, and each lookup may find it gone
(`Dropped`); `Pending` looks at futures, `Covered` at the packets' status.
`Continue` is the next task of the same audit.

**`RepositoryUpload`, `IndexCommit`** (instance in `MCIndexCommit`)**.** A
directory is a version with a flag, whole or part; `SetAside`, `MoveIn`,
`CopyInstead`, `PutBack`, `RepairFails`, `DropBackup` are the renames of
`replace_repository_directory`, each of which may fail. `IndexCommit` EXTENDS
it: both need `lock`, the process's `index_lock`. OpenSearch and Qdrant map a
chunk to the attempt that wrote it, because a record's key is the chunk's id; a
run's graph is absent, partial or whole (`SaveGraph` is a sequence of
transactions); Joern has a project for each run and language. An action is one
store call of `index_repository`; `Fault` lets it raise, after part of its
effect where the code has parts. `BindCheck` and `BindInsert`, and `DeleteCheck`
and `DeleteSnapshot`, are two statements each, as in `source_snapshot_store.py`.
A deletion takes a snapshot of any age, the one of the attempt under way included,
since `DELETE /api/repositories/unbound-snapshots/{id}` passes
`older_than_hours=0` on (`search_api.py:333`). `raced` is history: the attempts
whose bind and the deletion of whose snapshot were under way together.

**`SyntaxTree`, `PythonChunks`, `EcmascriptChunks`, `JavaChunks`,
`CallLinks`, `CallGraph`** (instance in `MCCodeProcessing`)**.**
Operators, one for each function of the splitters, the linking pass
(`resolve_cross_file_calls.py`) and the graph store. A tree is the
sequence of its nodes in source order, so that a byte range is a range of node
numbers; a dotted name is the sequence of its parts; a walk with a stack is the
set it reaches, with `FirstMet` where its order matters.

**`InheritedReturns`, `CallMatching`, `Search`** (the same instance)**.** The
parts of code processing whose result may depend on an order that the code does
not fix, and the search, whose readings other activity comes between.
`InheritedReturns` is `_propagate_inherited_methods`: `NextType` takes any type
that is left, `InheritStep` any ancestor of it that is left, and each reads and
extends the one `table`. `CallMatching` is `_resolve_joern_call_sites`:
`MatchJoern` takes the next call of Joern, `EndJoern` ends them, `AddMissing`
adds what only the parser saw. `Search` is one search in its stages
(`ReadKeywords`, `ReadVectors`, `LoadVectors`, `FuseResults`, `RankResults`),
between which `StoresChange` adds and removes chunks, since a search takes no
lock; a score is the fraction of which Python computes a float.

**`FindingReview`** (instance in `MCFindingReview`)**.** The ledger maps each
candidate to its state and details and holds the evidence ids read so far.
`Gather` is the prefetch of `review_packet` and what it looks up to reuse a
review of the parent, `Answer` the model's verdict or failure; in a team the
reviews of the candidates run at the same time, with evidence of their own that
`Collect` merges into the ledger when main gets to them. `Coverage` and `Merge` are
`report_coverage` and `_deduplicate_findings`. A task ends without a report by
`Stop` (cancelled, interrupted, budget used up), or as failed by
`InvestigationFails`, by `PrefetchFails` (an `EvidenceServiceError` while a review
reads its evidence, which no handler of the review catches, in a team either) or in
the assembly. `Resume` is the continuation, which starts from the checkpoint or
from the partial report.

**`ExclusiveQueue`.** What both queues promise, with a place for each job
(absent, waiting, executing, over) and whether a synchronous call is under way.

## 4. What each run checks

| Run | Instance | Properties | States |
|---|---|---|---|
| `index_jobs` | 2 processes, 2 jobs, 1 upset | `OneIndexer`, `ExecutedJobStaysOpen`, `OutcomeMatchesIndex`, `ImplementsQueue`, `QueuedIsTaken`, `LockGivenBack` | 278 k |
| `worker_start` | 2 requesters, 3 creates | `OneDrainLoop`, `NoRowForgotten`, `QueueDrains` | 3.4 k |
| `audit_queue` | 2 processes, 2 tasks, 1 upset | `OneAudit`, `ExecutedTaskIsLeased`, `RunsAtMostOnce` | 1.3 M |
| `audit_queue_single` | 1 process with 2 request threads, 2 tasks, 2 upsets | `ImplementsQueue`, `CancelIsHonoured`, `OutcomeIsFinal`, `QueuedIsTaken` | 86 k |
| `agent_team` | 2 workers on 2 threads, 1 review, 4 calls, one cancel or time limit | `SharedBudget`, `ReserveKept`, `ReportAfterDelivery`, `NothingLeftRunning`, `ResumedAtMostOnce`, `AuditEnds` | 704 k |
| `path_packets` | 2 workers, 2 threads, 2 paths, 1 continuation | `PacketsDisjoint`, `QueuedIsCovered`, `NothingForgotten`, `WaitEnds` | 113 k |
| `index_commit` | 2 uploads, 2 chunks of 2 languages, 3 attempts, 1 fault | `BoundRunIsWhole`, `RolledBackClean`, `RetiredIsGone`, `SourceLostOnlyInRace`, `LastUploadKept` | 3.9 M |
| `code_processing` | trees of up to 5 more nodes, 3 calls of Joern, 3 types, searches of 4 chunks | `CallsOwnedOnce`, `ReceiverFollowsScope`, `LinksFollowImports`, `InheritanceOrderFree`, `CallSitesAccounted`, `RankingIsWhole` | 654 k |
| `finding_review` | 2 candidates, 3 changes of the ledger in each of 2 tasks | `FindingsAreReviewed`, `NoCandidateLost`, `CitedEvidenceKept` | 603 k |
| `worker_start_stuck`, `agent_team_lost`, `index_commit_old_data` | small | one documented promise each, violated (section 7) | |

Every property of a passing run has a mutant in `PROJECT.json`: a faulty
variant of an operator, kept beside the original in its module, with which TLC
finds the property violated. Three of them say less than their names may
suggest:

- `OutcomeMatchesIndex`: a completed job bound its batch and deleted the older
  documents and vectors; graph and Joern data of older runs may be left, with
  their bindings. Of a failed job nothing older was retired. Of cancelled jobs it
  says nothing (`NoHalfCommit`, section 7).
- `SharedBudget`: all agents together send at most `MaxSteps` requests, cancelled
  or not, and the shared counter lags behind by one at most; the counters are exact
  as long as nobody cancels.
- `ReceiverFollowsScope`: the scopes of local variables in Java, and the
  assignments that a Python function has made before the statement a call is in;
  section 7 has what the code does beyond that.

Type invariants (`TypeOK` of each module) are not
part of the runs; they are proved, of the modules that have one. `RunsAtMostOnce`,
`RunningIsRecoverable` and `ClaimInOrder` of `IndexJobs` are proved, and the
first and the last also follow from `ImplementsQueue`; `ScopeIsKept` and
`QueuedHasNoExecutor` of `AuditQueue` are proved as well.

## 5. Bounds and fairness

`MaxUpsets` limits crashes, shutdowns, cancels, recoveries, synchronous calls
and failing factories in a behaviour, of any kind, at any moment; the process
that it hits is any; in `index_jobs` it is `p1` (`Disturbed`), which is no
restriction up to the names of the processes, since one upset is allowed there.
Two processes and two jobs are enough for a waiting row behind an executing one,
and one upset for a crash, a cancel or a recovery at each point of an
execution. The proofs of section 6 have none of these bounds, and cover the
combinations of upsets that this run does not. `MaxCreates` limits rows of one process; futures
are at most twice as many, since each is due to a create or to a callback that
saw a row. `MaxSteps`, `MaxErrors` (1 stands for 5: the repair of a format error
that is followed by another try is not exercised) and `MaxProgress` limit an
audit; `MaxSteps = 4` lets a worker run out of its share, be resumed, and the
reserve be touched. `MCAgentTeam` lets either a cancel or the time limit strike
in an audit, not both: the code asks for both in one place. `BatchSize = 2` stands for 6 and with two paths gives
packets that are full and packets that are not; `MaxRuns` is larger than the
number of runs that ever are under way in the instance. Clock: leases lapse at
any time a heartbeat is not renewed; time limits strike at any time.

`index_commit`: three attempts are one that is bound, one that fails or crashes
beside it and one that meets what both left; two uploads differ in a chunk, so
that a run's data are partly overwritten by the next. One fault is one failing
store call, rename or repair; since a deletion may take any snapshot at any time,
two faults are beyond what TLC does in five minutes, and what a rollback or a
repair leaves that fails after a failure is in the proofs: the five invariants
are proved for any number of faults. A crash takes the process, hence an upload and an index run at once.
`RolledBackClean` assumes that a call that raised has stopped.

`code_processing`: each tree grows from a start that fits its subject
(`StartKinds`, `Growth`), so that a method with two nested blocks, or a class in
an anonymous class, is reached within the bound; there is one variable `x`
whose every declaration has a type of its own, so that a wrong choice is seen.
Inheritance goes through three types, each with any other types above it and
with a method that says nothing, one of two things or both; Joern reports up to
three calls, so that two of them may want one call of the parser and one find
none left. Searches have three chunks of the snapshot and one of an older one, all
orders of either engine, `topK` up to 3, a pool as large or twice as large but
never above 3, up to 2 candidates for the model and all its answers, of any
length up to 3; one chunk comes and goes, which is enough for a vector whose
document went and for a document whose vector did.

`finding_review`: two candidates of one rule share a route, so that they may
become one finding; three changes of the ledger are enough to record, revise and
record the other; `stopped` stands for every status of a task that was stopped
without an error, `Extra`
for a row of a batch read and a chunk of a file. `Resume` may start from the
checkpoint or the partial report, whichever the code would take.

Symmetry is declared only where no liveness is checked. Deadlock checking is
off everywhere: a queue with bounded rows becomes idle, an audit ends.

Fairness is weak fairness of threads only, since operating system threads run:
worker and request threads, an open transaction and a held lock's next step
(`Continue`, `Work`; `Request`, `Run`; `Answer`; `MainStep`, `WorkerStep`,
`ReviewStep`; `ScheduleStep`, `RunStep`). No client calls, cancels, crashes,
restarts, heartbeats, lapses or failures are fair. `QueuedIsTaken` therefore
has the premise `Calm`: from some time on every process stays up (and, in the
index queue, no synchronous call holds the lock at each look of the worker).
In `PathPackets` a worker that works ends, for its calls are limited; that the
limit makes it end is what `AuditEnds` checks.

## 6. Refinement and proofs

`ImplementsQueue` is `ExclusiveQueue!Spec` under the refinement mapping
`PlaceOf`, `InSyncCall` of `IndexJobs`: a job is executing when a worker has
claimed it and has not closed it yet, otherwise its place follows from its row.
Claiming takes the oldest waiting job, saving the outcome or the death of the
worker's process ends it, a cancel, a recovery or a starting process withdraws
what waits, and everything else is a stutter. It is checked in `index_jobs` and
proved.

`AuditQueue` has the same abstract specification under the same mapping, its
places taken from the documents, and no synchronous call (`sync` is false). It
holds for one process: with two, a late save of one puts back to `queued` a task
that the other has cancelled or claimed meanwhile (section 7). It is checked in `audit_queue_single` and
proved for any number of request threads and tasks.

The theorems hold for any sets of processes, threads, workers, paths, chunks and
candidates, types, calls and queries and for any bounds. What they assume of the constants is stated in
the modules: bounds are natural numbers, the named threads are different from
the members of the sets (`ProcsAssumption`: "none" and "gone" are no processes;
`ActorAssumption`: "main" is no worker; the three threads of `WorkerStart` are
no requesters), candidates of the agent team are finitely many
(`CandidatesAssumption`), the types gone through are declared ones
(`TypesAssumption`), a chunk's calls are a sequence (`ChunksAssumption`), and
chunk ids are numbers, limits positive and a model's answers sequences of numbers
(`SearchAssumption`). The theorems about one process carry a hypothesis,
`OneProcess`, because with two the properties are false (section
7). `AgentTeamProofs` is about `Spec`, of which
the run's `MCSpec` is a restriction.

Hardly any property is inductive as it stands; each proof has an invariant of its own,
which TLC checked on the run's instance (and on neighbouring ones) before it
was proved, and one lemma per action or group of actions.

- `IndexJobsProofs`: `TypeOK`, `OneIndexer`, `ExecutedJobStaysOpen`,
  `RunsAtMostOnce`, `RunningIsRecoverable`, `OutcomeMatchesIndex` and the action
  property `ClaimInOrder`. They follow from `IndexInv`: the six stated
  invariants are not inductive by themselves. `LockDiscipline` (one handle holds
  the file lock and every thread in a section that needs it has it) carries
  mutual exclusion and the fact that a recovery or a starting process that closes
  rows meets no executing worker; `Attempts` ties the attempt counter to the
  worker's place; `QueueOrder` says that a worker about to claim passed over no
  older queued row, which needs that rows are inserted in order;
  `CommitProgress` says how far the executing worker has come, and that the older
  bindings are retired in no stretch but the last; `Locals` types
  the threads' local variables where they are used. One lemma per group of
  actions, one step per action.
- In the same module `Implementation`, `Spec => ImplementsQueue`. Each step
  of `IndexJobs` is one of five kinds, with a lemma each: an insertion
  (`InsertEnters`: rows come in order, and a job without a row is not
  executed), a claim (`ClaimTakes`: needs the lock for "nothing else is under
  way" and `QueueOrder` for "the oldest"), the end of an execution (`Leaving`,
  for the outcome and for a crash), the start and the end of a synchronous
  call, the closing of a row (`Closing`: a withdrawal when the job waits, a
  stutter when it is executed or over), and all else (`Quiet`). A crash ends an
  execution or a synchronous call of its process, never both, by the lock.
- `WorkerStartProofs`: `TypeOK`, `OneDrainLoop`, `NoRowForgotten`, from
  `StartInv`, whose parts place the lock holder (`Places`), number futures and
  their states (`Futures`), tie the executor's thread to the running future
  (`Execution`), and say that the living future has its callback or that a
  thread is about to add it (`Callbacks`).
- `AuditQueueProofs`: from `QueueInv`, for any number of processes, `TypeOK`,
  `OneAudit`, `ExecutedTaskIsLeased`, `RunsAtMostOnce`. The documents are not to
  be trusted, since a save writes back what it read before; the runtime row is.
  `QueueInv` therefore says nothing of documents: one handle holds the file lock
  and every thread in a section that needs it has it (`LockDiscipline`), and a
  task has been claimed if and only if it has an owner (`Attempts`), which it
  never loses again. `SoleInv` adds, for one process, who holds `store.lock`
  (`StoreLock`), that what an open save is about to write is the document as it
  is but for what the save changes (`RequestCopies`, `WorkerCopies`,
  `StartCopies`), and what document and runtime row say of each other at each
  place of the worker (`Rows`, `Progress`); from it `QueuedHasNoExecutor`,
  `CancelIsHonoured` and the action properties `OutcomeIsFinal` and
  `ScopeIsKept`. `OrderInv` adds the order of the rows, that nothing older waits
  than the task a worker is about to claim, and that a starting process
  interrupts nothing that waits (`Ordered`); from it
  `AuditQueueImplementsQueue`. `EveryStep` sorts the steps by what is seen of
  them from outside (a row comes, a task is taken, an execution ends, another
  thread closes a task, or nothing), and each kind has a lemma that gives the
  abstract step.
- `IndexCommitProofs`: from `CommitInv` `TypeOK`, `LastUploadKept`,
  `BoundRunIsWhole`, `RolledBackClean` and `RetiredIsGone`; from `Snapshots`
  `SourceLostOnlyInRace`. All hold for deletions of snapshots of any age.
  `CommitInv` follows an attempt: what it has written at each place of the
  pipeline, that nobody writes under the number of an attempt that is over, what
  the roll-back has not deleted yet and what the clean-up of older runs has left.
  Of the upload it says where the last whole version is between the two renames,
  with and without a crash in between. `Snapshots` says which of the two requests
  has found what between its two statements: a deletion past its check is of a
  snapshot without a binding and a bind past its check of one that is there,
  unless the two have met, in which case the attempt is one of `raced`.
- `PathPacketsProofs`: from `PacketInv` `TypeOK`, `PacketsDisjoint`,
  `QueuedIsCovered`, `NothingForgotten`. `PacketsDisjoint` alone is not
  inductive: a run may go on whose future was overwritten, so a packet that was
  settled may be settled once more, and a continuation puts failed ones back on
  the list. What is disjoint is therefore the queued packets together with those
  that may become queued again (`AtRisk`, `Sound`). `CaredFor` says who will
  schedule each open packet, or why nobody will.
- `AgentTeamProofs`: from `TeamInv` `TypeOK`, `ReportAfterDelivery`,
  `NothingLeftRunning`, the action property `ResumedAtMostOnce`, and, inductive
  together with the types, `SharedBudget` and `ReserveKept`. `Fits` ties a worker's row to
  its thread and to what was delivered of it, in the terms that still hold when a
  cancelled task saves no rows and when the team is being closed; `Counted` says
  that a count that has reached its limit has been acted upon. The
  budget is a sum over agents by a fold. What a fold computes is proved by hand:
  a set of sets of agents for which it goes wrong would have a smallest member
  (the library's
  `FS_StrictSubsetOrderingWellFounded` and `WFMin`, which need no operator
  parameter), and from that follow what a sum does when one member is taken out
  (`SumRemove`), counts one more (`SumAdd`) or all stay (`SumSame`).
- `FindingReviewProofs`: from `ReviewInv` `TypeOK`, `FindingsAreReviewed`,
  `NoCandidateLost`, `CitedEvidenceKept`, and, of a team, that once main has
  collected every review the task does not fail (`TeamReportAssembles`): whatever
  its reviewers read and cite, `assemble_findings` finds each row of a promoted
  candidate and of its review. While reviews are under way a failing service may
  still fail the task (section 7).
  `Stands` follows what a reviewer was given from the packet of its job to the
  review, and says that a review that was taken over from an older task was made
  of the same input; while the reviews run the ledger changes in nothing but its
  evidence, and that only grows. The findings of a report are a fold over the
  candidates that merges each into the first finding that is the same;
  `PromotedOnce` says, by the argument above and `Merging` for one step, that
  each promoted candidate is in exactly one finding and nothing else is;
  `Covering` compares the promoted ones with the lists of the coverage.
- `CodeProcessingProofs`, on the three machines and on the resolution of names,
  for any declared types, chunks, calls, stores and answers:
  - `InheritanceOrder` (`InheritanceOrderFree`). That each step reads what earlier
    ones wrote makes the result look dependent on their order. `Sourced` says
    that a row that was taken over is of a method that the type does not
    declare, and is what one of the type's ancestors says of itself; `Taken` that
    a type has what each ancestor says that it has been compared with. It rests
    on `AncestorsTransitive`: what an ancestor took over, its own ancestors say,
    and those are ancestors of the taker. Methods with a dotted signature are
    excluded (`Plain`), because for them the result does depend on the order
    (section 7).
  - `CallSites` (`CallSitesAccounted`). `Counts` says, for each caller, line and
    name, that the sites of both sources are as many as the parser's calls taken,
    that a site of Joern alone exists only once those are used up, and how many
    of the parser's have been added; `Aimed` says where edges may lead. The
    theorem's "as many as possible" follows from the two counts.
  - `WholeRanking` (`RankingIsWhole`). The fusion chooses an order of the chunks
    by their scores, and to say anything of it one has to know that such an order
    exists: `InOrderExists` builds one for any strict total order of a finite set, and
    `BetterOrders` shows that scores, as fractions compared by cross
    multiplication, with the chunk id for ties, are one. `AheadIsBetter` is the
    arithmetic of reciprocal ranks: a chunk that both lists put before another
    has the greater sum, also when it is in one of them only. `Rankings` and
    `Reranked` say what an accepted answer of a model can do to a list. The
    invariant keeps the hits as lists without repetition until they are fused.
  - `LinksFollow`, which is about the operator `Resolve` and no behaviour: for any
    name, file header and declared types the link is `LinkFollows`, the clause of
    `LinksFollowImports` that the run checks. Its hypothesis `BoundOnce` is that the
    imports of the name in a header do not contradict each other. `JavaBindsOnce`
    proves it of the header of every Java file; `PythonBindsOnce` and
    `ScriptBindsOnce` of one that imports no local name twice. That is an error in
    JavaScript but not in Python: of `from a import X` and `import b as X` the code
    keeps the one as an import and the other as an alias, and nothing is said of
    such a file, neither here nor in the run.

Model-checked only:

- liveness (`QueuedIsTaken` of both queues, `LockGivenBack`, `QueueDrains`,
  `AuditEnds`, `WaitEnds`), which needs ENABLED and is out of the prover's reach;
- `CallsOwnedOnce`, `ReceiverFollowsScope` and, of `LinksFollowImports`, the
  clauses about signatures and overrides: they compare what walks over a syntax
  tree, folds over parameters and chains of scopes compute with where the nodes
  stand, for which one has to reason by induction over the tree, with a predicate
  as the parameter of the induction theorem;
- that the abstractions are apt: `StartWorker` of `AuditQueue` is atomic where
  `WorkerStart` is not, and that the parts modelled apart fit together is said
  here and not proved.

## 7. Disagreements with the documentation

With a run that shows them:

- `worker_start_stuck` (`CreateReturns`): a worker that ends between `submit` and
  `add_done_callback` leaves the creating thread waiting for the lock it holds.
- `agent_team_lost` (`ResultsReachMain`): the result of a worker that was delivered as stopped and
  then resumed never reaches the report.
- `index_commit_old_data` (`OldDataSurvives`): an attempt that fails after it wrote its chunks takes
  the unchanged chunks of the bound run of the same snapshot id with it: both use
  the same record ids, and the rollback deletes by the last writer.

Stated in the modules as a property that TLC finds violated when it is added to
a configuration of the module:

- `NoHalfCommit` (`IndexJobs`, 1 process, 1 job): a job can end as cancelled with
  its new index bound and the old one not cleaned up; `src/README.md:138`
  promises a 409 instead.
- `BoundSourceKept` (`MCIndexCommit`): a bound run can lose its source snapshot. The
  deletion checks for a binding and deletes by two statements, the bind checks the
  snapshot and inserts by two, and of a snapshot of any age
  (`older_than_hours=0`) they may be under way together. The docstring says that a
  deletion is refused as soon as a binding appears (`source_snapshot_store.py:217`);
  `SourceLostOnlyInRace` says that there is no other way to lose one.
- `QueuedHasNoExecutor` (`AuditQueue`) with two processes: a late save puts a task
  that executes back to `queued`; no worker may claim it again and it stays at
  the head of the queue (`sqlite_audit_store.py:53` says otherwise).
- `WaitForAllMeansTerminal` (`PathPackets`, 1 worker): paths reported with a
  worker's progress may never be validated, although `wait_for_all` is said to
  cover every packet (`agent_team.py:827`).
- `OverridesAncestors` (`MCCodeProcessing`, `MaxNodes = 2`): an `OVERRIDES` edge
  leads to any method of the name in a file that declares an ancestor, the
  method itself included (`code_graph_store.py:329`; `code_processing/README.md:125`
  speaks of methods of the super type).
- `ReviewKeepsReport` (`MCFindingReview`): without a team, a review that cites a
  row of its batch prefetch makes `assemble_findings` raise `KeyError`, and the
  task ends as failed without a report, although a review "must not silently
  erase an otherwise validated candidate" (`audit_runner.py:384`). A team keeps that
  promise (`TeamReportAssembles`).

Seen while modelling, and modelled as the code has it:

- Python: parameters `*args: T` and `**kwargs: T` with a type count as plain
  required ones (`split_python_declarations.py:585`); a nested function's own
  `x` makes the outer one's type forgotten (line 277 says that it is skipped);
  module-level code after the first declaration and statements of a class are in
  no chunk (`code_processing/README.md:35`).
- Python: the value that a variable is taken to have is sought before the
  statement of the function's body the call is in, and only among `x = value`. In
  `x = A().m()` followed by `if c: x = B().m(); x.f()` the call is taken to be of what
  `A().m()` returns, and so it is after a `for x in`, `with ... as x` or `x, y =`;
  `code_processing/README.md:90` says that a variable that a branch or a loop may
  assign stays unknown. An annotated assignment gives its type to the variable in
  the whole function, before it and in other branches too.
- JavaScript: the only declarator of a name before the call gives the variable its
  type, also one in a block or a closure that is over
  (`split_javascript_declarations.py:345`).
- JavaScript: calls in a nested named function are in no chunk; parameters of
  arrow functions and block scopes do not hide.
- Java: an implicit or `this` call in an anonymous or local class gets the outer
  class; an explicit import of an undeclared type falls through to the only type
  of that short name (`resolve_cross_file_calls.py:586`); a method whose
  signature has a dotted type is not seen as a type's own (480), which
  `InheritanceOrderFree` excludes by `dotted`.
- The ancestors of `find_dispatch_targets` are not limited to the snapshot and
  are direct super types only.
- A job whose graph or Joern clean-up failed ends as completed, with the older
  data and bindings left for the next run (`index_service.py:190-211`).
- A cancel between `check_running` and the saves of `AgentTeam.request` lets one
  request be sent that no counter records (`agent_team.py:514-561`).
- In a team, too, an `EvidenceServiceError` while one review reads its evidence
  ends the task as failed and drops the other reviews (`audit_runner.py:660`).
- A failed clean-up or rollback leaves vectors without documents; a search that
  meets one fails with 400 until the next index run, and so does a search between
  the two deletions.
- A crash in the copy fallback of an upload leaves a half-copied directory that
  can be indexed. Joern projects of a failed rollback of a run that was never
  bound are never cleaned.
- A review made with prefetched evidence is not reused after a plain resume,
  because the checkpoint is older than the validation
  (`src/docs/audit-implementation-status.md:2` says that equal input and
  evidence are reused); a continuation that stops before its own validation
  loses its parent's reviews; which findings are merged depends on their order.

## 8. What is not modelled, and why

- Analysis kernel (`facts/`, `semantics/`, `analyzers/`, `frontends/`) and the
  candidate ledger (`adjudication/`): pure functions over immutable facts,
  nothing that runs concurrently; left for later.
- Evidence tools and the model's HTTP client: reads of the indexes; their
  results are the evidence ids of `FindingReview`.
- Web API: validation and mapping of requests; its lock is modelled.
- Spring analysis, languages without a splitter, Markdown, progress texts,
  file reviews, the baseline audit.
- Configuration, wiring, the frontend: no state that the server depends on.

In the modelled components: texts, timestamps and history lists; token counts;
the evidence rounds inside a validation run; embeddings and the engines' scores
(an arbitrary order); what a model writes (each answer is a choice among the
kinds the code tells apart); SQLite errors other than failures the code handles.
Two processes that share the repository directories have two `index_lock`s
(`services/repository_operation.py:10`); `IndexCommit` models the one process
that the deployment starts.
