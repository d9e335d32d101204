------------------------------ MODULE IndexJobs ------------------------------
(***************************************************************************)
(* The background index queue of secval: services/index_job_service.py,    *)
(* cross_process_file_lock.py and task_lease.py.                           *)
(*                                                                         *)
(* Several API processes share one SQLite table of jobs and one file lock. *)
(* In each process a request thread serves the HTTP calls (create, resume, *)
(* cancel, recover-stale, the synchronous index call, shutdown) and a      *)
(* single worker thread drains the queue.  An action is one SQLite         *)
(* transaction, one file-lock call or one section under self.lock: what    *)
(* another process can see as one step.                                    *)
(***************************************************************************)
EXTENDS Naturals

CONSTANTS Procs,      \* the API processes
          MaxJobs     \* bound: rows ever inserted into index_jobs

ASSUME MaxJobsAssumption == MaxJobs \in Nat \ {0}

Job   == 1..MaxJobs   \* a job is its SQLite rowid
NoJob == 0

Terminal == {"completed", "failed", "interrupted", "cancelled"}
Active   == {"running", "cancelling"}
Outcome  == {"completed", "failed", "cancelled"}   \* what _run may save

(* Only two stage texts steer the code; every other text is "early".  The *)
(* work of index_repository is three stretches, each announced first.     *)
Stage == {"early", "bind", "cleanup"}
NextStretch(s) == IF s = "early" THEN "bind" ELSE "cleanup"

VARIABLES
  status, stage, lease, attempt,  \* columns of index_jobs, per job
  flock,                          \* open handles that hold the file lock
  ppc, pjob, goal, saw, todo,     \* request thread: place, job, status to
                                  \* write, lease it read, ids to mark
  wpc, wjob, wstage, beat,        \* worker thread: place, job, stretch,
                                  \* heartbeat thread running
  bound, cleaned, retired         \* jobs whose new index was bound, whose
                                  \* older documents and vectors are gone,
                                  \* whose older bindings are retired

table   == <<status, stage, lease, attempt>>
request == <<ppc, pjob, goal, saw, todo>>
worker  == <<wpc, wjob, wstage, beat>>
index   == <<bound, cleaned, retired>>
vars    == <<table, flock, request, worker, index>>

LeaseState == {"none", "live", "expired"}
PPC == {"down", "boot", "mark", "kick", "ready", "submit", "reload", "write",
        "rlock", "recheck", "rwrite", "exclusive", "closing"}
Claimed == {"prepare", "check", "stage", "do", "final"} \union Outcome
Holding == Claimed \union {"reread", "claim", "release"}
WPC == Holding \union {"idle", "poll", "lock", "leaving", "callback"}

TypeOK ==
  /\ status \in [Job -> {"absent", "queued"} \union Active \union Terminal]
  /\ stage \in [Job -> Stage]
  /\ lease \in [Job -> LeaseState]
  /\ attempt \in [Job -> Nat]
  /\ flock \subseteq Procs \X {"main", "worker"}
  /\ ppc \in [Procs -> PPC]
  /\ pjob \in [Procs -> Job \union {NoJob}]
  /\ goal \in [Procs -> Terminal \union {"none", "cancelling"}]
  /\ saw \in [Procs -> LeaseState]
  /\ todo \in [Procs -> SUBSET Job]
  /\ wpc \in [Procs -> WPC]
  /\ wjob \in [Procs -> Job \union {NoJob}]
  /\ wstage \in [Procs -> Stage]
  /\ beat \in [Procs -> BOOLEAN]
  /\ bound \subseteq Job
  /\ cleaned \subseteq Job
  /\ retired \subseteq Job

Init ==
  /\ status = [j \in Job |-> "absent"]
  /\ stage = [j \in Job |-> "early"]
  /\ lease = [j \in Job |-> "none"]
  /\ attempt = [j \in Job |-> 0]
  /\ flock = {}
  /\ ppc = [p \in Procs |-> "down"]
  /\ pjob = [p \in Procs |-> NoJob]
  /\ goal = [p \in Procs |-> "none"]
  /\ saw = [p \in Procs |-> "none"]
  /\ todo = [p \in Procs |-> {}]
  /\ wpc = [p \in Procs |-> "idle"]
  /\ wjob = [p \in Procs |-> NoJob]
  /\ wstage = [p \in Procs |-> "early"]
  /\ beat = [p \in Procs |-> FALSE]
  /\ bound = {}
  /\ cleaned = {}
  /\ retired = {}

-----------------------------------------------------------------------------
(* The store and the lock *)

Queued == {j \in Job : status[j] = "queued"}

\* IndexJobStore.next_queued: the queued row of least rowid.
IsNextQueued(j) == j \in Queued /\ \A i \in Queued : j <= i

\* CrossProcessFileLock: flock(LOCK_EX | LOCK_NB) fails while any handle,
\* of this process or of another, holds the lock.
LockFree == flock = {}
Acquire(p, t) == flock' = {<<p, t>>}
Release(p, t) == flock' = flock \ {<<p, t>>}

\* IndexJobStore.update of a job to status s, given the lease it read first:
\* a terminal row loses its lease, a cancelling one gets back what was read.
Update(j, s, readLease) ==
  /\ status' = [status EXCEPT ![j] = s]
  /\ stage' = [stage EXCEPT ![j] = "early"]
  /\ lease' = [lease EXCEPT ![j] = IF s \in Terminal THEN "none" ELSE readLease]
  /\ UNCHANGED attempt

\* IndexJobService._start_worker_if_needed; `callback` is a finished future
\* whose _worker_finished has not run yet, and then does nothing.
StartWorker(p) ==
  wpc' = IF wpc[p] \in {"idle", "callback"} THEN [wpc EXCEPT ![p] = "poll"]
                                            ELSE wpc

Goto(p, place) == ppc' = [ppc EXCEPT ![p] = place]

\* The request thread forgets its locals when the call returns.
Return(p) ==
  /\ Goto(p, "ready")
  /\ pjob' = [pjob EXCEPT ![p] = NoJob]
  /\ goal' = [goal EXCEPT ![p] = "none"]
  /\ saw' = [saw EXCEPT ![p] = "none"]
  /\ UNCHANGED todo

Step(p, place) == wpc' = [wpc EXCEPT ![p] = place]

-----------------------------------------------------------------------------
(* Process life *)

Start(p) ==
  /\ ppc[p] = "down"
  /\ Goto(p, "boot")
  /\ UNCHANGED <<table, flock, pjob, goal, saw, todo, worker, index>>

\* (faulty variant) the leftovers are marked without holding the lock.
BootUnlocked(p) ==
  /\ ppc[p] = "boot"
  /\ todo' = [todo EXCEPT ![p] = {j \in Job : status[j] \in Active}]
  /\ Goto(p, "mark")
  /\ UNCHANGED <<table, flock, pjob, goal, saw, worker, index>>

\* __init__: with the lock, nobody else is indexing, so the active rows are
\* leftovers; without it they are left alone.
Boot(p) ==
  /\ ppc[p] = "boot"
  /\ IF LockFree
     THEN /\ Acquire(p, "main")
          /\ todo' = [todo EXCEPT ![p] = {j \in Job : status[j] \in Active}]
          /\ Goto(p, "mark")
     ELSE /\ Goto(p, "kick")
          /\ UNCHANGED <<flock, todo>>
  /\ UNCHANGED <<table, pjob, goal, saw, worker, index>>

\* mark_unfinished_interrupted writes the rows it listed one by one.
Mark(p) ==
  /\ ppc[p] = "mark"
  /\ \E j \in todo[p] :
       /\ Update(j, "interrupted", "none")
       /\ todo' = [todo EXCEPT ![p] = @ \ {j}]
  /\ UNCHANGED <<flock, ppc, pjob, goal, saw, worker, index>>

MarkDone(p) ==
  /\ ppc[p] = "mark" /\ todo[p] = {}
  /\ Release(p, "main")
  /\ Goto(p, "kick")
  /\ UNCHANGED <<table, pjob, goal, saw, todo, worker, index>>

\* The tail of __init__: queued rows left by earlier processes are taken up.
Kick(p) ==
  /\ ppc[p] = "kick"
  /\ Goto(p, "ready")
  /\ IF Queued # {} THEN StartWorker(p) ELSE UNCHANGED wpc
  /\ UNCHANGED <<table, flock, pjob, goal, saw, todo,
                 wjob, wstage, beat, index>>

\* The process is killed: its threads and its file handles are gone.
Crash(p) ==
  /\ ppc[p] # "down"
  /\ flock' = {h \in flock : h[1] # p}
  /\ Goto(p, "down")
  /\ pjob' = [pjob EXCEPT ![p] = NoJob]
  /\ goal' = [goal EXCEPT ![p] = "none"]
  /\ saw' = [saw EXCEPT ![p] = "none"]
  /\ todo' = [todo EXCEPT ![p] = {}]
  /\ Step(p, "idle")
  /\ wjob' = [wjob EXCEPT ![p] = NoJob]
  /\ wstage' = [wstage EXCEPT ![p] = "early"]
  /\ beat' = [beat EXCEPT ![p] = FALSE]
  /\ UNCHANGED <<table, index>>

\* close(): called when the server has answered its last request.
Close(p) ==
  /\ ppc[p] = "ready"
  /\ Goto(p, "closing")
  /\ UNCHANGED <<table, flock, pjob, goal, saw, todo, worker, index>>

\* executor.shutdown(wait=True) returns when the worker has left.
Exit(p) ==
  /\ ppc[p] = "closing" /\ wpc[p] = "idle"
  /\ Goto(p, "down")
  /\ UNCHANGED <<table, flock, pjob, goal, saw, todo, worker, index>>

-----------------------------------------------------------------------------
(* Requests *)

\* create, and resume of a stopped job: first the row is inserted ...
Insert(p) ==
  /\ ppc[p] = "ready"
  /\ \E j \in Job :
       /\ status[j] = "absent" /\ \A i \in 1..(j - 1) : status[i] # "absent"
       /\ status' = [status EXCEPT ![j] = "queued"]
  /\ Goto(p, "submit")
  /\ UNCHANGED <<stage, lease, attempt, flock, pjob, goal, saw, todo,
                 worker, index>>

Create(p) == Insert(p)
Resume(p) ==
  /\ \E parent \in Job : status[parent] \in {"failed", "interrupted", "cancelled"}
  /\ Insert(p)

\* ... then the worker is started under self.lock.
Submit(p) ==
  /\ ppc[p] = "submit"
  /\ StartWorker(p)
  /\ Return(p)
  /\ UNCHANGED <<table, flock, wjob, wstage, beat, index>>

\* request_cancel decides on one read of the row.  A terminal row, and one in
\* a commit stage (HTTP 409), is left alone: the call changes nothing.
CancelRead(p, j) ==
  /\ ppc[p] = "ready"
  /\ pjob' = [pjob EXCEPT ![p] = j]
  /\ \/ /\ status[j] = "queued"
        /\ goal' = [goal EXCEPT ![p] = "cancelled"]
        /\ Goto(p, "write")
     \/ /\ status[j] \in Active
        /\ stage[j] \notin {"bind", "cleanup"}
        /\ goal' = [goal EXCEPT ![p] = "cancelling"]
        /\ Goto(p, "reload")
  /\ UNCHANGED <<table, flock, saw, todo, worker, index>>

\* update() reads the row a second time, for the columns it writes back.
CancelReload(p) ==
  /\ ppc[p] = "reload"
  /\ saw' = [saw EXCEPT ![p] = lease[pjob[p]]]
  /\ Goto(p, "write")
  /\ UNCHANGED <<table, flock, pjob, goal, todo, worker, index>>

\* Its UPDATE has no condition on the status; a lease read alive may be
\* over by the time it is written back.
CancelWrite(p) ==
  /\ ppc[p] = "write"
  /\ \E old \in IF saw[p] = "live" THEN {"live", "expired"} ELSE {saw[p]} :
       Update(pjob[p], goal[p], old)
  /\ Return(p)
  /\ UNCHANGED <<flock, worker, index>>

\* recover_stale: read the row, take the lock, read again, close the row.
RecoverRead(p, j) ==
  /\ ppc[p] = "ready"
  /\ status[j] \in Active /\ lease[j] = "expired"
  /\ pjob' = [pjob EXCEPT ![p] = j]
  /\ Goto(p, "rlock")
  /\ UNCHANGED <<table, flock, goal, saw, todo, worker, index>>

RecoverLock(p) ==
  /\ ppc[p] = "rlock"
  /\ IF LockFree
     THEN /\ Acquire(p, "main")
          /\ Goto(p, "recheck")
          /\ UNCHANGED <<pjob, goal, saw, todo>>
     ELSE /\ Return(p)
          /\ UNCHANGED flock
  /\ UNCHANGED <<table, worker, index>>

RecoverRecheck(p) ==
  /\ ppc[p] = "recheck"
  /\ LET j == pjob[p]
     IN IF status[j] \in Active /\ lease[j] = "expired"
        THEN /\ goal' = [goal EXCEPT ![p] = IF status[j] = "cancelling"
                                            THEN "cancelled" ELSE "interrupted"]
             /\ Goto(p, "rwrite")
             /\ UNCHANGED <<flock, pjob, saw, todo>>
        ELSE /\ Release(p, "main")
             /\ Return(p)
  /\ UNCHANGED <<table, worker, index>>

RecoverWrite(p) ==
  /\ ppc[p] = "rwrite"
  /\ Update(pjob[p], goal[p], "none")
  /\ Release(p, "main")
  /\ Return(p)
  /\ UNCHANGED <<worker, index>>

\* (faulty variant) the synchronous call only looks at its own worker.
ExclusiveStartUnlocked(p) ==
  /\ ppc[p] = "ready"
  /\ wpc[p] \in {"idle", "callback"}
  /\ Goto(p, "exclusive")
  /\ UNCHANGED <<table, flock, pjob, goal, saw, todo, worker, index>>

\* run_exclusive: the synchronous index call, under the same file lock.
ExclusiveStart(p) ==
  /\ ppc[p] = "ready"
  /\ wpc[p] \in {"idle", "callback"}
  /\ LockFree
  /\ Acquire(p, "main")
  /\ Goto(p, "exclusive")
  /\ UNCHANGED <<table, pjob, goal, saw, todo, worker, index>>

ExclusiveEnd(p) ==
  /\ ppc[p] = "exclusive"
  /\ Release(p, "main")
  /\ Goto(p, "ready")
  /\ UNCHANGED <<table, pjob, goal, saw, todo, worker, index>>

-----------------------------------------------------------------------------
(* The worker thread: _drain_queue and _run *)

Closed(p) == ppc[p] = "closing"

Poll(p) ==
  /\ wpc[p] = "poll"
  /\ Step(p, IF Closed(p) \/ Queued = {} THEN "leaving" ELSE "lock")
  /\ UNCHANGED <<table, flock, request, wjob, wstage, beat, index>>

\* Another holder: wait 0.2 s, then look at the queue again.
TryLock(p) ==
  /\ wpc[p] = "lock"
  /\ IF LockFree
     THEN Acquire(p, "worker") /\ Step(p, "reread")
     ELSE Step(p, IF Closed(p) THEN "leaving" ELSE "poll") /\ UNCHANGED flock
  /\ UNCHANGED <<table, request, wjob, wstage, beat, index>>

Reread(p) ==
  /\ wpc[p] = "reread"
  /\ IF Queued = {}
     THEN Release(p, "worker") /\ Step(p, "poll") /\ UNCHANGED wjob
     ELSE /\ \E j \in Job : /\ IsNextQueued(j)
                            /\ wjob' = [wjob EXCEPT ![p] = j]
          /\ Step(p, "claim")
          /\ UNCHANGED flock
  /\ UNCHANGED <<table, request, wstage, beat, index>>

\* (faulty variant) UPDATE ... WHERE id = ?: the row is not looked at again.
ClaimWonBlind(p) ==
  /\ wpc[p] = "claim"
  /\ LET j == wjob[p]
     IN /\ status' = [status EXCEPT ![j] = "running"]
        /\ lease' = [lease EXCEPT ![j] = "live"]
        /\ attempt' = [attempt EXCEPT ![j] = @ + 1]
  /\ beat' = [beat EXCEPT ![p] = TRUE]
  /\ Step(p, "prepare")
  /\ UNCHANGED <<stage, flock, request, wjob, wstage, index>>

\* claim: UPDATE ... WHERE id = ? AND status = 'queued'.
ClaimWon(p) ==
  /\ wpc[p] = "claim"
  /\ LET j == wjob[p]
     IN /\ status[j] = "queued"
        /\ status' = [status EXCEPT ![j] = "running"]
        /\ lease' = [lease EXCEPT ![j] = "live"]
        /\ attempt' = [attempt EXCEPT ![j] = @ + 1]
  /\ beat' = [beat EXCEPT ![p] = TRUE]
  /\ Step(p, "prepare")
  /\ UNCHANGED <<stage, flock, request, wjob, wstage, index>>

\* (faulty variant) the early return is taken outside the try/finally.
ClaimLostNoFinally(p) ==
  /\ wpc[p] = "claim"
  /\ status[wjob[p]] # "queued"
  /\ Step(p, "poll")
  /\ UNCHANGED <<table, flock, request, wjob, wstage, beat, index>>

ClaimLost(p) ==
  /\ wpc[p] = "claim"
  /\ status[wjob[p]] # "queued"
  /\ IF status[wjob[p]] = "cancelling" THEN Update(wjob[p], "cancelled", "none")
                                       ELSE UNCHANGED table
  /\ Step(p, "release")
  /\ UNCHANGED <<flock, request, wjob, wstage, beat, index>>

SetStage(j, s) ==
  /\ stage' = [stage EXCEPT ![j] = s]
  /\ UNCHANGED <<status, lease, attempt>>

Prepare(p) ==
  /\ wpc[p] = "prepare"
  /\ SetStage(wjob[p], "early")
  /\ wstage' = [wstage EXCEPT ![p] = "early"]
  /\ Step(p, "check")
  /\ UNCHANGED <<flock, request, wjob, beat, index>>

\* progress(): _stop_if_cancelled, one read of the row ...
CheckCancel(p) ==
  /\ wpc[p] \in {"check", "final"}
  /\ Step(p, CASE status[wjob[p]] = "cancelling" -> "cancelled"
               [] wpc[p] = "final" /\ status[wjob[p]] # "cancelling" -> "completed"
               [] OTHER -> "stage")
  /\ UNCHANGED <<table, flock, request, wjob, wstage, beat, index>>

\* ... then update_stage.
SaveStage(p) ==
  /\ wpc[p] = "stage"
  /\ SetStage(wjob[p], wstage[p])
  /\ Step(p, "do")
  /\ UNCHANGED <<flock, request, wjob, wstage, beat, index>>

\* (faulty variant) the result is returned before the old batches are cleaned.
DoStretchEarlyReturn(p) ==
  /\ wpc[p] = "do"
  /\ bound' = IF wstage[p] = "bind" THEN bound \union {wjob[p]} ELSE bound
  /\ wstage' = [wstage EXCEPT ![p] = NextStretch(@)]
  /\ Step(p, IF wstage[p] = "early" THEN "check" ELSE "final")
  /\ UNCHANGED <<table, flock, request, wjob, beat, cleaned, retired>>

\* index_repository up to its next progress call: writing the new batch, then
\* the bind transaction, then the cleanup of the old batches.  A graph or
\* Joern clean-up that fails is only logged: the old bindings then stay.
DoStretch(p) ==
  /\ wpc[p] = "do"
  /\ bound' = IF wstage[p] = "bind" THEN bound \union {wjob[p]} ELSE bound
  /\ IF wstage[p] = "cleanup"
     THEN /\ cleaned' = cleaned \union {wjob[p]}
          /\ retired' \in {retired, retired \union {wjob[p]}}
     ELSE UNCHANGED <<cleaned, retired>>
  /\ wstage' = [wstage EXCEPT ![p] = NextStretch(@)]
  /\ Step(p, IF wstage[p] = "cleanup" THEN "final" ELSE "check")
  /\ UNCHANGED <<table, flock, request, wjob, beat>>

\* Any stretch may raise; before the bind the new batch is rolled back.  The
\* cleanup raises in a deletion or, those done, when it retires the bindings.
FailStretch(p) ==
  /\ wpc[p] = "do"
  /\ cleaned' \in IF wstage[p] = "cleanup" THEN {cleaned, cleaned \union {wjob[p]}}
                                           ELSE {cleaned}
  /\ Step(p, "failed")
  /\ UNCHANGED <<table, flock, request, wjob, wstage, beat, bound, retired>>

SaveOutcome(p) ==
  /\ wpc[p] \in Outcome
  /\ Update(wjob[p], wpc[p], "none")
  /\ Step(p, "release")
  /\ UNCHANGED <<flock, request, wjob, wstage, beat, index>>

\* finally: stop the heartbeat, release the lock; then the next queue round.
Finish(p) ==
  /\ wpc[p] = "release"
  /\ Release(p, "worker")
  /\ beat' = [beat EXCEPT ![p] = FALSE]
  /\ wjob' = [wjob EXCEPT ![p] = NoJob]
  /\ wstage' = [wstage EXCEPT ![p] = "early"]
  /\ Step(p, "poll")
  /\ UNCHANGED <<table, request, index>>

\* _drain_queue has returned: only now is the future done for other threads.
FutureDone(p) ==
  /\ wpc[p] = "leaving"
  /\ Step(p, "callback")
  /\ UNCHANGED <<table, flock, request, wjob, wstage, beat, index>>

\* _worker_finished: needs self.lock, which the calls below hold.
HoldsSelfLock(p) == ppc[p] \in {"rlock", "recheck", "rwrite", "exclusive"}
\* (faulty variant) no second look at the queue when the worker ends.
WorkerFinishedBlind(p) ==
  /\ wpc[p] = "callback"
  /\ Step(p, "idle")
  /\ UNCHANGED <<table, flock, request, wjob, wstage, beat, index>>

WorkerFinished(p) ==
  /\ wpc[p] = "callback"
  /\ ~HoldsSelfLock(p)
  /\ Step(p, IF Queued # {} /\ ~Closed(p) THEN "poll" ELSE "idle")
  /\ UNCHANGED <<table, flock, request, wjob, wstage, beat, index>>

-----------------------------------------------------------------------------
(* The heartbeat thread and the clock *)

Renew(p) ==
  /\ beat[p]
  /\ LET j == wjob[p]
     IN IF status[j] \in Active
        THEN lease' = [lease EXCEPT ![j] = "live"] /\ UNCHANGED beat
        ELSE beat' = [beat EXCEPT ![p] = FALSE] /\ UNCHANGED lease
  /\ UNCHANGED <<status, stage, attempt, flock, request,
                 wpc, wjob, wstage, index>>

LeaseLapse(j) ==
  /\ lease[j] = "live"
  /\ lease' = [lease EXCEPT ![j] = "expired"]
  /\ UNCHANGED <<status, stage, attempt, flock, request, worker, index>>

-----------------------------------------------------------------------------
Lifecycle(p) == Start(p) \/ Crash(p) \/ Close(p)

\* What a client may ask for.
Call(p) ==
  \/ Create(p) \/ Resume(p) \/ ExclusiveStart(p)
  \/ \E j \in Job : CancelRead(p, j) \/ RecoverRead(p, j)

\* What a request thread does once it is under way.
Continue(p) ==
  \/ Boot(p) \/ Mark(p) \/ MarkDone(p) \/ Kick(p) \/ Exit(p) \/ Submit(p)
  \/ CancelReload(p) \/ CancelWrite(p)
  \/ RecoverLock(p) \/ RecoverRecheck(p) \/ RecoverWrite(p) \/ ExclusiveEnd(p)

Work(p) ==
  \/ Poll(p) \/ TryLock(p) \/ Reread(p) \/ ClaimWon(p) \/ ClaimLost(p)
  \/ Prepare(p) \/ CheckCancel(p) \/ SaveStage(p) \/ DoStretch(p)
  \/ FailStretch(p) \/ SaveOutcome(p) \/ Finish(p)
  \/ FutureDone(p) \/ WorkerFinished(p)

Next ==
  \/ \E p \in Procs : Lifecycle(p) \/ Call(p) \/ Continue(p) \/ Work(p) \/ Renew(p)
  \/ \E j \in Job : LeaseLapse(j)

Spec == Init /\ [][Next]_vars

\* Threads that can run do run; nobody has to send a request, to crash a
\* process or to start one, and no heartbeat has to be on time.
Fairness == \A p \in Procs : WF_vars(Continue(p)) /\ WF_vars(Work(p))

FairSpec == Spec /\ Fairness

-----------------------------------------------------------------------------
(* Properties *)

\* p is writing to the index stores, in the worker or in a synchronous call.
Indexing(p, t) ==
  \/ t = "worker" /\ wpc[p] \in Claimed
  \/ t = "main" /\ ppc[p] = "exclusive"

\* Of all threads of all processes at most one runs index_repository: what
\* the file lock around _run and run_exclusive is there for.
OneIndexer ==
  \A p, q \in Procs : \A t, u \in {"main", "worker"} :
    Indexing(p, t) /\ Indexing(q, u) => p = q /\ t = u

\* While a worker is executing a job, no other process closes its row as
\* failed, interrupted or completed, however late the heartbeat is: neither a
\* starting process (mark_unfinished_interrupted) nor recover_stale.
ExecutedJobStaysOpen ==
  \A p \in Procs :
    wpc[p] \in Claimed => status[wjob[p]] \in Active \union {"cancelled"}

\* A job is executed at most once in its life, whatever crashes, recoveries
\* and cancellations happen: claim is the only way out of the queue into
\* execution and nothing ever puts a row back.
RunsAtMostOnce == \A j \in Job : attempt[j] <= 1

\* Jobs are claimed in the order of their rows: never while an older one
\* waits, although the worker looks at the queue before it claims.
ClaimInOrder ==
  [][\A j \in Job : attempt'[j] # attempt[j]
                      => \A i \in 1..(j - 1) : status[i] # "queued"]_vars

\* What the row says happened to the index did happen: a completed job bound
\* its batch and deleted the older documents and vectors (a search that finds
\* nothing old), though graph or Joern data of older runs may be left, with
\* their bindings; of a failed job no older binding was retired; and none is
\* retired before the new index is bound and the old one cleaned.
OutcomeMatchesIndex ==
  \A j \in Job :
    /\ status[j] = "completed" => j \in bound /\ j \in cleaned
    /\ status[j] = "failed" => j \notin retired
    /\ j \in retired => j \in bound /\ j \in cleaned

\* A running row always carries a lease, so that once its process is gone the
\* lease expires and recover_stale accepts the job.
RunningIsRecoverable == \A j \in Job : status[j] = "running" => lease[j] # "none"

\* A process that got the file lock gives it back, on every path through
\* _run, recover_stale, run_exclusive and the constructor.
LockHeldBy(p) == \E t \in {"main", "worker"} : <<p, t>> \in flock
LockGivenBack == \A p \in Procs : LockHeldBy(p) ~> ~LockHeldBy(p)

\* From some time on every process stays up and no synchronous index call is
\* made (each may hold the lock whenever the queue's worker looks at it).
Calm == <>[](\A p \in Procs : ppc[p] \notin {"down", "closing", "exclusive"})

\* Once the system is calm, no job waits for ever: the start of the worker,
\* its way out and the creation of a job do not miss each other.
QueuedIsTaken ==
  Calm => \A j \in Job : status[j] = "queued" ~> status[j] # "queued"

\* Where a job is, seen from outside: a worker executes it, or its row waits.
Executes(j) == \E p \in Procs : wpc[p] \in Claimed /\ wjob[p] = j
JobPlace(j) ==
  IF Executes(j) THEN "executing"
  ELSE IF status[j] = "absent" THEN "absent"
  ELSE IF status[j] = "queued" THEN "waiting" ELSE "over"
PlaceOf == [j \in Job |-> JobPlace(j)]
InSyncCall == \E p \in Procs : ppc[p] = "exclusive"

Queue == INSTANCE ExclusiveQueue WITH
  Jobs <- Job, place <- PlaceOf, sync <- InSyncCall

\* All processes together, crashing, starting, recovering and cancelling as
\* they do, behave like one queue that executes one job at a time, each once
\* at most and in the order of the rows, and no job during a synchronous call.
ImplementsQueue == Queue!Spec

\* README.md on cancel: "after ... bind or cleanup it returns 409, to avoid a
\* half commit": a job that ends as cancelled did not bind a new index.
NoHalfCommit ==
  \A j \in Job : status[j] = "cancelled" => j \notin bound \ cleaned
==============================================================================
