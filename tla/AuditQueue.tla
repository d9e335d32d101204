----------------------------- MODULE AuditQueue -----------------------------
(***************************************************************************)
(* The queue of audit tasks: services/audit_service.py on top of           *)
(* infrastructure/audit/sqlite_audit_store.py.                             *)
(*                                                                         *)
(* A task is a JSON document (table tasks) and a row of columns that       *)
(* belong to its execution (table audit_task_runtime).  claim,             *)
(* request_cancel, finish_execution and recover_stale are transactions;    *)
(* update and upsert_stage read the document in one and write it back in   *)
(* another, under a lock that only the threads of one process share.  The  *)
(* model has several processes, each with several request threads and one  *)
(* worker thread.                                                          *)
(***************************************************************************)
EXTENDS Naturals

CONSTANTS Procs,      \* the API processes
          Threads,    \* request threads per process
          MaxTasks    \* bound: rows ever inserted into tasks

\* What stands for "no worker_id" and for that of a dead process is no process.
ASSUME ProcsAssumption == {"none", "gone"} \intersect Procs = {}
ASSUME ThreadsAssumption == Threads \in Nat \ {0}
ASSUME MaxTasksAssumption == MaxTasks \in Nat \ {0}

Task   == 1..MaxTasks   \* a task is its rowid
NoTask == 0
Req    == Procs \X (1..Threads)
Home(r) == r[1]

Live     == {"queued", "running"}
Stopped  == {"interrupted", "budget_exhausted", "failed", "cancelled"}
Finished == {"needs_review", "budget_exhausted", "failed"}  \* what run_task saves
Status   == Live \union Stopped \union {"needs_review", "absent"}

\* What the document says that other threads depend on.
Doc   == [status : Status, scoped : BOOLEAN]
Blank == [status |-> "absent", scoped |-> FALSE]

VARIABLES
  doc, owner, lease, flag, attempt,  \* per task: document, worker_id, lease,
                                     \* cancel_requested, attempt
  flock,                             \* open handles that hold the file lock
  slock,                             \* store.lock held across a read and write
  ppc, found,                        \* process: place, rows read at startup
  rpc, rtask, rdoc,                  \* request thread: place, task, document
  wpc, wtask, wdoc                   \* worker thread: the same

runtime == <<owner, lease, flag, attempt>>
process == <<ppc, found>>
request == <<rpc, rtask, rdoc>>
worker  == <<wpc, wtask, wdoc>>
vars    == <<doc, runtime, flock, slock, process, request, worker>>

PPC == {"down", "boot", "mark", "markWrite", "kick", "up", "closing"}
RPC == {"idle", "scope", "scopeWrite", "stage", "stageWrite", "submit",
        "recover", "recoverWrite"}
Executing == {"begin", "beginWrite", "work", "workWrite", "end", "endWrite",
              "ran", "fail", "failWrite"}
Holding == Executing \union {"reread", "open", "claim", "finish", "release",
                             "raised", "raisedRelease"}
WPC == Holding \union {"idle", "poll", "lock", "raisedAgain", "leaving", "callback"}

\* Every variable keeps its type, and a worker past next_queued has a task.
TypeOK ==
  /\ doc \in [Task -> Doc]
  /\ owner \in [Task -> Procs \union {"none", "gone"}]
  /\ lease \in [Task -> {"none", "live", "expired"}]
  /\ flag \in [Task -> BOOLEAN]
  /\ attempt \in [Task -> Nat]
  /\ flock \subseteq Procs \X {"main", "worker"}
  /\ slock \in [Procs -> BOOLEAN]
  /\ ppc \in [Procs -> PPC]
  /\ found \in [Procs -> [Task -> Doc]]
  /\ rpc \in [Req -> RPC]
  /\ rtask \in [Req -> Task \union {NoTask}]
  /\ rdoc \in [Req -> Doc]
  /\ wpc \in [Procs -> WPC]
  /\ wtask \in [Procs -> Task \union {NoTask}]
  /\ wdoc \in [Procs -> Doc]
  /\ \A p \in Procs : wpc[p] \in Holding \ {"reread"} => wtask[p] # NoTask

Init ==
  /\ doc = [t \in Task |-> Blank]
  /\ owner = [t \in Task |-> "none"]
  /\ lease = [t \in Task |-> "none"]
  /\ flag = [t \in Task |-> FALSE]
  /\ attempt = [t \in Task |-> 0]
  /\ flock = {}
  /\ slock = [p \in Procs |-> FALSE]
  /\ ppc = [p \in Procs |-> "down"]
  /\ found = [p \in Procs |-> [t \in Task |-> Blank]]
  /\ rpc = [r \in Req |-> "idle"]
  /\ rtask = [r \in Req |-> NoTask]
  /\ rdoc = [r \in Req |-> Blank]
  /\ wpc = [p \in Procs |-> "idle"]
  /\ wtask = [p \in Procs |-> NoTask]
  /\ wdoc = [p \in Procs |-> Blank]

-----------------------------------------------------------------------------
(* The store and the lock *)

Queued == {t \in Task : doc[t].status = "queued"}

\* AuditStore.next_queued
IsNextQueued(t) == t \in Queued /\ \A u \in Queued : t <= u

\* AuditStore.get: a live task with a cancel request reads as cancelled.
ReadsCancelled(t) ==
  doc[t].status = "cancelled" \/ (flag[t] /\ doc[t].status \in Live)

\* lease_state
Expired(t) == doc[t].status \in Live /\ lease[t] = "expired"

WithStatus(d, s) == [d EXCEPT !.status = s]
SetStatus(t, s) == doc' = [doc EXCEPT ![t] = WithStatus(@, s)]
DropLease(t) == lease' = [lease EXCEPT ![t] = "none"]

LockFree == flock = {}
Acquire(p, h) == flock' = flock \union {<<p, h>>}
Release(p, h) == flock' = flock \ {<<p, h>>}

\* _start_worker_if_needed: the new future replaces the old one, and with it
\* whatever the old one's exception kept alive.
StartWorker(p) ==
  IF wpc[p] \in {"idle", "callback"}
  THEN wpc' = [wpc EXCEPT ![p] = "poll"] /\ Release(p, "worker")
  ELSE UNCHANGED <<wpc, flock>>

\* cancel and recover_stale of the service run under self.lock.
ServiceLocked(p) ==
  \E r \in Req : Home(r) = p /\ rpc[r] \in {"recover", "recoverWrite"}

Move(p, place) == ppc' = [ppc EXCEPT ![p] = place]
Goto(r, place) == rpc' = [rpc EXCEPT ![r] = place]
Step(p, place) == wpc' = [wpc EXCEPT ![p] = place]

Return(r) ==
  /\ Goto(r, "idle")
  /\ rtask' = [rtask EXCEPT ![r] = NoTask]
  /\ rdoc' = [rdoc EXCEPT ![r] = Blank]

-----------------------------------------------------------------------------
(* Process life *)

Start(p) ==
  /\ ppc[p] = "down"
  /\ Move(p, "boot")
  /\ UNCHANGED <<doc, runtime, flock, slock, found, request, worker>>

\* __init__: with the file lock nobody executes, so live rows are leftovers.
Boot(p) ==
  /\ ppc[p] = "boot"
  /\ IF LockFree THEN Acquire(p, "main") /\ Move(p, "mark")
                 ELSE Move(p, "kick") /\ UNCHANGED flock
  /\ UNCHANGED <<doc, runtime, slock, found, request, worker>>

\* mark_unfinished_interrupted lists the rows and decides, under store.lock;
\* a queued row without a cancel request stays for the next worker ...
MarkRead(p) ==
  /\ ppc[p] = "mark"
  /\ found' = [found EXCEPT ![p] = [t \in Task |->
       CASE doc[t].status \in Live /\ flag[t] -> WithStatus(doc[t], "cancelled")
         [] doc[t].status = "running" /\ ~flag[t] -> WithStatus(doc[t], "interrupted")
         [] OTHER -> Blank]]
  /\ slock' = [slock EXCEPT ![p] = TRUE]
  /\ Move(p, "markWrite")
  /\ UNCHANGED <<doc, runtime, flock, request, worker>>

\* ... and writes the documents it read.
MarkWrite(p) ==
  /\ ppc[p] = "markWrite"
  /\ LET rows == {t \in Task : found[p][t] # Blank}
     IN /\ doc' = [t \in Task |-> IF t \in rows THEN found[p][t] ELSE doc[t]]
        /\ lease' = [t \in Task |-> IF t \in rows THEN "none" ELSE lease[t]]
  /\ found' = [found EXCEPT ![p] = [t \in Task |-> Blank]]
  /\ slock' = [slock EXCEPT ![p] = FALSE]
  /\ Release(p, "main")
  /\ Move(p, "kick")
  /\ UNCHANGED <<owner, flag, attempt, request, worker>>

Kick(p) ==
  /\ ppc[p] = "kick"
  /\ Move(p, "up")
  /\ IF Queued # {} THEN StartWorker(p) ELSE UNCHANGED <<wpc, flock>>
  /\ UNCHANGED <<doc, runtime, slock, found, request, wtask, wdoc>>

\* The worker_id of a process that is gone never comes back.
Orphan(p) == owner' = [t \in Task |-> IF owner[t] = p THEN "gone" ELSE owner[t]]

Crash(p) ==
  /\ ppc[p] # "down"
  /\ Move(p, "down")
  /\ Orphan(p)
  /\ flock' = {h \in flock : h[1] # p}
  /\ slock' = [slock EXCEPT ![p] = FALSE]
  /\ found' = [found EXCEPT ![p] = [t \in Task |-> Blank]]
  /\ rpc' = [r \in Req |-> IF Home(r) = p THEN "idle" ELSE rpc[r]]
  /\ rtask' = [r \in Req |-> IF Home(r) = p THEN NoTask ELSE rtask[r]]
  /\ rdoc' = [r \in Req |-> IF Home(r) = p THEN Blank ELSE rdoc[r]]
  /\ Step(p, "idle")
  /\ wtask' = [wtask EXCEPT ![p] = NoTask]
  /\ wdoc' = [wdoc EXCEPT ![p] = Blank]
  /\ UNCHANGED <<doc, lease, flag, attempt>>

\* close() waits for the worker, which first empties the queue: its loop has
\* no flag to look at.
Close(p) ==
  /\ ppc[p] = "up"
  /\ \A r \in Req : Home(r) = p => rpc[r] = "idle"
  /\ Move(p, "closing")
  /\ UNCHANGED <<doc, runtime, flock, slock, found, request, worker>>

Exit(p) ==
  /\ ppc[p] = "closing" /\ wpc[p] = "idle"
  /\ Move(p, "down")
  /\ Orphan(p)
  /\ Release(p, "worker")
  /\ UNCHANGED <<doc, lease, flag, attempt, slock, found, request, worker>>

-----------------------------------------------------------------------------
(* Requests *)

\* _create: the row is inserted, and is queued from now on ...
Insert(r) ==
  /\ ppc[Home(r)] = "up" /\ rpc[r] = "idle"
  /\ \E t \in Task :
       /\ doc[t] = Blank /\ \A u \in 1..(t - 1) : doc[u] # Blank
       /\ SetStatus(t, "queued")
       /\ rtask' = [rtask EXCEPT ![r] = t]
  /\ Goto(r, "scope")
  /\ UNCHANGED <<runtime, flock, slock, process, rdoc, worker>>

Create(r) == Insert(r)
Resume(r) ==
  /\ \E parent \in Task : doc[parent].status \in Stopped \union {"needs_review"}
  /\ Insert(r)

ReadToSave(r) ==
  LET t == rtask[r]
      frozen == IF rpc[r] = "scope" THEN ReadsCancelled(t)
                                    ELSE doc[t].status = "cancelled"
  IN /\ IF frozen
        THEN /\ Goto(r, IF rpc[r] = "scope" THEN "stage" ELSE "submit")
             /\ UNCHANGED <<slock, rdoc>>
        ELSE /\ Goto(r, IF rpc[r] = "scope" THEN "scopeWrite" ELSE "stageWrite")
             /\ rdoc' = [rdoc EXCEPT ![r] = doc[t]]
             /\ slock' = [slock EXCEPT ![Home(r)] = TRUE]
     /\ UNCHANGED <<doc, runtime, flock, process, rtask, worker>>

\* ... then its scope and its first stage are saved.  A save reads the
\* document under store.lock (a cancelled one is left alone) ...
SaveRead(r) == rpc[r] \in {"scope", "stage"} /\ ~slock[Home(r)] /\ ReadToSave(r)

\* ... and writes all of it back.
SaveWrite(r) ==
  /\ rpc[r] \in {"scopeWrite", "stageWrite"}
  /\ doc' = [doc EXCEPT ![rtask[r]] =
       IF rpc[r] = "scopeWrite" THEN [rdoc[r] EXCEPT !.scoped = TRUE] ELSE rdoc[r]]
  /\ slock' = [slock EXCEPT ![Home(r)] = FALSE]
  /\ rdoc' = [rdoc EXCEPT ![r] = Blank]
  /\ Goto(r, IF rpc[r] = "scopeWrite" THEN "stage" ELSE "submit")
  /\ UNCHANGED <<runtime, flock, process, rtask, worker>>

Submit(r) ==
  /\ rpc[r] = "submit"
  /\ ~ServiceLocked(Home(r))
  /\ StartWorker(Home(r))
  /\ Return(r)
  /\ UNCHANGED <<doc, runtime, slock, process, wtask, wdoc>>

\* request_cancel: a task without an executor is closed, another one marked.
Cancel(r, t) ==
  /\ ppc[Home(r)] = "up" /\ rpc[r] = "idle"
  /\ ~ServiceLocked(Home(r)) /\ ~slock[Home(r)]
  /\ \/ /\ doc[t].status = "queued" /\ owner[t] = "none"
        /\ SetStatus(t, "cancelled")
        /\ DropLease(t)
        /\ UNCHANGED flag
     \/ /\ doc[t].status \in Live
        /\ ~(doc[t].status = "queued" /\ owner[t] = "none")
        /\ flag' = [flag EXCEPT ![t] = TRUE]
        /\ UNCHANGED <<doc, lease>>
  /\ UNCHANGED <<owner, attempt, flock, slock, process, request, worker>>

\* AuditService.recover_stale: the lease, the file lock, and the lease again.
RecoverRead(r, t) ==
  /\ ppc[Home(r)] = "up" /\ rpc[r] = "idle"
  /\ ~ServiceLocked(Home(r))
  /\ Expired(t)
  /\ rtask' = [rtask EXCEPT ![r] = t]
  /\ Goto(r, "recover")
  /\ UNCHANGED <<doc, runtime, flock, slock, process, rdoc, worker>>

\* (faulty variant) the file lock is not asked for.
RecoverWithoutLock(r) ==
  /\ rpc[r] = "recover"
  /\ Goto(r, "recoverWrite")
  /\ UNCHANGED <<doc, runtime, flock, slock, process, rtask, rdoc, worker>>

RecoverLock(r) ==
  /\ rpc[r] = "recover"
  /\ IF LockFree
     THEN Acquire(Home(r), "main") /\ Goto(r, "recoverWrite") /\ UNCHANGED <<rtask, rdoc>>
     ELSE Return(r) /\ UNCHANGED flock
  /\ UNCHANGED <<doc, runtime, slock, process, worker>>

RecoverWrite(r) ==
  /\ rpc[r] = "recoverWrite"
  /\ ~slock[Home(r)]
  /\ LET t == rtask[r]
     IN IF Expired(t)
        THEN /\ SetStatus(t, IF flag[t] THEN "cancelled" ELSE "interrupted")
             /\ DropLease(t)
        ELSE UNCHANGED <<doc, lease>>
  /\ Release(Home(r), "main")
  /\ Return(r)
  /\ UNCHANGED <<owner, flag, attempt, slock, process, worker>>

-----------------------------------------------------------------------------
(* The worker thread: _drain_queue and _execute_claimed *)

Poll(p) ==
  /\ wpc[p] = "poll"
  /\ Step(p, IF Queued = {} THEN "leaving" ELSE "lock")
  /\ UNCHANGED <<doc, runtime, flock, slock, process, request, wtask, wdoc>>

\* (faulty variant) the lock is taken with whatever try_acquire answers.
TryLockAnyway(p) ==
  /\ wpc[p] = "lock"
  /\ Acquire(p, "worker") /\ Step(p, "reread")
  /\ UNCHANGED <<doc, runtime, slock, process, request, wtask, wdoc>>

\* Another holder: sleep 0.2 s, then look at the queue again.
TryLock(p) ==
  /\ wpc[p] = "lock"
  /\ IF LockFree THEN Acquire(p, "worker") /\ Step(p, "reread")
                 ELSE Step(p, "poll") /\ UNCHANGED flock
  /\ UNCHANGED <<doc, runtime, slock, process, request, wtask, wdoc>>

Reread(p) ==
  /\ wpc[p] = "reread"
  /\ IF Queued = {}
     THEN Release(p, "worker") /\ Step(p, "poll") /\ UNCHANGED wtask
     ELSE /\ \E t \in Task : IsNextQueued(t) /\ wtask' = [wtask EXCEPT ![p] = t]
          /\ Step(p, "open")
          /\ UNCHANGED flock
  /\ UNCHANGED <<doc, runtime, slock, process, request, wdoc>>

Forget(p) ==
  /\ wtask' = [wtask EXCEPT ![p] = NoTask]
  /\ wdoc' = [wdoc EXCEPT ![p] = Blank]

\* model_factory() and tools_factory() are called before the try: when one of
\* them raises, the exception leaves the loop and ends the future, and the
\* frames it keeps alive still own the handle of the file lock.
Open(p) ==
  /\ wpc[p] = "open"
  /\ Step(p, "claim")
  /\ UNCHANGED <<doc, runtime, flock, slock, process, request, wtask, wdoc>>

OpenFails(p) ==
  /\ wpc[p] = "open"
  /\ Step(p, "leaving")
  /\ Forget(p)
  /\ UNCHANGED <<doc, runtime, flock, slock, process, request>>

ClaimIf(p, allowed) ==
  /\ wpc[p] = "claim"
  /\ LET t == wtask[p]
     IN IF doc[t].status = "queued" /\ allowed
        THEN /\ SetStatus(t, "running")
             /\ owner' = [owner EXCEPT ![t] = p]
             /\ lease' = [lease EXCEPT ![t] = "live"]
             /\ attempt' = [attempt EXCEPT ![t] = @ + 1]
             /\ Step(p, "begin")
        ELSE Step(p, "finish") /\ UNCHANGED <<doc, owner, lease, attempt>>
  /\ UNCHANGED <<flag, flock, slock, process, request, wtask, wdoc>>

NeverClaimed(t) == owner[t] = "none" /\ ~flag[t]

\* (faulty variants) claim does not wait for a save of this process; claim
\* looks at the status only.
ClaimUnlocked(p) == ClaimIf(p, NeverClaimed(wtask[p]))
ClaimByStatus(p) == ~slock[p] /\ ClaimIf(p, TRUE)

\* AuditStore.claim, one transaction: queued, never claimed, not cancelled.
Claim(p) == ~slock[p] /\ ClaimIf(p, NeverClaimed(wtask[p]))

ReadDone == [begin |-> "beginWrite", work |-> "workWrite", end |-> "endWrite"]

SaveUnless(p, frozen, s) ==
  /\ ~slock[p]
  /\ IF frozen
     THEN Step(p, "ran") /\ UNCHANGED <<slock, wdoc>>
     ELSE /\ wdoc' = [wdoc EXCEPT ![p] = WithStatus(doc[wtask[p]], s)]
          /\ slock' = [slock EXCEPT ![p] = TRUE]
          /\ Step(p, ReadDone[wpc[p]])

\* (faulty variant) a save looks at the status, not at the cancel request.
SaveAsBlind(p, s) == SaveUnless(p, doc[wtask[p]].status = "cancelled", s)

\* run_task saves the document again and again: first as running, then with
\* what it found, at last with its outcome.  update() leaves a task that reads
\* as cancelled alone, and run_task returns when it sees one.
SaveAs(p, s) == SaveUnless(p, ReadsCancelled(wtask[p]), s)

RunRead(p) ==
  /\ \/ wpc[p] = "begin" /\ SaveAs(p, "running")
     \/ wpc[p] = "work" /\ SaveAs(p, doc[wtask[p]].status)
     \/ wpc[p] = "end" /\ \E s \in Finished : SaveAs(p, s)
  /\ UNCHANGED <<doc, runtime, flock, process, request, wtask>>

AfterWrite == [beginWrite |-> "work", workWrite |-> "end", endWrite |-> "ran",
               failWrite |-> "raised"]

RunWrite(p) ==
  /\ wpc[p] \in DOMAIN AfterWrite
  /\ doc' = [doc EXCEPT ![wtask[p]] = wdoc[p]]
  /\ slock' = [slock EXCEPT ![p] = FALSE]
  /\ wdoc' = [wdoc EXCEPT ![p] = Blank]
  /\ Step(p, AfterWrite[wpc[p]])
  /\ UNCHANGED <<runtime, flock, process, request, wtask>>

\* run_task and the kernel, if there is one, have returned.
RunEnds(p) ==
  /\ wpc[p] = "ran"
  /\ Step(p, "finish")
  /\ UNCHANGED <<doc, runtime, flock, slock, process, request, wtask, wdoc>>

\* What run_task does not catch: the preparation before it, the kernel after.
RunRaises(p) ==
  /\ wpc[p] \in {"begin", "ran"}
  /\ Step(p, "fail")
  /\ UNCHANGED <<doc, runtime, flock, slock, process, request, wtask, wdoc>>

\* The handler closes a task that is still live, and not yet cancelled.
FailRead(p) ==
  /\ wpc[p] = "fail"
  /\ ~slock[p]
  /\ LET t == wtask[p]
     IN IF doc[t].status \in Live /\ ~flag[t]
        THEN /\ wdoc' = [wdoc EXCEPT ![p] = WithStatus(doc[t], "failed")]
             /\ slock' = [slock EXCEPT ![p] = TRUE]
             /\ Step(p, "failWrite")
        ELSE Step(p, "raised") /\ UNCHANGED <<slock, wdoc>>
  /\ UNCHANGED <<doc, runtime, flock, process, request, wtask>>

\* The finally clause: finish_execution, then the file lock.  An exception
\* passes through it after the handler did the same, so finish_execution runs
\* twice, the second time without the lock; the second release fails on the
\* closed handle and changes nothing.
AfterFinish == [finish |-> "release", raised |-> "raisedRelease",
                raisedAgain |-> "leaving"]

FinishAs(p, cancelled) ==
  /\ wpc[p] \in DOMAIN AfterFinish
  /\ ~slock[p]
  /\ LET t == wtask[p]
     IN IF owner[t] \in {"none", p}
        THEN /\ IF cancelled THEN SetStatus(t, "cancelled") ELSE UNCHANGED doc
             /\ DropLease(t)
        ELSE UNCHANGED <<doc, lease>>
  /\ Step(p, AfterFinish[wpc[p]])
  /\ IF wpc[p] = "raisedAgain" THEN Forget(p) ELSE UNCHANGED <<wtask, wdoc>>
  /\ UNCHANGED <<owner, flag, attempt, flock, slock, process, request>>

\* (faulty variant) the cancel request is not turned into a status.
FinishForgetsCancel(p) == FinishAs(p, FALSE)

Finish(p) == FinishAs(p, flag[wtask[p]])

ReleaseLock(p) ==
  /\ wpc[p] \in {"release", "raisedRelease"}
  /\ Release(p, "worker")
  /\ IF wpc[p] = "release" THEN Step(p, "poll") /\ Forget(p)
                           ELSE Step(p, "raisedAgain") /\ UNCHANGED <<wtask, wdoc>>
  /\ UNCHANGED <<doc, runtime, slock, process, request>>

FutureDone(p) ==
  /\ wpc[p] = "leaving"
  /\ Step(p, "callback")
  /\ UNCHANGED <<doc, runtime, flock, slock, process, request, wtask, wdoc>>

\* (faulty variant) the callback does not look at the queue.
WorkerFinishedBlind(p) ==
  /\ wpc[p] = "callback"
  /\ ~ServiceLocked(p)
  /\ Step(p, "idle")
  /\ UNCHANGED <<doc, runtime, flock, slock, process, request, wtask, wdoc>>

\* _worker_finished; after shutdown the executor takes no new future.
WorkerFinished(p) ==
  /\ wpc[p] = "callback"
  /\ ~ServiceLocked(p)
  /\ IF Queued # {} /\ ppc[p] # "closing" THEN StartWorker(p)
                                          ELSE Step(p, "idle") /\ UNCHANGED flock
  /\ UNCHANGED <<doc, runtime, slock, process, request, wtask, wdoc>>

-----------------------------------------------------------------------------
(* The heartbeat thread and the clock *)

Renew(p) ==
  /\ wpc[p] \in Executing \union {"raised", "raisedRelease"}
  /\ LET t == wtask[p]
     IN /\ owner[t] = p /\ lease[t] = "expired"
        /\ lease' = [lease EXCEPT ![t] = "live"]
  /\ UNCHANGED <<doc, owner, flag, attempt, flock, slock, process, request, worker>>

LeaseLapse(t) ==
  /\ lease[t] = "live"
  /\ lease' = [lease EXCEPT ![t] = "expired"]
  /\ UNCHANGED <<doc, owner, flag, attempt, flock, slock, process, request, worker>>

-----------------------------------------------------------------------------
Call(r) ==
  \/ Create(r) \/ Resume(r)
  \/ \E t \in Task : Cancel(r, t) \/ RecoverRead(r, t)

Answer(r) ==
  SaveRead(r) \/ SaveWrite(r) \/ Submit(r) \/ RecoverLock(r) \/ RecoverWrite(r)

Trouble(p) == OpenFails(p) \/ RunRaises(p)

Run(p) == Boot(p) \/ MarkRead(p) \/ MarkWrite(p) \/ Kick(p) \/ Exit(p)

Work(p) ==
  \/ Poll(p) \/ TryLock(p) \/ Reread(p) \/ Open(p) \/ Claim(p)
  \/ RunRead(p) \/ RunWrite(p) \/ RunEnds(p) \/ FailRead(p)
  \/ Finish(p) \/ ReleaseLock(p) \/ FutureDone(p) \/ WorkerFinished(p)

Next ==
  \/ \E p \in Procs : Start(p) \/ Crash(p) \/ Close(p) \/ Trouble(p)
  \/ \E p \in Procs : Run(p) \/ Work(p) \/ Renew(p)
  \/ \E r \in Req : Call(r) \/ Answer(r)
  \/ \E t \in Task : LeaseLapse(t)

Spec == Init /\ [][Next]_vars

\* Threads that can run do run; no client, clock, crash or failure has to happen.
Fairness ==
  /\ \A p \in Procs : WF_vars(Run(p)) /\ WF_vars(Work(p))
  /\ \A r \in Req : WF_vars(Answer(r))

FairSpec == Spec /\ Fairness

-----------------------------------------------------------------------------
(* Properties, for any number of processes *)

\* At most one audit is executed at a time, over all processes: what the file
\* lock around _execute_claimed is there for.
OneAudit ==
  \A p, q \in Procs : wpc[p] \in Executing /\ wpc[q] \in Executing => p = q

\* While a task is executed its lease is its executor's: no starting process,
\* no recovery and no other worker's finish_execution ends it.
ExecutedTaskIsLeased ==
  \A p \in Procs : wpc[p] \in Executing =>
    owner[wtask[p]] = p /\ lease[wtask[p]] # "none"

\* A task is executed at most once, even when a late save makes its document
\* read "queued" again.
RunsAtMostOnce == \A t \in Task : attempt[t] <= 1

-----------------------------------------------------------------------------
(* Properties of one process: all saves share one store.lock *)

\* sqlite_audit_store.py: "a queued task has no executor; after a restart the
\* new service can still take it".
QueuedHasNoExecutor == \A t \in Task : doc[t].status = "queued" => owner[t] = "none"

\* A cancel that was accepted while the task was executing is the task's
\* outcome once the execution is over, by its end, by recovery or by restart.
CancelIsHonoured ==
  \A t \in Task : flag[t] /\ lease[t] = "none" => doc[t].status = "cancelled"

\* The outcome of a task never changes: no late save, finish_execution or
\* restart turns it into another one.
OutcomeIsFinal ==
  [][\A t \in Task : doc[t].status \notin Live \union {"absent"}
                       => doc'[t].status = doc[t].status]_vars

\* The scope that was frozen at creation stays in the document.
ScopeIsKept == [][\A t \in Task : doc[t].scoped => doc'[t].scoped]_vars

\* Where a task is, seen from outside: a worker executes it, or its document waits.
Executes(t) == \E p \in Procs : wpc[p] \in Executing /\ wtask[p] = t
TaskPlace(t) ==
  IF Executes(t) THEN "executing"
  ELSE IF doc[t].status = "absent" THEN "absent"
  ELSE IF doc[t].status = "queued" THEN "waiting" ELSE "over"
PlaceOf == [t \in Task |-> TaskPlace(t)]

Queue == INSTANCE ExclusiveQueue WITH
  Jobs <- Task, place <- PlaceOf, sync <- FALSE

\* The audit tasks of one process are one queue as well: one task at a time, in
\* the order of the rows, each once at most; a crash, a late save, a cancel, a
\* recovery or a restart ends a task or withdraws it, and puts none back.
ImplementsQueue == Queue!Spec

\* Once the processes stay up (and the factories have stopped failing, which
\* the instance bounds) no task waits for ever.
Calm == <>[](\A p \in Procs : ppc[p] \notin {"down", "closing"})
QueuedIsTaken ==
  Calm => \A t \in Task : doc[t].status = "queued" ~> doc[t].status # "queued"
==============================================================================
