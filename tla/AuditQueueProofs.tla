--------------------------- MODULE AuditQueueProofs --------------------------
(***************************************************************************)
(* Proofs about the queue of audit tasks.  QueueInv holds for any number   *)
(* of processes and gives mutual exclusion of audits, the lease of a task  *)
(* under execution and at most one execution per task.  SoleInv holds when *)
(* one process uses the store, so that all saves share its store.lock, and *)
(* gives what the code promises of documents and outcomes; with OrderInv,  *)
(* that the queue implements ExclusiveQueue.                               *)
(***************************************************************************)
EXTENDS AuditQueue, TLAPS

MainHolding == {"mark", "markWrite"}
Starting    == {"down", "boot", "mark", "markWrite", "kick"}
ReqWriting  == {"scopeWrite", "stageWrite"}
WorkWriting == {"beginWrite", "workWrite", "endWrite", "failWrite"}

\* A thread has a task wherever it uses one.
Locals ==
  /\ \A r \in Req : rpc[r] # "idle" => rtask[r] # NoTask
  /\ \A p \in Procs : wpc[p] = "raisedAgain" => wtask[p] # NoTask

\* Requests are served by a process that is up; a starting one has no worker.
Lives ==
  /\ \A r \in Req : rpc[r] # "idle" => ppc[Home(r)] = "up"
  /\ \A p \in Procs : ppc[p] \in Starting => wpc[p] = "idle"

\* One handle at most holds the file lock, every thread in a section that
\* needs it has it, and one recovery at a time is in its section.
LockDiscipline ==
  /\ \A h, k \in flock : h = k
  /\ \A p \in Procs : /\ wpc[p] \in Holding => <<p, "worker">> \in flock
                      /\ ppc[p] \in MainHolding => <<p, "main">> \in flock
  /\ \A r \in Req : rpc[r] = "recoverWrite" => <<Home(r), "main">> \in flock
  /\ \A r, s \in Req : rpc[r] = "recoverWrite" /\ rpc[s] = "recoverWrite" => r = s

\* A task is claimed when it gets its owner, and never loses it for "none".
Attempts == \A t \in Task : attempt[t] = IF owner[t] = "none" THEN 0 ELSE 1

QueueInv == TypeOK /\ Locals /\ Lives /\ LockDiscipline /\ ExecutedTaskIsLeased /\ Attempts

-----------------------------------------------------------------------------
\* store.lock is held between a read and its write, by one thread.
StoreLock ==
  /\ \A r \in Req : rpc[r] \in ReqWriting =>
       /\ slock[Home(r)]
       /\ wpc[Home(r)] \notin WorkWriting
       /\ \A s \in Req : rpc[s] \in ReqWriting /\ Home(s) = Home(r) => s = r
  /\ \A p \in Procs : wpc[p] \in WorkWriting => slock[p]

\* What is about to be written is the document as it is now, but for what the
\* save changes in it: a request's copy, the worker's, and the rows of a start.
RequestCopies == \A r \in Req : rpc[r] \in ReqWriting => rdoc[r] = doc[rtask[r]]

WorkerCopies ==
  \A p \in Procs :
    /\ wpc[p] \in WorkWriting =>
         wdoc[p] = WithStatus(doc[wtask[p]], wdoc[p].status)
    /\ wpc[p] \in {"beginWrite", "workWrite"} => wdoc[p].status = "running"
    /\ wpc[p] = "endWrite" => wdoc[p].status \in Finished
    /\ wpc[p] = "failWrite" => wdoc[p].status = "failed"

StartCopies ==
  \A p \in Procs : ppc[p] = "markWrite" =>
    \A t \in Task : found[p][t] # Blank =>
      /\ doc[t].status \in Live
      /\ found[p][t] = WithStatus(doc[t], IF flag[t] THEN "cancelled" ELSE "interrupted")

\* A request saves a document that is there.
Created ==
  \A r \in Req : rpc[r] \in ReqWriting \union {"scope", "stage"} =>
    doc[rtask[r]].status # "absent"

\* What the columns of a row say of its document.
Rows ==
  \A t \in Task :
    /\ doc[t].status \in {"absent", "queued"} => owner[t] = "none"
    /\ owner[t] = "none" => ~flag[t]
    /\ doc[t].status = "running" => owner[t] # "none" /\ lease[t] # "none"
    /\ flag[t] /\ lease[t] = "none" => doc[t].status = "cancelled"

\* What status s, cancel request f and owner o say of the task of process p's
\* worker when it has come to w.
Reached(w, s, f, o, p) ==
  /\ w \in {"open", "claim"} => o = "none"
  /\ w \in {"begin", "work", "end"} => s = "running"
  /\ w \in WorkWriting => s = "running" /\ ~f
  /\ w = "fail" => s = "running" \/ (s \notin Live /\ ~f)
  /\ w = "ran" => (s = "running" /\ f) \/ (s \notin Live /\ ~f)
  /\ w \in {"finish", "raised"} => /\ o \in {"none", p}
                                   /\ (s = "running" /\ f) \/ (s \notin Live /\ ~f)
  /\ w \in {"raisedRelease", "raisedAgain"} => s \notin Live /\ (f => s = "cancelled")

Progress ==
  \A p \in Procs : wtask[p] # NoTask =>
    /\ doc[wtask[p]].status # "absent"
    /\ Reached(wpc[p], doc[wtask[p]].status, flag[wtask[p]], owner[wtask[p]], p)

SoleInv ==
  /\ QueueInv /\ StoreLock
  /\ RequestCopies /\ WorkerCopies /\ StartCopies /\ Created
  /\ Rows /\ Progress

\* A step leaves the outcome and the scope of a task alone, and no row disappears.
Settled ==
  \A t \in Task :
    /\ doc[t].status \notin Live \union {"absent"} => doc'[t].status = doc[t].status
    /\ doc[t].status # "absent" => doc'[t].status # "absent"
    /\ doc[t].scoped => doc'[t].scoped

(* What an update of a document gives. *)
LEMMA Documents ==
  /\ Blank \in Doc /\ Blank.status = "absent"
  /\ \A d \in Doc : d.status \in Status /\ [d EXCEPT !.scoped = TRUE] \in Doc
                     /\ [d EXCEPT !.scoped = TRUE].status = d.status
  /\ \A d \in Doc, s \in Status :
       /\ WithStatus(d, s) \in Doc /\ WithStatus(d, s).status = s
       /\ WithStatus(d, s).scoped = d.scoped
  BY DEF Blank, Doc, WithStatus, Status

LEMMA TaskIsSome == NoTask \notin Task
  BY DEF Task, NoTask

LEMMA FailedDoc ==
  ASSUME TypeOK, NEW p \in Procs, wpc[p] = "fail"
  PROVE  wtask[p] \in Task /\ WithStatus(doc[wtask[p]], "failed") \in Doc
<1>1. wtask[p] \in Task
  BY DEF TypeOK, Holding, Executing
<1> QED
  BY <1>1, Documents DEF TypeOK, Status, Stopped

LEMMA HomeIsProc == \A r \in Req : Home(r) \in Procs
  BY DEF Req, Home

(* _start_worker_if_needed changes the worker thread of its process only, and
   drops no handle but the one of an ended worker. *)
LEMMA StartsWorker ==
  ASSUME TypeOK, NEW p \in Procs, StartWorker(p)
  PROVE  /\ wpc' \in [Procs -> WPC]
         /\ \A q \in Procs : \/ wpc'[q] = wpc[q]
                             \/ /\ q = p /\ wpc[q] \in {"idle", "callback"}
                                /\ wpc'[q] = "poll"
         /\ flock' \subseteq flock
         /\ \A h \in flock \ flock' :
              h = <<p, "worker">> /\ wpc[p] \in {"idle", "callback"}
<1>1. CASE wpc[p] \in {"idle", "callback"}
  BY <1>1 DEF TypeOK, StartWorker, Release, WPC
<1>2. CASE wpc[p] \notin {"idle", "callback"}
  BY <1>2 DEF TypeOK, StartWorker
<1> QED
  BY <1>1, <1>2

(* A save of a request: the task is cancelled and is left alone, or a copy of
   its document is made under store.lock. *)
LEMMA SaveReads ==
  ASSUME TypeOK, Locals, NEW r \in Req, SaveRead(r)
  PROVE  /\ rpc[r] \in {"scope", "stage"} /\ rtask[r] \in Task /\ ~slock[Home(r)]
         /\ UNCHANGED <<doc, owner, lease, flag, attempt, flock, ppc, found, rtask,
                        wpc, wtask, wdoc>>
         /\ \/ /\ \E next \in {"stage", "submit"} : rpc' = [rpc EXCEPT ![r] = next]
               /\ UNCHANGED <<slock, rdoc>>
            \/ /\ \E next \in ReqWriting : rpc' = [rpc EXCEPT ![r] = next]
               /\ rdoc' = [rdoc EXCEPT ![r] = doc[rtask[r]]]
               /\ slock' = [slock EXCEPT ![Home(r)] = TRUE]
<1> DEFINE frozen == IF rpc[r] = "scope" THEN ReadsCancelled(rtask[r])
                                         ELSE doc[rtask[r]].status = "cancelled"
<1>1. rpc[r] \in {"scope", "stage"} /\ rtask[r] \in Task /\ ~slock[Home(r)]
  BY DEF SaveRead, Locals, TypeOK
<1>2. CASE frozen
  BY <1>1, <1>2 DEF SaveRead, ReadToSave, Goto, runtime, process, worker
<1>3. CASE ~frozen
  BY <1>1, <1>3 DEF SaveRead, ReadToSave, Goto, ReqWriting, runtime, process, worker
<1> QED
  BY <1>2, <1>3, <1>1

(* run_task's reads: the task reads as cancelled and run_task returns, or a
   copy with the status to be saved is made under store.lock. *)
LEMMA SaveRuns ==
  ASSUME TypeOK, NEW p \in Procs, RunRead(p)
  PROVE  /\ wpc[p] \in {"begin", "work", "end"} /\ wtask[p] \in Task /\ ~slock[p]
         /\ UNCHANGED <<doc, owner, lease, flag, attempt, flock, ppc, found, rpc, rtask,
                        rdoc, wtask>>
         /\ \/ /\ ReadsCancelled(wtask[p])
               /\ wpc' = [wpc EXCEPT ![p] = "ran"]
               /\ UNCHANGED <<slock, wdoc>>
            \/ \E s \in Status, next \in WorkWriting :
                 /\ ~ReadsCancelled(wtask[p])
                 /\ wpc' = [wpc EXCEPT ![p] = next]
                 /\ wdoc' = [wdoc EXCEPT ![p] = WithStatus(doc[wtask[p]], s)]
                 /\ slock' = [slock EXCEPT ![p] = TRUE]
                 /\ \/ wpc[p] = "begin" /\ next = "beginWrite" /\ s = "running"
                    \/ /\ wpc[p] = "work" /\ next = "workWrite"
                       /\ s = doc[wtask[p]].status
                    \/ wpc[p] = "end" /\ next = "endWrite" /\ s \in Finished
<1>1. wpc[p] \in {"begin", "work", "end"} /\ wtask[p] \in Task
  BY DEF TypeOK, RunRead, Holding, Executing
<1>2. CASE wpc[p] = "begin"
  BY <1>1, <1>2 DEF RunRead, SaveAs, SaveUnless, Step, ReadDone, WorkWriting, Status,
                    Live, runtime, process, request
<1>3. CASE wpc[p] = "work"
  <2>1. doc[wtask[p]].status \in Status
    BY <1>1, Documents DEF TypeOK
  <2> QED
    BY <1>1, <1>3, <2>1 DEF RunRead, SaveAs, SaveUnless, Step, ReadDone, WorkWriting,
                            runtime, process, request
<1>4. CASE wpc[p] = "end"
  <2>1. PICK s \in Finished : SaveAs(p, s)
    BY <1>4 DEF RunRead
  <2>2. s \in Status
    BY DEF Finished, Status, Live, Stopped
  <2> QED
    BY <1>1, <1>4, <2>1, <2>2 DEF RunRead, SaveAs, SaveUnless, Step, ReadDone,
                            WorkWriting, runtime, process, request
<1> QED
  BY <1>1, <1>2, <1>3, <1>4


(* The handler's read: it copies a task that is live and has no cancel request. *)
LEMMA FailReads ==
  ASSUME TypeOK, NEW p \in Procs, FailRead(p)
  PROVE  /\ wpc[p] = "fail" /\ wtask[p] \in Task /\ ~slock[p]
         /\ UNCHANGED <<doc, owner, lease, flag, attempt, flock, ppc, found, rpc, rtask,
                        rdoc, wtask>>
         /\ \/ /\ doc[wtask[p]].status \notin Live \/ flag[wtask[p]]
               /\ wpc' = [wpc EXCEPT ![p] = "raised"]
               /\ UNCHANGED <<slock, wdoc>>
            \/ /\ doc[wtask[p]].status \in Live /\ ~flag[wtask[p]]
               /\ wpc' = [wpc EXCEPT ![p] = "failWrite"]
               /\ wdoc' = [wdoc EXCEPT ![p] = WithStatus(doc[wtask[p]], "failed")]
               /\ slock' = [slock EXCEPT ![p] = TRUE]
<1>1. wpc[p] = "fail" /\ wtask[p] \in Task /\ flag[wtask[p]] \in BOOLEAN
  BY FailedDoc DEF FailRead, TypeOK
<1> QED
  BY <1>1 DEF FailRead, Step, runtime, process, request

(* Every step keeps the types. *)
LEMMA Typing == TypeOK /\ Locals /\ [Next]_vars => TypeOK'
<1> SUFFICES ASSUME TypeOK, Locals, [Next]_vars PROVE TypeOK'
  OBVIOUS
<1> USE DEF TypeOK, runtime, process, request, worker
<1>1. CASE UNCHANGED vars
  BY <1>1 DEF vars
<1>2. ASSUME NEW p \in Procs, Start(p) \/ Crash(p) \/ Close(p) \/ Trouble(p) PROVE TypeOK'
  <2>1. CASE Start(p)
    BY <2>1 DEF Start, Move, PPC
  <2>2. CASE Crash(p)
    BY <2>2, Documents
    DEF Crash, Move, Orphan, Step, PPC, Status, Live, Stopped, Finished, RPC,
        Locals, WPC, Holding, Executing
  <2>3. CASE Close(p)
    BY <2>3 DEF Close, Move, PPC
  <2>4. CASE OpenFails(p)
    BY <2>4, Documents
    DEF OpenFails, Forget, Step, WPC, Holding, Executing, Status, Live, Stopped,
        Finished, Locals
  <2>5. CASE RunRaises(p)
    BY <2>5 DEF RunRaises, Step, WPC, Holding, Executing, Locals
  <2> QED
    BY <1>2, <2>1, <2>2, <2>3, <2>4, <2>5 DEF Trouble
<1>3. ASSUME NEW p \in Procs, Run(p) PROVE TypeOK'
  <2>1. CASE Boot(p)
    <3>1. flock' \subseteq Procs \X {"main", "worker"}
      BY <2>1 DEF Boot, Acquire
    <3>2. ppc' \in [Procs -> PPC]
      BY <2>1 DEF Boot, Move, PPC
    <3> QED
      BY <3>1, <3>2, <2>1 DEF Boot
  <2>2. CASE MarkRead(p)
    <3>1. found' \in [Procs -> [Task -> Doc]]
      BY <2>2, Documents DEF MarkRead, Status, Live, Stopped, Finished
    <3>2. slock' \in [Procs -> BOOLEAN]
      BY <2>2 DEF MarkRead
    <3>3. ppc' \in [Procs -> PPC]
      BY <2>2 DEF MarkRead, Move, PPC
    <3> QED
      BY <3>1, <3>2, <3>3, <2>2 DEF MarkRead
  <2>3. CASE MarkWrite(p)
    <3>1. doc' \in [Task -> Doc]
      BY <2>3, Documents DEF MarkWrite, Status, Live, Stopped, Finished, Locals
    <3>2. lease' \in [Task -> {"none", "live", "expired"}]
      BY <2>3 DEF MarkWrite
    <3>3. found' \in [Procs -> [Task -> Doc]]
      BY <2>3, Documents DEF MarkWrite, Status, Live, Stopped, Finished
    <3>4. slock' \in [Procs -> BOOLEAN]
      BY <2>3 DEF MarkWrite
    <3>5. flock' \subseteq Procs \X {"main", "worker"}
      BY <2>3 DEF MarkWrite, Release
    <3>6. ppc' \in [Procs -> PPC]
      BY <2>3 DEF MarkWrite, Move, PPC
    <3> QED
      BY <3>1, <3>2, <3>3, <3>4, <3>5, <3>6, <2>3 DEF MarkWrite
  <2>4. CASE Kick(p)
    <3>1. CASE Queued # {}
      BY <3>1, <2>4, StartsWorker DEF Kick, Move, PPC, Holding, Executing
    <3>2. CASE ~(Queued # {})
      BY <3>2, <2>4 DEF Kick, Move, PPC
    <3> QED
      BY <3>1, <3>2
  <2>5. CASE Exit(p)
    BY <2>5 DEF Exit, Move, Orphan, Release, PPC
  <2> QED
    BY <1>3, <2>1, <2>2, <2>3, <2>4, <2>5 DEF Run
<1>4. ASSUME NEW p \in Procs, Work(p) PROVE TypeOK'
  <2>1. CASE Poll(p)
    BY <2>1 DEF Poll, Step, WPC, Holding, Executing, Locals
  <2>2. CASE TryLock(p)
    <3>1. flock' \subseteq Procs \X {"main", "worker"}
      BY <2>2 DEF TryLock, Acquire
    <3>2. wpc' \in [Procs -> WPC]
      BY <2>2 DEF TryLock, Step, WPC, Holding, Executing
    <3>3. \A q \in Procs : wpc'[q] \in Holding \ {"reread"} => wtask'[q] # NoTask
      <4>1. CASE LockFree
        BY <4>1, <2>2 DEF TryLock, Step, WPC, Holding, Executing
      <4>2. CASE ~(LockFree)
        BY <4>2, <2>2 DEF TryLock, Step, WPC, Holding, Executing
      <4> QED
        BY <4>1, <4>2
    <3> QED
      BY <3>1, <3>2, <3>3, <2>2 DEF TryLock
  <2>3. CASE Reread(p)
    <3>1. flock' \subseteq Procs \X {"main", "worker"}
      BY <2>3 DEF Reread, Release
    <3>2. wtask' \in [Procs -> Task \union {NoTask}]
      BY <2>3 DEF Reread
    <3>3. wpc' \in [Procs -> WPC]
      BY <2>3 DEF Reread, Step, WPC, Holding, Executing
    <3>4. \A q \in Procs : wpc'[q] \in Holding \ {"reread"} => wtask'[q] # NoTask
      <4>1. CASE Queued = {}
        BY <4>1, <2>3 DEF Reread, Step, WPC, Holding, Executing
      <4>2. CASE ~(Queued = {})
        BY <4>2, <2>3, TaskIsSome DEF Reread, Step, Holding, Executing
      <4> QED
        BY <4>1, <4>2
    <3> QED
      BY <3>1, <3>2, <3>3, <3>4, <2>3 DEF Reread
  <2>4. CASE Open(p)
    BY <2>4 DEF Open, Step, WPC, Holding, Executing, Locals
  <2>5. CASE Claim(p)
    <3>1. doc' \in [Task -> Doc]
      BY <2>5, Documents
      DEF Claim, ClaimIf, SetStatus, Status, Live, Stopped, Finished, Locals
    <3>2. owner' \in [Task -> Procs \union {"none", "gone"}]
      BY <2>5 DEF Claim, ClaimIf
    <3>3. lease' \in [Task -> {"none", "live", "expired"}]
      BY <2>5 DEF Claim, ClaimIf
    <3>4. attempt' \in [Task -> Nat]
      BY <2>5 DEF Claim, ClaimIf
    <3>5. wpc' \in [Procs -> WPC]
      BY <2>5 DEF Claim, ClaimIf, Step, WPC, Holding, Executing
    <3>6. \A q \in Procs : wpc'[q] \in Holding \ {"reread"} => wtask'[q] # NoTask
      BY <2>5 DEF Claim, ClaimIf, Step, WPC, Holding, Executing, Locals
    <3> QED
      BY <3>1, <3>2, <3>3, <3>4, <3>5, <3>6, <2>5 DEF Claim, ClaimIf
  <2>6. CASE RunRead(p)
    <3>0. wtask[p] \in Task /\ wtask' = wtask
      BY SaveRuns, <2>6
    <3>1. CASE wpc' = [wpc EXCEPT ![p] = "ran"] /\ UNCHANGED <<slock, wdoc>>
      BY SaveRuns, <2>6, <3>0, <3>1, TaskIsSome DEF WPC, Holding, Executing
    <3>2. ASSUME NEW s \in Status, NEW next \in WorkWriting,
                 wpc' = [wpc EXCEPT ![p] = next],
                 wdoc' = [wdoc EXCEPT ![p] = WithStatus(doc[wtask[p]], s)],
                 slock' = [slock EXCEPT ![p] = TRUE]
          PROVE  TypeOK'
      <4>1. WithStatus(doc[wtask[p]], s) \in Doc
        BY <3>0, Documents
      <4>2. next \in Holding \ {"reread"} /\ next \in WPC
        BY DEF WorkWriting, Holding, Executing, WPC
      <4>3. wpc' \in [Procs -> WPC] /\ wdoc' \in [Procs -> Doc]
        BY <3>2, <4>1, <4>2
      <4>4. \A q \in Procs : wpc'[q] \in Holding \ {"reread"} => wtask'[q] # NoTask
        BY <3>0, <3>2, <4>2, TaskIsSome
      <4> QED
        BY SaveRuns, <2>6, <3>2, <4>3, <4>4
    <3> HIDE DEF TypeOK
    <3> QED
      BY SaveRuns, <2>6, <3>1, <3>2
  <2>7. CASE RunWrite(p)
    <3>1. doc' \in [Task -> Doc]
      BY <2>7, Documents DEF RunWrite, Status, Live, Stopped, Finished, Locals
    <3>2. slock' \in [Procs -> BOOLEAN]
      BY <2>7 DEF RunWrite
    <3>3. wdoc' \in [Procs -> Doc]
      BY <2>7, Documents
      DEF RunWrite, Status, Live, Stopped, Finished, WPC, Holding, Executing
    <3>4. wpc' \in [Procs -> WPC]
      BY <2>7 DEF RunWrite, AfterWrite, Step, WPC, Holding, Executing
    <3>5. \A q \in Procs : wpc'[q] \in Holding \ {"reread"} => wtask'[q] # NoTask
      BY <2>7 DEF RunWrite, AfterWrite, Step, WPC, Holding, Executing, Locals
    <3> QED
      BY <3>1, <3>2, <3>3, <3>4, <3>5, <2>7 DEF RunWrite
  <2>8. CASE RunEnds(p)
    BY <2>8 DEF RunEnds, Step, WPC, Holding, Executing, Locals
  <2>9. CASE FailRead(p)
    <3>1. wdoc' \in [Procs -> Doc]
      <4>1. CASE doc[wtask[p]].status \in Live /\ ~flag[wtask[p]]
        BY <4>1, <2>9, FailedDoc DEF FailRead
      <4>2. CASE ~(doc[wtask[p]].status \in Live /\ ~flag[wtask[p]])
        BY <4>2, <2>9 DEF FailRead
      <4> QED
        BY <4>1, <4>2
    <3>2. slock' \in [Procs -> BOOLEAN]
      BY <2>9 DEF FailRead
    <3>3. wpc' \in [Procs -> WPC]
      BY <2>9 DEF FailRead, Step, WPC, Holding, Executing
    <3>4. \A q \in Procs : wpc'[q] \in Holding \ {"reread"} => wtask'[q] # NoTask
      BY <2>9 DEF FailRead, Step, WPC, Holding, Executing, Locals
    <3> QED
      BY <3>1, <3>2, <3>3, <3>4, <2>9 DEF FailRead
  <2>10. CASE Finish(p)
    <3>1. doc' \in [Task -> Doc]
      BY <2>10, Documents
      DEF Finish, FinishAs, SetStatus, Status, Live, Stopped, Finished, Locals
    <3>2. lease' \in [Task -> {"none", "live", "expired"}]
      BY <2>10 DEF Finish, FinishAs, DropLease
    <3>3. wpc' \in [Procs -> WPC]
      BY <2>10 DEF Finish, FinishAs, AfterFinish, Step, WPC, Holding, Executing
    <3>4. wtask' \in [Procs -> Task \union {NoTask}]
      BY <2>10 DEF Finish, FinishAs, Forget
    <3>5. wdoc' \in [Procs -> Doc]
      BY <2>10, Documents
      DEF Finish, FinishAs, Forget, Status, Live, Stopped, Finished, WPC,
          Holding, Executing
    <3>6. \A q \in Procs : wpc'[q] \in Holding \ {"reread"} => wtask'[q] # NoTask
      BY <2>10
      DEF Finish, FinishAs, AfterFinish, Forget, Step, WPC, Holding, Executing,
          Locals
    <3> QED
      BY <3>1, <3>2, <3>3, <3>4, <3>5, <3>6, <2>10 DEF Finish, FinishAs
  <2>11. CASE ReleaseLock(p)
    <3>1. flock' \subseteq Procs \X {"main", "worker"}
      BY <2>11 DEF ReleaseLock, Release
    <3>2. wpc' \in [Procs -> WPC]
      BY <2>11 DEF ReleaseLock, Step, WPC, Holding, Executing
    <3>3. wtask' \in [Procs -> Task \union {NoTask}]
      BY <2>11 DEF ReleaseLock, Forget
    <3>4. wdoc' \in [Procs -> Doc]
      BY <2>11, Documents
      DEF ReleaseLock, Forget, Status, Live, Stopped, Finished, WPC, Holding,
          Executing
    <3>5. \A q \in Procs : wpc'[q] \in Holding \ {"reread"} => wtask'[q] # NoTask
      BY <2>11 DEF ReleaseLock, Forget, Step, WPC, Holding, Executing, Locals
    <3> QED
      BY <3>1, <3>2, <3>3, <3>4, <3>5, <2>11 DEF ReleaseLock
  <2>12. CASE FutureDone(p)
    BY <2>12 DEF FutureDone, Step, WPC, Holding, Executing, Locals
  <2>13. CASE WorkerFinished(p)
    <3>1. flock' \subseteq Procs \X {"main", "worker"}
      BY <2>13 DEF WorkerFinished, StartWorker, Release
    <3>2. wpc' \in [Procs -> WPC]
      BY <2>13 DEF WorkerFinished, StartWorker, Step, WPC, Holding, Executing
    <3>3. \A q \in Procs : wpc'[q] \in Holding \ {"reread"} => wtask'[q] # NoTask
      <4>1. CASE Queued # {} /\ ppc[p] # "closing"
        BY <4>1, <2>13 DEF WorkerFinished, StartWorker, Step, WPC, Holding, Executing
      <4>2. CASE ~(Queued # {} /\ ppc[p] # "closing")
        BY <4>2, <2>13 DEF WorkerFinished, StartWorker, Step, WPC, Holding, Executing
      <4> QED
        BY <4>1, <4>2
    <3> QED
      BY <3>1, <3>2, <3>3, <2>13 DEF WorkerFinished, StartWorker
  <2> QED
    BY <1>4, <2>1, <2>2, <2>3, <2>4, <2>5, <2>6, <2>7, <2>8, <2>9, <2>10, <2>11,
       <2>12, <2>13
    DEF Work
<1>5. ASSUME NEW p \in Procs, Renew(p) PROVE TypeOK'
  BY <1>5 DEF Renew
<1>6. ASSUME NEW r \in Req, Call(r) PROVE TypeOK'
  <2>1. CASE Create(r) \/ Resume(r)
    <3>1. doc' \in [Task -> Doc]
      BY <2>1, Documents
      DEF Create, Insert, Resume, SetStatus, Status, Live, Stopped, Finished,
          Locals
    <3>2. rtask' \in [Req -> Task \union {NoTask}]
      BY <2>1 DEF Create, Insert, Resume, Goto
    <3>3. rpc' \in [Req -> RPC]
      BY <2>1 DEF Create, Insert, Resume, Goto, RPC
    <3> QED
      BY <3>1, <3>2, <3>3, <2>1 DEF Create, Insert, Resume
  <2>2. ASSUME NEW t \in Task, Cancel(r, t) PROVE TypeOK'
    <3>1. doc' \in [Task -> Doc]
      BY <2>2, Documents
      DEF Cancel, SetStatus, Status, Live, Stopped, Finished, Locals
    <3>2. lease' \in [Task -> {"none", "live", "expired"}]
      BY <2>2 DEF Cancel, DropLease
    <3>3. flag' \in [Task -> BOOLEAN]
      BY <2>2 DEF Cancel
    <3> QED
      BY <3>1, <3>2, <3>3, <2>2 DEF Cancel
  <2>3. ASSUME NEW t \in Task, RecoverRead(r, t) PROVE TypeOK'
    BY <2>3 DEF RecoverRead, Goto, RPC
  <2> QED
    BY <1>6, <2>1, <2>2, <2>3 DEF Call
<1>7. ASSUME NEW r \in Req, Answer(r) PROVE TypeOK'
  <2>1. CASE SaveRead(r)
    <3>1. \A next \in ReqWriting \union {"stage", "submit"} : next \in RPC
      BY DEF ReqWriting, RPC
    <3>2. rpc' \in [Req -> RPC]
      BY SaveReads, <2>1, <3>1
    <3>3. rdoc' \in [Req -> Doc]
      BY SaveReads, <2>1
    <3>4. slock' \in [Procs -> BOOLEAN]
      BY SaveReads, <2>1, HomeIsProc
    <3> QED
      BY SaveReads, <2>1, <3>2, <3>3, <3>4
  <2>2. CASE SaveWrite(r)
    <3>1. doc' \in [Task -> Doc]
      BY <2>2, Documents DEF SaveWrite, Status, Live, Stopped, Finished, Locals
    <3>2. slock' \in [Procs -> BOOLEAN]
      BY <2>2 DEF SaveWrite
    <3>3. rdoc' \in [Req -> Doc]
      BY <2>2, Documents DEF SaveWrite, Locals
    <3>4. rpc' \in [Req -> RPC]
      BY <2>2 DEF SaveWrite, Goto, RPC
    <3> QED
      BY <3>1, <3>2, <3>3, <3>4, <2>2 DEF SaveWrite
  <2>3. CASE Submit(r)
    <3>1. flock' \subseteq Procs \X {"main", "worker"}
      BY <2>3, HomeIsProc DEF Submit, StartWorker, Release
    <3>2. wpc' \in [Procs -> WPC]
      BY <2>3 DEF Submit, StartWorker, WPC, Holding, Executing
    <3>3. rpc' \in [Req -> RPC]
      BY <2>3 DEF Submit, Return, Goto, RPC
    <3>4. rtask' \in [Req -> Task \union {NoTask}]
      BY <2>3 DEF Submit, Return, Goto
    <3>5. rdoc' \in [Req -> Doc]
      BY <2>3, Documents DEF Submit, Return, Locals
    <3>6. \A q \in Procs : wpc'[q] \in Holding \ {"reread"} => wtask'[q] # NoTask
      BY <2>3 DEF Submit, StartWorker, WPC, Holding, Executing, Locals
    <3> QED
      BY <3>1, <3>2, <3>3, <3>4, <3>5, <3>6, <2>3
      DEF Submit, StartWorker, Return
  <2>4. CASE RecoverLock(r)
    <3>1. flock' \subseteq Procs \X {"main", "worker"}
      BY <2>4, HomeIsProc DEF RecoverLock, Acquire
    <3>2. rpc' \in [Req -> RPC]
      BY <2>4 DEF RecoverLock, Return, Goto, RPC
    <3>3. rtask' \in [Req -> Task \union {NoTask}]
      BY <2>4 DEF RecoverLock, Return, Goto
    <3>4. rdoc' \in [Req -> Doc]
      BY <2>4, Documents DEF RecoverLock, Return, Locals
    <3> QED
      BY <3>1, <3>2, <3>3, <3>4, <2>4 DEF RecoverLock, Return
  <2>5. CASE RecoverWrite(r)
    <3>1. doc' \in [Task -> Doc]
      BY <2>5, Documents
      DEF RecoverWrite, SetStatus, Status, Live, Stopped, Finished, Locals
    <3>2. lease' \in [Task -> {"none", "live", "expired"}]
      BY <2>5 DEF RecoverWrite, DropLease
    <3>3. flock' \subseteq Procs \X {"main", "worker"}
      BY <2>5, HomeIsProc DEF RecoverWrite, Release
    <3>4. rpc' \in [Req -> RPC]
      BY <2>5 DEF RecoverWrite, Return, Goto, RPC
    <3>5. rtask' \in [Req -> Task \union {NoTask}]
      BY <2>5 DEF RecoverWrite, Return, Goto
    <3>6. rdoc' \in [Req -> Doc]
      BY <2>5, Documents DEF RecoverWrite, Return, Locals
    <3> QED
      BY <3>1, <3>2, <3>3, <3>4, <3>5, <3>6, <2>5 DEF RecoverWrite, Return
  <2> QED
    BY <1>7, <2>1, <2>2, <2>3, <2>4, <2>5 DEF Answer
<1>8. ASSUME NEW t \in Task, LeaseLapse(t) PROVE TypeOK'
  BY <1>8 DEF LeaseLapse
<1> QED
  BY <1>1, <1>2, <1>3, <1>4, <1>5, <1>6, <1>7, <1>8 DEF Next
(* A thread keeps having a task where it uses one. *)
LEMMA Locality ==
  TypeOK /\ Locals /\ [Next]_vars => Locals'
<1> SUFFICES ASSUME TypeOK, Locals, [Next]_vars PROVE Locals'
  OBVIOUS
<1> USE DEF TypeOK, Locals, runtime, process, request, worker
<1>1. CASE UNCHANGED vars
  BY <1>1 DEF vars
<1>2. ASSUME NEW p \in Procs, Start(p) \/ Crash(p) \/ Close(p) \/ Trouble(p)
     PROVE  Locals'
  <2>1. CASE Start(p) \/ Close(p)
    BY <2>1, TaskIsSome DEF Start, Move, Close
  <2>2. CASE Crash(p)
    BY <2>2, TaskIsSome DEF Crash, Move, Step
  <2>3. CASE OpenFails(p)
    BY <2>3, TaskIsSome DEF OpenFails, Forget, Step
  <2>4. CASE RunRaises(p)
    BY <2>4, TaskIsSome DEF RunRaises, Step
  <2> QED
    BY <1>2, <2>1, <2>2, <2>3, <2>4 DEF Trouble
<1>3. ASSUME NEW p \in Procs, Run(p) PROVE Locals'
  <2>1. CASE Boot(p) \/ MarkRead(p) \/ MarkWrite(p) \/ Exit(p)
    BY <2>1, TaskIsSome DEF Boot, Move, MarkRead, MarkWrite, Exit
  <2>2. CASE Kick(p)
    BY <2>2, StartsWorker, TaskIsSome DEF Kick, Move
  <2> QED
    BY <1>3, <2>1, <2>2 DEF Run
<1>4. ASSUME NEW p \in Procs, Work(p) PROVE Locals'
  <2>1. CASE Poll(p) \/ TryLock(p) \/ Reread(p) \/ Open(p) \/ Claim(p) \/
            RunWrite(p) \/ RunEnds(p) \/ FailRead(p) \/ FutureDone(p)
    BY <2>1, TaskIsSome
    DEF Poll, Step, TryLock, Reread, Open, Claim, ClaimIf, RunWrite, AfterWrite,
        RunEnds, FailRead, FutureDone
  <2>2. CASE RunRead(p)
    BY <2>2, SaveRuns, TaskIsSome DEF Holding, Executing, WorkWriting
  <2>3. CASE Finish(p)
    BY <2>3, TaskIsSome
    DEF Finish, FinishAs, AfterFinish, Forget, Step, Holding, Executing,
        WorkWriting
  <2>4. CASE ReleaseLock(p)
    BY <2>4, TaskIsSome
    DEF ReleaseLock, Forget, Step, Holding, Executing, WorkWriting
  <2>5. CASE WorkerFinished(p)
    BY <2>5, StartsWorker, TaskIsSome DEF WorkerFinished, Step
  <2> QED
    BY <1>4, <2>1, <2>2, <2>3, <2>4, <2>5 DEF Work
<1>5. ASSUME NEW p \in Procs, Renew(p) PROVE Locals'
  BY <1>5, TaskIsSome DEF Renew
<1>6. ASSUME NEW r \in Req, Call(r) PROVE Locals'
  <2>1. CASE Create(r) \/ Resume(r)
    BY <2>1, TaskIsSome DEF Create, Insert, Goto, Resume
  <2>2. ASSUME NEW t \in Task, Cancel(r, t) PROVE Locals'
    BY <2>2, TaskIsSome DEF Cancel
  <2>3. ASSUME NEW t \in Task, RecoverRead(r, t) PROVE Locals'
    BY <2>3, TaskIsSome DEF RecoverRead, Goto
  <2> QED
    BY <1>6, <2>1, <2>2, <2>3 DEF Call
<1>7. ASSUME NEW r \in Req, Answer(r) PROVE Locals'
  <2>1. CASE SaveRead(r)
    BY <2>1, SaveReads, TaskIsSome DEF ReqWriting
  <2>2. CASE SaveWrite(r)
    BY <2>2, TaskIsSome DEF SaveWrite, Goto
  <2>3. CASE Submit(r)
    <3>1. /\ \A q \in Procs : 
               wpc'[q] = wpc[q] \/ (q = Home(r) /\ wpc'[q] = "poll")
          /\ UNCHANGED <<ppc, wtask>> /\ rpc[r] # "idle"
      BY <2>3, StartsWorker, HomeIsProc DEF Submit
    <3>2. rpc' = [rpc EXCEPT ![r] = "idle"] /\ rtask' = [rtask EXCEPT ![r] = NoTask]
      BY <2>3 DEF Submit, Return, Goto
    <3> QED
      BY <3>1, <3>2, HomeIsProc
  <2>4. CASE RecoverLock(r)
    BY <2>4, TaskIsSome DEF RecoverLock, Return, Goto
  <2>5. CASE RecoverWrite(r)
    BY <2>5, TaskIsSome DEF RecoverWrite, Return, Goto
  <2> QED
    BY <1>7, <2>1, <2>2, <2>3, <2>4, <2>5 DEF Answer
<1>8. ASSUME NEW t \in Task, LeaseLapse(t) PROVE Locals'
  BY <1>8, TaskIsSome DEF LeaseLapse
<1> QED
  BY <1>1, <1>2, <1>3, <1>4, <1>5, <1>6, <1>7, <1>8 DEF Next

(* Requests keep to processes that are up, and starting ones have no worker. *)
LEMMA Living ==
  TypeOK /\ Locals /\ Lives /\ [Next]_vars => Lives'
<1> SUFFICES ASSUME TypeOK, Locals, Lives, [Next]_vars PROVE Lives'
  OBVIOUS
<1> USE DEF TypeOK, Lives, Starting, runtime, process, request, worker
<1>1. CASE UNCHANGED vars
  BY <1>1 DEF vars
<1>2. ASSUME NEW p \in Procs, Start(p) \/ Crash(p) \/ Close(p) \/ Trouble(p)
     PROVE  Lives'
  <2>1. CASE Start(p)
    BY <2>1, HomeIsProc DEF Start, Move
  <2>2. CASE Crash(p)
    BY <2>2, HomeIsProc DEF Crash, Move, Step
  <2>3. CASE Close(p)
    BY <2>3, HomeIsProc DEF Close, Move
  <2>4. CASE OpenFails(p)
    BY <2>4, HomeIsProc DEF OpenFails, Forget, Step
  <2>5. CASE RunRaises(p)
    BY <2>5, HomeIsProc DEF RunRaises, Step
  <2> QED
    BY <1>2, <2>1, <2>2, <2>3, <2>4, <2>5 DEF Trouble
<1>3. ASSUME NEW p \in Procs, Run(p) PROVE Lives'
  <2>1. CASE Boot(p)
    BY <2>1, HomeIsProc DEF Boot, Move
  <2>2. CASE MarkRead(p)
    BY <2>2, HomeIsProc DEF MarkRead, Move
  <2>3. CASE MarkWrite(p)
    BY <2>3, HomeIsProc DEF MarkWrite, Move
  <2>4. CASE Kick(p)
    BY <2>4, StartsWorker, HomeIsProc DEF Kick, Move
  <2>5. CASE Exit(p)
    BY <2>5, HomeIsProc DEF Exit, Move
  <2> QED
    BY <1>3, <2>1, <2>2, <2>3, <2>4, <2>5 DEF Run
<1>4. ASSUME NEW p \in Procs, Work(p) PROVE Lives'
  <2>1. CASE Poll(p)
    BY <2>1, HomeIsProc DEF Poll, Step
  <2>2. CASE TryLock(p)
    BY <2>2, HomeIsProc DEF TryLock, Step
  <2>3. CASE Reread(p)
    BY <2>3, HomeIsProc DEF Reread, Step
  <2>4. CASE Open(p)
    BY <2>4, HomeIsProc DEF Open, Step
  <2>5. CASE Claim(p)
    BY <2>5, HomeIsProc DEF Claim, ClaimIf, Step
  <2>6. CASE RunRead(p)
    BY <2>6, SaveRuns, HomeIsProc DEF WorkWriting
  <2>7. CASE RunWrite(p)
    BY <2>7, HomeIsProc DEF RunWrite, AfterWrite, Step
  <2>8. CASE RunEnds(p)
    BY <2>8, HomeIsProc DEF RunEnds, Step
  <2>9. CASE FailRead(p)
    BY <2>9, HomeIsProc DEF FailRead, Step
  <2>10. CASE Finish(p)
    BY <2>10, HomeIsProc DEF Finish, FinishAs, AfterFinish, Forget, Step
  <2>11. CASE ReleaseLock(p)
    BY <2>11, HomeIsProc DEF ReleaseLock, Forget, Step
  <2>12. CASE FutureDone(p)
    BY <2>12, HomeIsProc DEF FutureDone, Step
  <2>13. CASE WorkerFinished(p)
    BY <2>13, StartsWorker, HomeIsProc DEF WorkerFinished, Step
  <2> QED
    BY <1>4, <2>1, <2>2, <2>3, <2>4, <2>5, <2>6, <2>7, <2>8, <2>9, <2>10, <2>11,
       <2>12, <2>13
    DEF Work
<1>5. ASSUME NEW p \in Procs, Renew(p) PROVE Lives'
  BY <1>5, HomeIsProc DEF Renew
<1>6. ASSUME NEW r \in Req, Call(r) PROVE Lives'
  <2>1. CASE Create(r) \/ Resume(r)
    BY <2>1, HomeIsProc DEF Create, Insert, Goto, Resume
  <2>2. ASSUME NEW t \in Task, Cancel(r, t) PROVE Lives'
    BY <2>2, HomeIsProc DEF Cancel
  <2>3. ASSUME NEW t \in Task, RecoverRead(r, t) PROVE Lives'
    BY <2>3, HomeIsProc DEF RecoverRead, Goto
  <2> QED
    BY <1>6, <2>1, <2>2, <2>3 DEF Call
<1>7. ASSUME NEW r \in Req, Answer(r) PROVE Lives'
  <2>1. CASE SaveRead(r)
    BY <2>1, SaveReads, HomeIsProc DEF ReqWriting
  <2>2. CASE SaveWrite(r)
    BY <2>2, HomeIsProc DEF SaveWrite, Goto
  <2>3. CASE Submit(r)
    <3>1. /\ \A q \in Procs : 
               wpc'[q] = wpc[q] \/ (q = Home(r) /\ wpc'[q] = "poll")
          /\ UNCHANGED <<ppc, wtask>> /\ rpc[r] # "idle"
      BY <2>3, StartsWorker, HomeIsProc DEF Submit
    <3>2. rpc' = [rpc EXCEPT ![r] = "idle"] /\ rtask' = [rtask EXCEPT ![r] = NoTask]
      BY <2>3 DEF Submit, Return, Goto
    <3> QED
      BY <3>1, <3>2, HomeIsProc
  <2>4. CASE RecoverLock(r)
    BY <2>4, HomeIsProc DEF RecoverLock, Return, Goto
  <2>5. CASE RecoverWrite(r)
    BY <2>5, HomeIsProc DEF RecoverWrite, Return, Goto
  <2> QED
    BY <1>7, <2>1, <2>2, <2>3, <2>4, <2>5 DEF Answer
<1>8. ASSUME NEW t \in Task, LeaseLapse(t) PROVE Lives'
  BY <1>8, HomeIsProc DEF LeaseLapse
<1> QED
  BY <1>1, <1>2, <1>3, <1>4, <1>5, <1>6, <1>7, <1>8 DEF Next

(* Every step keeps the lock discipline. *)
LEMMA Locking ==
  TypeOK /\ Locals /\ Lives /\ LockDiscipline /\ [Next]_vars => LockDiscipline'
<1> SUFFICES ASSUME TypeOK, Locals, Lives, LockDiscipline, [Next]_vars PROVE
              LockDiscipline'
  OBVIOUS
<1> USE DEF TypeOK, LockDiscipline, MainHolding, Holding, Executing, runtime,
            process, request, worker
<1>1. CASE UNCHANGED vars
  BY <1>1 DEF vars
<1>2. ASSUME NEW p \in Procs, Start(p) \/ Crash(p) \/ Close(p) \/ Trouble(p)
     PROVE  LockDiscipline'
  <2>1. CASE Start(p)
    BY <2>1, HomeIsProc DEF Start, Move
  <2>2. CASE Crash(p)
    BY <2>2, HomeIsProc DEF Crash, Move, Step
  <2>3. CASE Close(p)
    BY <2>3, HomeIsProc DEF Close, Move
  <2>4. CASE OpenFails(p)
    BY <2>4, HomeIsProc DEF OpenFails, Forget, Step
  <2>5. CASE RunRaises(p)
    BY <2>5, HomeIsProc DEF RunRaises, Step
  <2> QED
    BY <1>2, <2>1, <2>2, <2>3, <2>4, <2>5 DEF Trouble
<1>3. ASSUME NEW p \in Procs, Run(p) PROVE LockDiscipline'
  <2>1. CASE Boot(p)
    <3>1. CASE LockFree
      BY <3>1, <2>1 DEF Boot, Move, Acquire, LockFree, Lives
    <3>2. CASE ~(LockFree)
      BY <3>2, <2>1 DEF Boot, Move
    <3> QED
      BY <3>1, <3>2
  <2>2. CASE MarkRead(p)
    BY <2>2, HomeIsProc DEF MarkRead, Move
  <2>3. CASE MarkWrite(p)
    BY <2>3, HomeIsProc DEF MarkWrite, Move, Release, Lives
  <2>4. CASE Kick(p)
    <3>1. CASE Queued # {}
      <4>1. StartWorker(p)
        BY <3>1, <2>4 DEF Kick
      <4>3. ASSUME NEW q \in Procs, wpc'[q] \in Holding
            PROVE  wpc[q] \in Holding /\ <<q, "worker">> \in flock'
        <5>1. wpc[q] \in Holding
          BY <4>1, <4>3, StartsWorker
        <5>2. <<q, "worker">> \in flock
          BY <5>1
        <5>3. <<q, "worker">> = <<p, "worker">> => q = p
          OBVIOUS
        <5> QED
          BY <4>1, <5>1, <5>2, <5>3, StartsWorker
      <4>4. ASSUME NEW q \in Procs, <<q, "main">> \in flock PROVE <<q, "main">> \in flock'
        BY <4>1, <4>4, StartsWorker
      <4>2. /\ UNCHANGED rpc /\ flock' \subseteq flock
            /\ \A q \in Procs : ppc'[q] \in MainHolding => ppc[q] \in MainHolding
        BY <3>1, <2>4, StartsWorker DEF Kick, Move
      <4> QED
        BY <4>2, <4>3, <4>4
    <3>2. CASE Queued = {}
      BY <3>2, <2>4 DEF Kick, Move
    <3> QED
      BY <3>1, <3>2
  <2>5. CASE Exit(p)
    BY <2>5, HomeIsProc DEF Exit, Move, Release
  <2> QED
    BY <1>3, <2>1, <2>2, <2>3, <2>4, <2>5 DEF Run
<1>4. ASSUME NEW p \in Procs, Work(p) PROVE LockDiscipline'
  <2>1. CASE Poll(p)
    BY <2>1, HomeIsProc DEF Poll, Step
  <2>2. CASE TryLock(p)
    <3>1. CASE LockFree
      BY <3>1, <2>2 DEF TryLock, Step, Acquire, LockFree
    <3>2. CASE ~(LockFree)
      BY <3>2, <2>2 DEF TryLock, Step
    <3> QED
      BY <3>1, <3>2
  <2>3. CASE Reread(p)
    BY <2>3, HomeIsProc DEF Reread, Step, Release
  <2>4. CASE Open(p)
    BY <2>4, HomeIsProc DEF Open, Step
  <2>5. CASE Claim(p)
    BY <2>5, HomeIsProc DEF Claim, ClaimIf, Step
  <2>6. CASE RunRead(p)
    BY <2>6, SaveRuns, HomeIsProc DEF WorkWriting
  <2>7. CASE RunWrite(p)
    BY <2>7, HomeIsProc DEF RunWrite, AfterWrite, Step
  <2>8. CASE RunEnds(p)
    BY <2>8, HomeIsProc DEF RunEnds, Step
  <2>9. CASE FailRead(p)
    BY <2>9, HomeIsProc DEF FailRead, Step
  <2>10. CASE Finish(p)
    BY <2>10, HomeIsProc DEF Finish, FinishAs, AfterFinish, Forget, Step
  <2>11. CASE ReleaseLock(p)
    BY <2>11, HomeIsProc DEF ReleaseLock, Release, Forget, Step
  <2>12. CASE FutureDone(p)
    BY <2>12, HomeIsProc DEF FutureDone, Step
  <2>13. CASE WorkerFinished(p)
    BY <2>13, StartsWorker, HomeIsProc DEF WorkerFinished, Step
  <2> QED
    BY <1>4, <2>1, <2>2, <2>3, <2>4, <2>5, <2>6, <2>7, <2>8, <2>9, <2>10, <2>11,
       <2>12, <2>13
    DEF Work
<1>5. ASSUME NEW p \in Procs, Renew(p) PROVE LockDiscipline'
  BY <1>5, HomeIsProc DEF Renew
<1>6. ASSUME NEW r \in Req, Call(r) PROVE LockDiscipline'
  <2>1. CASE Create(r) \/ Resume(r)
    BY <2>1, HomeIsProc DEF Create, Insert, Goto, Resume
  <2>2. ASSUME NEW t \in Task, Cancel(r, t) PROVE LockDiscipline'
    BY <2>2, HomeIsProc DEF Cancel
  <2>3. ASSUME NEW t \in Task, RecoverRead(r, t) PROVE LockDiscipline'
    BY <2>3, HomeIsProc DEF RecoverRead, Goto
  <2> QED
    BY <1>6, <2>1, <2>2, <2>3 DEF Call
<1>7. ASSUME NEW r \in Req, Answer(r) PROVE LockDiscipline'
  <2>1. CASE SaveRead(r)
    <3>1. UNCHANGED <<flock, ppc, wpc>>
      BY <2>1, SaveReads
    <3>2. \A s \in Req : rpc'[s] = "recoverWrite" => rpc[s] = "recoverWrite"
      BY <2>1, SaveReads DEF ReqWriting
    <3> QED
      BY <3>1, <3>2
  <2>2. CASE SaveWrite(r)
    BY <2>2, HomeIsProc DEF SaveWrite, Goto
  <2>3. CASE Submit(r)
    BY <2>3, StartsWorker, HomeIsProc DEF Submit, Return, Goto
  <2>4. CASE RecoverLock(r)
    <3>1. CASE LockFree
      BY <3>1, <2>4, HomeIsProc DEF RecoverLock, Goto, Acquire, LockFree, Lives
    <3>2. CASE ~(LockFree)
      BY <3>2, <2>4 DEF RecoverLock, Return, Goto
    <3> QED
      BY <3>1, <3>2
  <2>5. CASE RecoverWrite(r)
    BY <2>5, HomeIsProc DEF RecoverWrite, Release, Return, Goto, Lives
  <2> QED
    BY <1>7, <2>1, <2>2, <2>3, <2>4, <2>5 DEF Answer
<1>8. ASSUME NEW t \in Task, LeaseLapse(t) PROVE LockDiscipline'
  BY <1>8, HomeIsProc DEF LeaseLapse
<1> QED
  BY <1>1, <1>2, <1>3, <1>4, <1>5, <1>6, <1>7, <1>8 DEF Next

(* Two threads that need the file lock are one thread. *)
LEMMA OneHolder ==
  ASSUME LockDiscipline
  PROVE  /\ \A p, q \in Procs : wpc[p] \in Holding /\ wpc[q] \in Holding => p = q
         /\ \A p, q \in Procs : ppc[p] \in MainHolding => wpc[q] \notin Holding
         /\ \A r \in Req, q \in Procs : rpc[r] = "recoverWrite" => wpc[q] \notin Holding
  BY HomeIsProc DEF LockDiscipline

(* A task under execution keeps its executor and its lease. *)
LEMMA Leasing ==
  TypeOK /\ Locals /\ LockDiscipline /\ ExecutedTaskIsLeased /\ [Next]_vars =>
  ExecutedTaskIsLeased'
<1> SUFFICES ASSUME TypeOK, Locals, LockDiscipline, ExecutedTaskIsLeased,
              [Next]_vars PROVE ExecutedTaskIsLeased'
  OBVIOUS
<1> USE DEF TypeOK, ExecutedTaskIsLeased, Executing, runtime, process, request,
            worker
<1>1. CASE UNCHANGED vars
  BY <1>1 DEF vars
<1>2. ASSUME NEW p \in Procs, Start(p) \/ Crash(p) \/ Close(p) \/ Trouble(p)
     PROVE  ExecutedTaskIsLeased'
  <2>1. CASE Start(p) \/ Close(p) \/ OpenFails(p)
    BY <2>1 DEF Start, Close, OpenFails, Forget, Step
  <2>2. CASE Crash(p)
    BY <2>2 DEF Crash, Orphan, Step, Holding
  <2>3. CASE RunRaises(p)
    BY <2>3 DEF RunRaises, Step
  <2> QED
    BY <1>2, <2>1, <2>2, <2>3 DEF Trouble
<1>3. ASSUME NEW p \in Procs, Run(p) PROVE ExecutedTaskIsLeased'
  <2>1. CASE Boot(p) \/ MarkRead(p)
    BY <2>1 DEF Boot, MarkRead
  <2>2. CASE MarkWrite(p)
    BY <2>2, OneHolder DEF MarkWrite, MainHolding, Holding
  <2>3. CASE Kick(p)
    BY <2>3, StartsWorker DEF Kick
  <2>4. CASE Exit(p)
    BY <2>4 DEF Exit, Orphan, Holding
  <2> QED
    BY <1>3, <2>1, <2>2, <2>3, <2>4 DEF Run
<1>4. ASSUME NEW p \in Procs, Work(p) PROVE ExecutedTaskIsLeased'
  <2>1. CASE Poll(p) \/ TryLock(p) \/ Reread(p) \/ Open(p) \/ RunEnds(p) \/
            FailRead(p) \/ ReleaseLock(p) \/ FutureDone(p)
    BY <2>1
    DEF Poll, Step, TryLock, Reread, Open, RunEnds, FailRead, ReleaseLock,
        Forget, FutureDone
  <2>2. CASE Claim(p)
    BY <2>2, OneHolder DEF Claim, ClaimIf, Step, Holding
  <2>3. CASE RunRead(p)
    BY <2>3, SaveRuns DEF WorkWriting
  <2>4. CASE RunWrite(p)
    BY <2>4 DEF RunWrite, AfterWrite, Step
  <2>5. CASE Finish(p)
    <3>1. CASE wpc[p] \in {"finish", "raised"}
      <4>1. \A q \in Procs : wpc[q] \notin Executing
        BY <3>1, OneHolder DEF Holding
      <4> QED
        BY <3>1, <4>1, <2>5 DEF Finish, FinishAs, AfterFinish, Step
    <3>2. CASE wpc[p] = "raisedAgain"
      <4>1. ASSUME NEW q \in Procs, wpc'[q] \in Executing
            PROVE  /\ q # p /\ wpc[q] \in Executing /\ wtask'[q] = wtask[q]
                   /\ wtask[q] \in Task
        BY <3>2, <4>1, <2>5 DEF Finish, FinishAs, AfterFinish, Step, Forget, Holding
      <4>2. UNCHANGED owner
        BY <2>5 DEF Finish, FinishAs
      <4>3. lease' = lease \/ (owner[wtask[p]] \in {"none", p} /\ DropLease(wtask[p]))
        BY <2>5 DEF Finish, FinishAs
      <4> QED
        BY <4>1, <4>2, <4>3, ProcsAssumption DEF DropLease
    <3> QED
      BY <3>1, <3>2, <2>5 DEF Finish, FinishAs, AfterFinish
  <2>6. CASE WorkerFinished(p)
    BY <2>6, StartsWorker DEF WorkerFinished, Step
  <2> QED
    BY <1>4, <2>1, <2>2, <2>3, <2>4, <2>5, <2>6 DEF Work
<1>5. ASSUME NEW p \in Procs, Renew(p) PROVE ExecutedTaskIsLeased'
  BY <1>5 DEF Renew
<1>6. ASSUME NEW r \in Req, Call(r) PROVE ExecutedTaskIsLeased'
  <2>1. CASE Create(r) \/ Resume(r)
    BY <2>1 DEF Create, Insert, Resume
  <2>2. ASSUME NEW t \in Task, Cancel(r, t) PROVE ExecutedTaskIsLeased'
    BY <2>2, ProcsAssumption DEF Cancel, DropLease, Holding
  <2>3. ASSUME NEW t \in Task, RecoverRead(r, t) PROVE ExecutedTaskIsLeased'
    BY <2>3 DEF RecoverRead
  <2> QED
    BY <1>6, <2>1, <2>2, <2>3 DEF Call
<1>7. ASSUME NEW r \in Req, Answer(r) PROVE ExecutedTaskIsLeased'
  <2>1. CASE SaveRead(r)
    BY <2>1, SaveReads
  <2>2. CASE SaveWrite(r)
    BY <2>2 DEF SaveWrite
  <2>3. CASE Submit(r)
    BY <2>3, StartsWorker, HomeIsProc DEF Submit
  <2>4. CASE RecoverLock(r)
    BY <2>4 DEF RecoverLock
  <2>5. CASE RecoverWrite(r)
    BY <2>5, OneHolder DEF RecoverWrite, DropLease, Holding
  <2> QED
    BY <1>7, <2>1, <2>2, <2>3, <2>4, <2>5 DEF Answer
<1>8. ASSUME NEW t \in Task, LeaseLapse(t) PROVE ExecutedTaskIsLeased'
  BY <1>8 DEF LeaseLapse
<1> QED
  BY <1>1, <1>2, <1>3, <1>4, <1>5, <1>6, <1>7, <1>8 DEF Next

(* Every step keeps the attempt counter in line with the owner. *)
LEMMA Attempting ==
  TypeOK /\ Attempts /\ [Next]_vars => Attempts'
<1> SUFFICES ASSUME TypeOK, Attempts, [Next]_vars PROVE Attempts'
  OBVIOUS
<1> USE DEF TypeOK, Attempts, runtime, process, request, worker
<1>1. CASE UNCHANGED vars
  BY <1>1 DEF vars
<1>2. ASSUME NEW p \in Procs, Start(p) \/ Crash(p) \/ Close(p) \/ Trouble(p)
     PROVE  Attempts'
  <2>1. CASE Start(p) \/ Close(p) \/ OpenFails(p) \/ RunRaises(p)
    BY <2>1 DEF Start, Close, OpenFails, RunRaises
  <2>2. CASE Crash(p)
    BY <2>2, ProcsAssumption DEF Crash, Orphan
  <2> QED
    BY <1>2, <2>1, <2>2 DEF Trouble
<1>3. ASSUME NEW p \in Procs, Run(p) PROVE Attempts'
  <2>1. CASE Boot(p) \/ MarkRead(p) \/ MarkWrite(p) \/ Kick(p)
    BY <2>1, StartsWorker DEF Boot, MarkRead, MarkWrite, Kick
  <2>2. CASE Exit(p)
    BY <2>2, ProcsAssumption DEF Exit, Orphan
  <2> QED
    BY <1>3, <2>1, <2>2 DEF Run
<1>4. ASSUME NEW p \in Procs, Work(p) PROVE Attempts'
  <2>1. CASE Poll(p) \/ TryLock(p) \/ Reread(p) \/ Open(p) \/ RunWrite(p) \/
            RunEnds(p) \/ FailRead(p) \/ Finish(p) \/ ReleaseLock(p) \/
            FutureDone(p) \/ WorkerFinished(p)
    BY <2>1, StartsWorker
    DEF Poll, TryLock, Reread, Open, RunWrite, RunEnds, FailRead, Finish,
        FinishAs, ReleaseLock, FutureDone, WorkerFinished
  <2>2. CASE Claim(p)
    BY <2>2, ProcsAssumption DEF Claim, ClaimIf, NeverClaimed
  <2>3. CASE RunRead(p)
    BY <2>3, SaveRuns
  <2> QED
    BY <1>4, <2>1, <2>2, <2>3 DEF Work
<1>5. ASSUME NEW p \in Procs, Renew(p) PROVE Attempts'
  BY <1>5 DEF Renew
<1>6. ASSUME NEW r \in Req, Call(r) PROVE Attempts'
  <2>1. CASE Create(r) \/ Resume(r)
    BY <2>1 DEF Create, Insert, Resume
  <2>2. ASSUME NEW t \in Task, Cancel(r, t) PROVE Attempts'
    BY <2>2 DEF Cancel
  <2>3. ASSUME NEW t \in Task, RecoverRead(r, t) PROVE Attempts'
    BY <2>3 DEF RecoverRead
  <2> QED
    BY <1>6, <2>1, <2>2, <2>3 DEF Call
<1>7. ASSUME NEW r \in Req, Answer(r) PROVE Attempts'
  <2>1. CASE SaveWrite(r) \/ Submit(r) \/ RecoverLock(r) \/ RecoverWrite(r)
    BY <2>1, StartsWorker DEF SaveWrite, Submit, RecoverLock, RecoverWrite
  <2>2. CASE SaveRead(r)
    BY <2>2 DEF SaveRead, ReadToSave
  <2> QED
    BY <1>7, <2>1, <2>2 DEF Answer
<1>8. ASSUME NEW t \in Task, LeaseLapse(t) PROVE Attempts'
  BY <1>8 DEF LeaseLapse
<1> QED
  BY <1>1, <1>2, <1>3, <1>4, <1>5, <1>6, <1>7, <1>8 DEF Next

(* QueueInv is an inductive invariant. *)
LEMMA QueueInvariant == Spec => []QueueInv
<1>1. Init => QueueInv
  <2> SUFFICES ASSUME Init PROVE QueueInv
    OBVIOUS
  <2>1. TypeOK
    BY Documents DEF Init, TypeOK, PPC, RPC, WPC, Holding, Executing
  <2>2. Locals /\ Lives /\ LockDiscipline
    BY DEF Init, Locals, Lives, LockDiscipline, Holding, Executing, MainHolding
  <2>3. ExecutedTaskIsLeased /\ Attempts
    BY DEF Init, ExecutedTaskIsLeased, Attempts, Executing
  <2> QED
    BY <2>1, <2>2, <2>3 DEF QueueInv
<1>2. QueueInv /\ [Next]_vars => QueueInv'
  BY Typing, Locality, Living, Locking, Leasing, Attempting DEF QueueInv
<1> QED
  BY <1>1, <1>2, PTL DEF Spec

(* Every variable keeps its type. *)
THEOREM TypeCorrect == Spec => []TypeOK
  BY QueueInvariant, PTL DEF QueueInv

(* At most one audit is executed at a time, over all processes. *)
THEOREM MutualExclusion == Spec => []OneAudit
<1>1. QueueInv => OneAudit
  BY OneHolder DEF QueueInv, OneAudit, Holding
<1> QED
  BY <1>1, QueueInvariant, PTL

(* The lease of a task under execution is its executor's, whatever starting
   processes, recoveries and other workers do. *)
THEOREM LeaseKept == Spec => []ExecutedTaskIsLeased
  BY QueueInvariant, PTL DEF QueueInv

(* No task is executed twice, over any number of processes and restarts. *)
THEOREM AtMostOnce == Spec => []RunsAtMostOnce
<1>1. QueueInv => RunsAtMostOnce
  BY DEF QueueInv, Attempts, RunsAtMostOnce
<1> QED
  BY <1>1, QueueInvariant, PTL

-----------------------------------------------------------------------------
(* One process *)

OneProcess == \A p, q \in Procs : p = q

(* One thread at a time is between its read and its write. *)
LEMMA StoreLocking ==
  TypeOK /\ Locals /\ Lives /\ StoreLock /\ [Next]_vars => StoreLock'
<1> SUFFICES ASSUME TypeOK, Locals, Lives, StoreLock, [Next]_vars PROVE
              StoreLock'
  OBVIOUS
<1> USE DEF TypeOK, StoreLock, WorkWriting, ReqWriting, runtime, process,
            request, worker
<1>1. CASE UNCHANGED vars
  BY <1>1 DEF vars
<1>2. ASSUME NEW p \in Procs, Start(p) \/ Crash(p) \/ Close(p) \/ Trouble(p)
     PROVE  StoreLock'
  <2>1. CASE Start(p) \/ Close(p)
    BY <2>1, HomeIsProc DEF Start, Move, Close
  <2>2. CASE Crash(p)
    BY <2>2, HomeIsProc DEF Crash, Move, Step, Lives, Starting
  <2>3. CASE OpenFails(p)
    BY <2>3, HomeIsProc DEF OpenFails, Forget, Step
  <2>4. CASE RunRaises(p)
    BY <2>4, HomeIsProc DEF RunRaises, Step
  <2> QED
    BY <1>2, <2>1, <2>2, <2>3, <2>4 DEF Trouble
<1>3. ASSUME NEW p \in Procs, Run(p) PROVE StoreLock'
  <2>1. CASE Boot(p) \/ Exit(p)
    BY <2>1, HomeIsProc DEF Boot, Move, Exit
  <2>2. CASE MarkRead(p)
    BY <2>2, HomeIsProc DEF MarkRead, Move
  <2>3. CASE MarkWrite(p)
    BY <2>3, HomeIsProc DEF MarkWrite, Move, Lives, Starting
  <2>4. CASE Kick(p)
    BY <2>4, StartsWorker, HomeIsProc DEF Kick, Move
  <2> QED
    BY <1>3, <2>1, <2>2, <2>3, <2>4 DEF Run
<1>4. ASSUME NEW p \in Procs, Work(p) PROVE StoreLock'
  <2>1. CASE Poll(p)
    BY <2>1, HomeIsProc DEF Poll, Step
  <2>2. CASE TryLock(p)
    BY <2>2, HomeIsProc DEF TryLock, Step
  <2>3. CASE Reread(p)
    BY <2>3, HomeIsProc DEF Reread, Step
  <2>4. CASE Open(p)
    BY <2>4, HomeIsProc DEF Open, Step
  <2>5. CASE Claim(p)
    BY <2>5, HomeIsProc DEF Claim, ClaimIf, Step
  <2>6. CASE RunRead(p)
    <3>1. /\ wpc[p] \notin WorkWriting /\ ~slock[p] /\ UNCHANGED rpc
          /\ \A r \in Req : rpc[r] \in ReqWriting => Home(r) # p
      BY <2>6, SaveRuns
    <3>2. CASE wpc' = [wpc EXCEPT ![p] = "ran"] /\ UNCHANGED slock
      BY <3>1, <3>2, HomeIsProc
    <3>3. ASSUME NEW next \in WorkWriting, wpc' = [wpc EXCEPT ![p] = next],
                 slock' = [slock EXCEPT ![p] = TRUE]
          PROVE  StoreLock'
      BY <3>1, <3>3, HomeIsProc
    <3> QED
      BY <2>6, SaveRuns, <3>2, <3>3
  <2>7. CASE RunWrite(p)
    BY <2>7, HomeIsProc DEF RunWrite, AfterWrite, Step
  <2>8. CASE RunEnds(p)
    BY <2>8, HomeIsProc DEF RunEnds, Step
  <2>9. CASE FailRead(p)
    <3>1. /\ wpc[p] \notin WorkWriting /\ ~slock[p] /\ UNCHANGED rpc
          /\ \A r \in Req : rpc[r] \in ReqWriting => Home(r) # p
      BY <2>9, FailReads
    <3>2. CASE wpc' = [wpc EXCEPT ![p] = "raised"] /\ UNCHANGED slock
      BY <3>1, <3>2, HomeIsProc
    <3>3. CASE /\ wpc' = [wpc EXCEPT ![p] = "failWrite"]
               /\ slock' = [slock EXCEPT ![p] = TRUE]
      BY <3>1, <3>3, HomeIsProc
    <3> QED
      BY <2>9, FailReads, <3>2, <3>3
  <2>10. CASE Finish(p)
    BY <2>10, HomeIsProc DEF Finish, FinishAs, AfterFinish, Forget, Step
  <2>11. CASE ReleaseLock(p)
    BY <2>11, HomeIsProc DEF ReleaseLock, Forget, Step
  <2>12. CASE FutureDone(p)
    BY <2>12, HomeIsProc DEF FutureDone, Step
  <2>13. CASE WorkerFinished(p)
    BY <2>13, StartsWorker, HomeIsProc DEF WorkerFinished, Step
  <2> QED
    BY <1>4, <2>1, <2>2, <2>3, <2>4, <2>5, <2>6, <2>7, <2>8, <2>9, <2>10, <2>11,
       <2>12, <2>13
    DEF Work
<1>5. ASSUME NEW p \in Procs, Renew(p) PROVE StoreLock'
  BY <1>5, HomeIsProc DEF Renew
<1>6. ASSUME NEW r \in Req, Call(r) PROVE StoreLock'
  <2>1. CASE Create(r) \/ Resume(r)
    BY <2>1, HomeIsProc DEF Create, Insert, Goto, Resume
  <2>2. ASSUME NEW t \in Task, Cancel(r, t) PROVE StoreLock'
    BY <2>2, HomeIsProc DEF Cancel
  <2>3. ASSUME NEW t \in Task, RecoverRead(r, t) PROVE StoreLock'
    BY <2>3, HomeIsProc DEF RecoverRead, Goto
  <2> QED
    BY <1>6, <2>1, <2>2, <2>3 DEF Call
<1>7. ASSUME NEW r \in Req, Answer(r) PROVE StoreLock'
  <2>1. CASE SaveRead(r)
    <3>1. /\ UNCHANGED wpc /\ ~slock[Home(r)] /\ rpc[r] \notin ReqWriting
          /\ wpc[Home(r)] \notin WorkWriting
          /\ \A s \in Req : rpc[s] \in ReqWriting => Home(s) # Home(r)
      BY <2>1, SaveReads, HomeIsProc
    <3>2. CASE \E next \in {"stage", "submit"} :
                 rpc' = [rpc EXCEPT ![r] = next] /\ UNCHANGED slock
      BY <3>1, <3>2, HomeIsProc
    <3>3. ASSUME NEW next \in ReqWriting, rpc' = [rpc EXCEPT ![r] = next],
                 slock' = [slock EXCEPT ![Home(r)] = TRUE]
          PROVE  StoreLock'
      BY <3>1, <3>3, HomeIsProc
    <3> QED
      BY <2>1, SaveReads, <3>2, <3>3
  <2>2. CASE SaveWrite(r)
    BY <2>2, HomeIsProc DEF SaveWrite, Goto
  <2>3. CASE Submit(r)
    BY <2>3, StartsWorker, HomeIsProc DEF Submit, Return, Goto
  <2>4. CASE RecoverLock(r)
    BY <2>4, HomeIsProc DEF RecoverLock, Return, Goto
  <2>5. CASE RecoverWrite(r)
    BY <2>5, HomeIsProc DEF RecoverWrite, Return, Goto
  <2> QED
    BY <1>7, <2>1, <2>2, <2>3, <2>4, <2>5 DEF Answer
<1>8. ASSUME NEW t \in Task, LeaseLapse(t) PROVE StoreLock'
  BY <1>8, HomeIsProc DEF LeaseLapse
<1> QED
  BY <1>1, <1>2, <1>3, <1>4, <1>5, <1>6, <1>7, <1>8 DEF Next

(* With one process, a step that waits for store.lock comes when no thread is
   between its read and its write. *)
LEMMA QuietStore ==
  ASSUME OneProcess, TypeOK, StoreLock, NEW p \in Procs, ~slock[p]
  PROVE  /\ \A r \in Req : rpc[r] \notin ReqWriting
         /\ \A q \in Procs : wpc[q] \notin WorkWriting
  BY HomeIsProc DEF OneProcess, StoreLock

(* While the one process starts, nothing else of it runs. *)
LEMMA StartsAlone ==
  ASSUME OneProcess, Lives, NEW p \in Procs, ppc[p] \in Starting
  PROVE  /\ \A r \in Req : rpc[r] = "idle"
         /\ \A q \in Procs : wpc[q] = "idle"
  BY HomeIsProc DEF OneProcess, Lives, Starting

(* One thread at a time is between its read and its write. *)
LEMMA OneWriter ==
  ASSUME OneProcess, TypeOK, StoreLock
  PROVE  /\ \A r \in Req, q \in Procs : ~(rpc[r] \in ReqWriting /\ wpc[q] \in WorkWriting)
         /\ \A r, s \in Req : rpc[r] \in ReqWriting /\ rpc[s] \in ReqWriting => r = s
  BY HomeIsProc DEF OneProcess, StoreLock

(* What SetStatus does to the documents. *)
LEMMA StatusSet ==
  ASSUME TypeOK, NEW t \in Task, NEW s \in Status, SetStatus(t, s)
  PROVE  /\ doc'[t] = WithStatus(doc[t], s) /\ doc'[t].status = s
         /\ doc'[t].scoped = doc[t].scoped
         /\ \A u \in Task : u # t => doc'[u] = doc[u]
  BY Documents DEF TypeOK, SetStatus

(* The statuses that the store sets. *)
LEMMA Statuses ==
  {"queued", "running", "cancelled", "interrupted", "failed"} \subseteq Status
  BY DEF Status, Live, Stopped

(* An insert takes a blank row. *)
LEMMA Inserts ==
  ASSUME TypeOK, NEW r \in Req, Create(r) \/ Resume(r)
  PROVE  /\ rpc[r] = "idle" /\ ppc[Home(r)] = "up"
         /\ rpc' = [rpc EXCEPT ![r] = "scope"]
         /\ UNCHANGED <<owner, lease, flag, attempt, flock, slock, ppc, found,
                        rdoc, wpc, wtask, wdoc>>
         /\ \E t \in Task : /\ doc[t].status = "absent" /\ doc'[t].status = "queued"
                            /\ ~doc[t].scoped
                            /\ \A u \in Task : u # t => doc'[u] = doc[u]
                            /\ rtask' = [rtask EXCEPT ![r] = t]
<1>1. Insert(r)
  BY DEF Create, Resume
<1>2. PICK t \in Task : /\ doc[t] = Blank /\ SetStatus(t, "queued")
                        /\ rtask' = [rtask EXCEPT ![r] = t]
  BY <1>1 DEF Insert
<1>3. doc'[t].status = "queued" /\ \A u \in Task : u # t => doc'[u] = doc[u]
  BY <1>2, StatusSet, Statuses
<1>4. doc[t].status = "absent" /\ ~doc[t].scoped
  BY <1>2 DEF Blank
<1> QED
  BY <1>1, <1>2, <1>3, <1>4 DEF Insert, Goto, runtime, process, worker

(* The columns of a row keep in line with its document. *)
LEMMA RowKeeping ==
  OneProcess /\ SoleInv /\ [Next]_vars => Rows'
<1> SUFFICES ASSUME OneProcess, TypeOK, Locals, Lives, LockDiscipline,
              ExecutedTaskIsLeased, Attempts, StoreLock, RequestCopies,
              WorkerCopies, StartCopies, Created, Rows, Progress, [Next]_vars
              PROVE Rows'
  BY DEF SoleInv, QueueInv
<1> USE DEF TypeOK, Rows, runtime, process, request, worker
<1>1. CASE UNCHANGED vars
  BY <1>1 DEF vars
<1>2. ASSUME NEW p \in Procs, Start(p) \/ Crash(p) \/ Close(p) \/ Trouble(p)
     PROVE  Rows'
  <2>1. CASE Start(p) \/ Close(p) \/ OpenFails(p) \/ RunRaises(p)
    BY <2>1, Documents DEF Start, Close, OpenFails, RunRaises
  <2>2. CASE Crash(p)
    BY <2>2, ProcsAssumption, Documents DEF Crash, Orphan
  <2> QED
    BY <1>2, <2>1, <2>2 DEF Trouble
<1>3. ASSUME NEW p \in Procs, Run(p) PROVE Rows'
  <2>1. CASE Boot(p) \/ MarkRead(p) \/ Kick(p)
    BY <2>1, StartsWorker, Documents DEF Boot, MarkRead, Kick
  <2>2. CASE MarkWrite(p)
    BY <2>2, Documents DEF MarkWrite, StartCopies, Live, Status, Stopped
  <2>3. CASE Exit(p)
    BY <2>3, ProcsAssumption, Documents DEF Exit, Orphan
  <2> QED
    BY <1>3, <2>1, <2>2, <2>3 DEF Run
<1>4. ASSUME NEW p \in Procs, Work(p) PROVE Rows'
  <2>1. CASE Poll(p) \/ TryLock(p) \/ Reread(p) \/ Open(p) \/ RunEnds(p) \/
            ReleaseLock(p) \/ FutureDone(p) \/ WorkerFinished(p)
    BY <2>1, StartsWorker, Documents
    DEF Poll, TryLock, Reread, Open, RunEnds, ReleaseLock, FutureDone,
        WorkerFinished
  <2>2. CASE Claim(p)
    BY <2>2, ProcsAssumption, Documents
    DEF Claim, ClaimIf, NeverClaimed, SetStatus, Status, Live, Holding
  <2>3. CASE RunRead(p)
    BY <2>3, SaveRuns, Documents
  <2>4. CASE RunWrite(p)
    <3> DEFINE t == wtask[p]
    <3>1. /\ wpc[p] \in WorkWriting /\ UNCHANGED runtime /\ doc' = [doc EXCEPT ![t] = wdoc[p]]
      BY <2>4 DEF RunWrite, AfterWrite, WorkWriting
    <3>2. t \in Task /\ wdoc[p] \in Doc
      BY <3>1 DEF WorkWriting, Holding, Executing
    <3>3. wdoc[p].status \in Status \ {"absent", "queued"}
      BY <3>1, <3>2 DEF WorkerCopies, WorkWriting, Status, Finished, Stopped, Live
    <3>4. owner[t] = p /\ lease[t] # "none" /\ ~flag[t]
      BY <3>1, <3>2, TaskIsSome
      DEF ExecutedTaskIsLeased, Progress, Reached, WorkWriting, Executing
    <3>5. owner[t] # "none"
      BY <3>4, ProcsAssumption
    <3>6. doc' \in [Task -> Doc] /\ doc'[t] = wdoc[p]
            /\ \A u \in Task : u # t => doc'[u] = doc[u]
      BY <3>1, <3>2
    <3> QED
      BY <3>1, <3>2, <3>3, <3>4, <3>5, <3>6
  <2>5. CASE FailRead(p)
    BY <2>5, Documents DEF FailRead
  <2>6. CASE Finish(p)
    <3> DEFINE t == wtask[p]
    <3>1. /\ wpc[p] \in {"finish", "raised", "raisedAgain"} /\ t \in Task
          /\ UNCHANGED <<flag, owner>>
      BY <2>6 DEF Finish, FinishAs, AfterFinish, Locals, Holding
    <3>2. CASE owner[t] \in {"none", p} /\ flag[t]
      <4>1. SetStatus(t, "cancelled") /\ DropLease(t)
        BY <2>6, <3>2 DEF Finish, FinishAs
      <4>2. doc'[t].status = "cancelled" /\ \A u \in Task : u # t => doc'[u] = doc[u]
        BY <3>1, <4>1, StatusSet, Statuses
      <4>3. \A u \in Task : u # t => lease'[u] = lease[u]
        BY <4>1 DEF DropLease
      <4> QED
        BY <3>1, <3>2, <4>2, <4>3
    <3>3. CASE owner[t] \in {"none", p} /\ ~flag[t]
      <4>1. UNCHANGED doc /\ DropLease(t)
        BY <2>6, <3>3 DEF Finish, FinishAs
      <4>2. doc[t].status # "running"
        BY <3>1, <3>3, TaskIsSome DEF Progress, Reached, Live
      <4>3. \A u \in Task : u # t => lease'[u] = lease[u]
        BY <4>1 DEF DropLease
      <4> QED
        BY <3>1, <3>3, <4>1, <4>2, <4>3
    <3>4. CASE owner[t] \notin {"none", p}
      BY <2>6, <3>1, <3>4 DEF Finish, FinishAs
    <3> QED
      BY <3>1, <3>2, <3>3, <3>4
  <2> QED
    BY <1>4, <2>1, <2>2, <2>3, <2>4, <2>5, <2>6 DEF Work
<1>5. ASSUME NEW p \in Procs, Renew(p) PROVE Rows'
  BY <1>5, Documents DEF Renew
<1>6. ASSUME NEW r \in Req, Call(r) PROVE Rows'
  <2>1. CASE Create(r) \/ Resume(r)
    <3>1. PICK t \in Task : doc[t] = Blank /\ doc' = [doc EXCEPT ![t] = WithStatus(doc[t], "queued")]
      BY <2>1 DEF Create, Resume, Insert, SetStatus
    <3>2. doc[t].status = "absent" /\ UNCHANGED runtime
      BY <2>1, <3>1 DEF Create, Resume, Insert, Blank
    <3>3. doc'[t].status = "queued" /\ \A u \in Task : u # t => doc'[u] = doc[u]
      BY <3>1, Documents DEF Status, Live
    <3> QED
      BY <3>1, <3>2, <3>3
  <2>2. ASSUME NEW t \in Task, Cancel(r, t) PROVE Rows'
    BY <2>2, Documents DEF Cancel, SetStatus, DropLease, Status, Stopped, Live
  <2>3. ASSUME NEW t \in Task, RecoverRead(r, t) PROVE Rows'
    BY <2>3, Documents DEF RecoverRead
  <2> QED
    BY <1>6, <2>1, <2>2, <2>3 DEF Call
<1>7. ASSUME NEW r \in Req, Answer(r) PROVE Rows'
  <2>1. CASE Submit(r) \/ RecoverLock(r)
    BY <2>1, StartsWorker, Documents DEF Submit, RecoverLock
  <2>2. CASE SaveRead(r)
    BY <2>2, SaveReads, Documents
  <2>3. CASE SaveWrite(r)
    BY <2>3, Documents DEF SaveWrite, RequestCopies, ReqWriting
  <2>4. CASE RecoverWrite(r)
    BY <2>4, Documents
    DEF RecoverWrite, Expired, SetStatus, DropLease, Live, Status, Stopped
  <2> QED
    BY <1>7, <2>1, <2>2, <2>3, <2>4 DEF Answer
<1>8. ASSUME NEW t \in Task, LeaseLapse(t) PROVE Rows'
  BY <1>8, Documents DEF LeaseLapse
<1> QED
  BY <1>1, <1>2, <1>3, <1>4, <1>5, <1>6, <1>7, <1>8 DEF Next

(* What a step does to the documents. *)
LEMMA Settling ==
  OneProcess /\ SoleInv /\ [Next]_vars => Settled
<1> SUFFICES ASSUME OneProcess, TypeOK, Locals, Lives, LockDiscipline,
              ExecutedTaskIsLeased, Attempts, StoreLock, RequestCopies,
              WorkerCopies, StartCopies, Created, Rows, Progress, [Next]_vars
              PROVE Settled
  BY DEF SoleInv, QueueInv
<1> USE DEF TypeOK, Settled, Live, runtime, process, request, worker
<1>1. CASE UNCHANGED vars
  BY <1>1 DEF vars
<1>2. ASSUME NEW p \in Procs, Start(p) \/ Crash(p) \/ Close(p) \/ Trouble(p)
     PROVE  Settled
  <2>1. CASE Start(p) \/ Crash(p) \/ Close(p) \/ OpenFails(p) \/ RunRaises(p)
    BY <2>1, Documents DEF Start, Crash, Close, OpenFails, RunRaises
  <2> QED
    BY <1>2, <2>1 DEF Trouble
<1>3. ASSUME NEW p \in Procs, Run(p) PROVE Settled
  <2>1. CASE Boot(p) \/ MarkRead(p) \/ Kick(p) \/ Exit(p)
    BY <2>1, StartsWorker, Documents DEF Boot, MarkRead, Kick, Exit
  <2>2. CASE MarkWrite(p)
    <3>1. ASSUME NEW t \in Task
          PROVE  doc'[t] = IF found[p][t] # Blank THEN found[p][t] ELSE doc[t]
      BY <2>2 DEF MarkWrite
    <3>2. ASSUME NEW t \in Task, found[p][t] # Blank
          PROVE  /\ doc[t].status \in Live /\ found[p][t].scoped = doc[t].scoped
                 /\ found[p][t].status \in {"cancelled", "interrupted"}
      <4>1. PICK s \in {"cancelled", "interrupted"} : found[p][t] = WithStatus(doc[t], s)
        BY <2>2, <3>2 DEF MarkWrite, StartCopies
      <4>2. doc[t].status \in Live
        BY <2>2, <3>2 DEF MarkWrite, StartCopies
      <4>3. found[p][t].status = s /\ found[p][t].scoped = doc[t].scoped
        <5>1. doc[t] \in Doc /\ s \in Status
          BY Statuses
        <5> HIDE DEF TypeOK
        <5> QED
          BY <4>1, <5>1, Documents
      <4> QED
        BY <4>2, <4>3
    <3> QED
      BY <3>1, <3>2
  <2> QED
    BY <1>3, <2>1, <2>2 DEF Run
<1>4. ASSUME NEW p \in Procs, Work(p) PROVE Settled
  <2>1. CASE Poll(p) \/ TryLock(p) \/ Reread(p) \/ Open(p) \/ RunEnds(p) \/
            ReleaseLock(p) \/ FutureDone(p) \/ WorkerFinished(p)
    BY <2>1, StartsWorker, Documents
    DEF Poll, TryLock, Reread, Open, RunEnds, ReleaseLock, FutureDone,
        WorkerFinished
  <2>2. CASE Claim(p)
    <3>1. CASE UNCHANGED doc
      BY <3>1
    <3>2. CASE doc[wtask[p]].status = "queued" /\ SetStatus(wtask[p], "running")
      BY <2>2, <3>2, StatusSet, Statuses DEF Claim, ClaimIf, Holding
    <3> QED
      BY <2>2, <3>1, <3>2 DEF Claim, ClaimIf
  <2>3. CASE RunRead(p)
    BY <2>3, SaveRuns, Documents
  <2>4. CASE RunWrite(p)
    <3>1. wpc[p] \in WorkWriting /\ doc' = [doc EXCEPT ![wtask[p]] = wdoc[p]]
      BY <2>4 DEF RunWrite, AfterWrite, WorkWriting
    <3>2. wtask[p] \in Task
      BY <3>1 DEF WorkWriting, Holding, Executing
    <3>3. wdoc[p].status # "absent" /\ doc[wtask[p]].status = "running"
      BY <3>1, <3>2, TaskIsSome DEF WorkerCopies, WorkWriting, Finished, Progress, Reached
    <3>4. wdoc[p].scoped = doc[wtask[p]].scoped
      <4>1. wdoc[p] = WithStatus(doc[wtask[p]], wdoc[p].status)
        BY <3>1 DEF WorkerCopies
      <4>2. wdoc[p].status \in Status /\ doc[wtask[p]] \in Doc
        BY <3>2, Documents
      <4> HIDE DEF TypeOK
      <4> QED
        BY <4>1, <4>2, Documents
    <3> QED
      BY <3>1, <3>2, <3>3, <3>4
  <2>5. CASE FailRead(p)
    BY <2>5, FailReads, Documents DEF FailRead
  <2>6. CASE Finish(p)
    <3>1. wtask[p] \in Task
      BY <2>6 DEF Finish, FinishAs, AfterFinish, Locals, Holding
    <3>2. CASE UNCHANGED doc
      BY <3>2
    <3>3. CASE flag[wtask[p]] /\ SetStatus(wtask[p], "cancelled")
      <4>1. doc[wtask[p]].status \in Live \union {"cancelled"}
        BY <2>6, <3>1, <3>3, TaskIsSome DEF Finish, FinishAs, AfterFinish, Progress, Reached
      <4> QED
        BY <3>1, <3>3, <4>1, StatusSet, Statuses
    <3> QED
      BY <2>6, <3>2, <3>3 DEF Finish, FinishAs
  <2> QED
    BY <1>4, <2>1, <2>2, <2>3, <2>4, <2>5, <2>6 DEF Work
<1>5. ASSUME NEW p \in Procs, Renew(p) PROVE Settled
  BY <1>5, Documents DEF Renew
<1>6. ASSUME NEW r \in Req, Call(r) PROVE Settled
  <2>1. CASE Create(r) \/ Resume(r)
    <3> QED
      BY <2>1, Inserts
  <2>2. ASSUME NEW t \in Task, Cancel(r, t) PROVE Settled
    <3>1. CASE UNCHANGED doc
      BY <3>1
    <3>2. CASE doc[t].status = "queued" /\ SetStatus(t, "cancelled")
      BY <3>2, StatusSet, Statuses
    <3> QED
      BY <2>2, <3>1, <3>2 DEF Cancel
  <2>3. ASSUME NEW t \in Task, RecoverRead(r, t) PROVE Settled
    BY <2>3, Documents DEF RecoverRead
  <2> QED
    BY <1>6, <2>1, <2>2, <2>3 DEF Call
<1>7. ASSUME NEW r \in Req, Answer(r) PROVE Settled
  <2>1. CASE SaveRead(r)
    BY <2>1, SaveReads, Documents
  <2>2. CASE SaveWrite(r)
    <3> DEFINE written == IF rpc[r] = "scopeWrite" THEN [rdoc[r] EXCEPT !.scoped = TRUE]
                                               ELSE rdoc[r]
    <3>1. rtask[r] \in Task /\ doc' = [doc EXCEPT ![rtask[r]] = written]
      BY <2>2 DEF SaveWrite, Locals
    <3>2. rdoc[r] = doc[rtask[r]]
      BY <2>2 DEF SaveWrite, RequestCopies, ReqWriting
    <3>3. /\ written.status = doc[rtask[r]].status
          /\ doc[rtask[r]].scoped => written.scoped
      BY <3>1, <3>2, Documents DEF Doc
    <3> QED
      BY <3>1, <3>3
  <2>3. CASE Submit(r)
    BY <2>3, StartsWorker, Documents DEF Submit
  <2>4. CASE RecoverLock(r)
    BY <2>4, Documents DEF RecoverLock
  <2>5. CASE RecoverWrite(r)
    <3>1. rtask[r] \in Task
      BY <2>5 DEF RecoverWrite, Locals
    <3>2. CASE Expired(rtask[r])
      <4>1. PICK s \in {"cancelled", "interrupted"} : SetStatus(rtask[r], s)
        BY <2>5, <3>2 DEF RecoverWrite
      <4>2. /\ doc'[rtask[r]].status = s /\ doc'[rtask[r]].scoped = doc[rtask[r]].scoped
            /\ \A u \in Task : u # rtask[r] => doc'[u] = doc[u]
        BY <3>1, <4>1, StatusSet, Statuses
      <4> QED
        BY <3>1, <3>2, <4>2 DEF Expired
    <3>3. CASE ~Expired(rtask[r])
      BY <2>5, <3>3 DEF RecoverWrite
    <3> QED
      BY <3>2, <3>3
  <2> QED
    BY <1>7, <2>1, <2>2, <2>3, <2>4, <2>5 DEF Answer
<1>8. ASSUME NEW t \in Task, LeaseLapse(t) PROVE Settled
  BY <1>8, Documents DEF LeaseLapse
<1> QED
  BY <1>1, <1>2, <1>3, <1>4, <1>5, <1>6, <1>7, <1>8 DEF Next

(* A request saves a document that is there. *)
LEMMA Creating ==
  OneProcess /\ SoleInv /\ [Next]_vars => Created'
<1> SUFFICES ASSUME OneProcess, TypeOK, Locals, Lives, LockDiscipline,
              ExecutedTaskIsLeased, Attempts, StoreLock, RequestCopies,
              WorkerCopies, StartCopies, Created, Rows, Progress, [Next]_vars
              PROVE Created'
  BY DEF SoleInv, QueueInv
<1> USE DEF TypeOK, Created, ReqWriting, runtime, process, request, worker
<1>1. CASE UNCHANGED vars
  BY <1>1 DEF vars
<1>2. ASSUME NEW p \in Procs, Start(p) \/ Crash(p) \/ Close(p) \/ Trouble(p)
     PROVE  Created'
  <2>1. CASE Start(p) \/ Crash(p) \/ Close(p) \/ OpenFails(p) \/ RunRaises(p)
    BY <2>1, Settling, HomeIsProc
    DEF Start, Move, Settled, Locals, SoleInv, QueueInv, Crash, Step, Close,
        OpenFails, Forget, RunRaises
  <2> QED
    BY <1>2, <2>1 DEF Trouble
<1>3. ASSUME NEW p \in Procs, Run(p) PROVE Created'
  <2>1. CASE Boot(p) \/ MarkRead(p) \/ MarkWrite(p) \/ Exit(p)
    BY <2>1, Settling, HomeIsProc
    DEF Boot, Move, Settled, Locals, SoleInv, QueueInv, MarkRead, MarkWrite,
        Exit
  <2>2. CASE Kick(p)
    BY <2>2, StartsWorker, Settling, HomeIsProc
    DEF Kick, Move, Settled, Locals, SoleInv, QueueInv
  <2> QED
    BY <1>3, <2>1, <2>2 DEF Run
<1>4. ASSUME NEW p \in Procs, Work(p) PROVE Created'
  <2>1. CASE Poll(p) \/ TryLock(p) \/ Reread(p) \/ Open(p) \/ Claim(p) \/
            RunWrite(p) \/ RunEnds(p) \/ FailRead(p) \/ Finish(p) \/
            ReleaseLock(p) \/ FutureDone(p)
    BY <2>1, Settling, HomeIsProc
    DEF Poll, Step, Settled, Locals, SoleInv, QueueInv, TryLock, Reread, Open,
        Claim, ClaimIf, RunWrite, AfterWrite, RunEnds, FailRead, Finish,
        FinishAs, AfterFinish, Forget, ReleaseLock, FutureDone
  <2>2. CASE RunRead(p)
    BY <2>2, SaveRuns, Settling, HomeIsProc
    DEF Settled, Locals, SoleInv, QueueInv
  <2>3. CASE WorkerFinished(p)
    BY <2>3, StartsWorker, Settling, HomeIsProc
    DEF WorkerFinished, Step, Settled, Locals, SoleInv, QueueInv
  <2> QED
    BY <1>4, <2>1, <2>2, <2>3 DEF Work
<1>5. ASSUME NEW p \in Procs, Renew(p) PROVE Created'
  BY <1>5, Settling, HomeIsProc DEF Renew, Settled, Locals, SoleInv, QueueInv
<1>6. ASSUME NEW r \in Req, Call(r) PROVE Created'
  <2>1. CASE Create(r) \/ Resume(r)
    <3>1. Settled
      BY Settling DEF SoleInv, QueueInv
    <3>2. PICK t \in Task : /\ doc[t].status = "absent" /\ doc'[t].status = "queued"
                            /\ \A u \in Task : u # t => doc'[u] = doc[u]
                            /\ rtask' = [rtask EXCEPT ![r] = t]
      BY <2>1, Inserts
    <3>3. rpc' = [rpc EXCEPT ![r] = "scope"]
      BY <2>1, Inserts
    <3>4. ASSUME NEW s \in Req, s # r, rpc'[s] \in ReqWriting \union {"scope", "stage"}
          PROVE  doc'[rtask'[s]].status # "absent"
      <4>1. rtask'[s] = rtask[s] /\ rtask[s] \in Task /\ doc[rtask[s]].status # "absent"
        BY <3>2, <3>3, <3>4 DEF Locals
      <4> QED
        BY <3>1, <4>1 DEF Settled
    <3>5. rtask'[r] = t
      <4>1. rtask' = [rtask EXCEPT ![r] = t]
        BY <3>2
      <4>2. rtask \in [Req -> Task \union {NoTask}]
        OBVIOUS
      <4> HIDE DEF TypeOK
      <4> QED
        BY <4>1, <4>2
    <3> QED
      BY <3>2, <3>4, <3>5
  <2>2. ASSUME NEW t \in Task, Cancel(r, t) PROVE Created'
    BY <2>2, Settling, HomeIsProc DEF Cancel, Settled, Locals, SoleInv, QueueInv
  <2>3. ASSUME NEW t \in Task, RecoverRead(r, t) PROVE Created'
    BY <2>3, Settling, HomeIsProc
    DEF RecoverRead, Goto, Settled, Locals, SoleInv, QueueInv
  <2> QED
    BY <1>6, <2>1, <2>2, <2>3 DEF Call
<1>7. ASSUME NEW r \in Req, Answer(r) PROVE Created'
  <2>1. CASE SaveRead(r)
    BY <2>1, SaveReads, Settling, HomeIsProc
    DEF Settled, Locals, SoleInv, QueueInv
  <2>2. CASE SaveWrite(r)
    BY <2>2, Settling, HomeIsProc
    DEF SaveWrite, Goto, Settled, Locals, SoleInv, QueueInv
  <2>3. CASE Submit(r)
    BY <2>3, StartsWorker, Settling, HomeIsProc
    DEF Submit, Return, Goto, Settled, Locals, SoleInv, QueueInv
  <2>4. CASE RecoverLock(r)
    BY <2>4, Settling, HomeIsProc
    DEF RecoverLock, Return, Goto, Settled, Locals, SoleInv, QueueInv
  <2>5. CASE RecoverWrite(r)
    BY <2>5, Settling, HomeIsProc
    DEF RecoverWrite, Return, Goto, Settled, Locals, SoleInv, QueueInv
  <2> QED
    BY <1>7, <2>1, <2>2, <2>3, <2>4, <2>5 DEF Answer
<1>8. ASSUME NEW t \in Task, LeaseLapse(t) PROVE Created'
  BY <1>8, Settling, HomeIsProc
  DEF LeaseLapse, Settled, Locals, SoleInv, QueueInv
<1> QED
  BY <1>1, <1>2, <1>3, <1>4, <1>5, <1>6, <1>7, <1>8 DEF Next

(* A request's copy of a document stays what the document is. *)
LEMMA RequestCopying ==
  OneProcess /\ SoleInv /\ [Next]_vars => RequestCopies'
<1> SUFFICES ASSUME OneProcess, TypeOK, Locals, Lives, LockDiscipline,
              ExecutedTaskIsLeased, Attempts, StoreLock, RequestCopies,
              WorkerCopies, StartCopies, Created, Rows, Progress, [Next]_vars
              PROVE RequestCopies'
  BY DEF SoleInv, QueueInv
<1> USE DEF TypeOK, RequestCopies, WorkWriting, ReqWriting, runtime, process,
            request, worker
<1>1. CASE UNCHANGED vars
  BY <1>1 DEF vars
<1>2. ASSUME NEW p \in Procs, Start(p) \/ Crash(p) \/ Close(p) \/ Trouble(p)
     PROVE  RequestCopies'
  <2>1. CASE Start(p) \/ Close(p) \/ OpenFails(p) \/ RunRaises(p)
    BY <2>1, HomeIsProc
    DEF Start, Move, Close, OpenFails, Forget, Step, RunRaises
  <2>2. CASE Crash(p)
    BY <2>2, HomeIsProc DEF Crash, Move, Step
  <2> QED
    BY <1>2, <2>1, <2>2 DEF Trouble
<1>3. ASSUME NEW p \in Procs, Run(p) PROVE RequestCopies'
  <2>1. CASE Boot(p) \/ MarkRead(p) \/ Exit(p)
    BY <2>1, HomeIsProc DEF Boot, Move, MarkRead, Exit
  <2>2. CASE MarkWrite(p)
    <3>1. \A r \in Req : rpc'[r] = "idle"
      BY <2>2, StartsAlone DEF MarkWrite, Starting
    <3> QED
      BY <3>1
  <2>3. CASE Kick(p)
    BY <2>3, StartsWorker, HomeIsProc DEF Kick, Move
  <2> QED
    BY <1>3, <2>1, <2>2, <2>3 DEF Run
<1>4. ASSUME NEW p \in Procs, Work(p) PROVE RequestCopies'
  <2>1. CASE Poll(p) \/ TryLock(p) \/ Reread(p) \/ Open(p) \/ RunEnds(p) \/
            FailRead(p) \/ ReleaseLock(p) \/ FutureDone(p) \/ WorkerFinished(p)
    BY <2>1, StartsWorker, HomeIsProc
    DEF Poll, Step, TryLock, Reread, Open, RunEnds, FailRead, ReleaseLock,
        Forget, FutureDone, WorkerFinished
  <2>2. CASE Claim(p)
    <3>1. \A s \in Req : rpc'[s] \notin ReqWriting
      BY <2>2, QuietStore, HomeIsProc DEF Claim, ClaimIf
    <3> QED
      BY <3>1
  <2>3. CASE RunRead(p)
    BY <2>3, SaveRuns, HomeIsProc
  <2>4. CASE RunWrite(p)
    BY <2>4, OneWriter, HomeIsProc DEF RunWrite, AfterWrite, Step
  <2>5. CASE Finish(p)
    <3>1. \A s \in Req : rpc'[s] \notin ReqWriting
      BY <2>5, QuietStore, HomeIsProc DEF Finish, FinishAs
    <3> QED
      BY <3>1
  <2> QED
    BY <1>4, <2>1, <2>2, <2>3, <2>4, <2>5 DEF Work
<1>5. ASSUME NEW p \in Procs, Renew(p) PROVE RequestCopies'
  BY <1>5, HomeIsProc DEF Renew
<1>6. ASSUME NEW r \in Req, Call(r) PROVE RequestCopies'
  <2>1. CASE Create(r) \/ Resume(r)
    <3>1. PICK t \in Task : /\ doc[t].status = "absent" /\ doc'[t].status = "queued"
                            /\ \A u \in Task : u # t => doc'[u] = doc[u]
                            /\ rtask' = [rtask EXCEPT ![r] = t]
      BY <2>1, Inserts
    <3>2. rpc' = [rpc EXCEPT ![r] = "scope"] /\ UNCHANGED rdoc
      BY <2>1, Inserts
    <3> QED
      BY <3>1, <3>2 DEF Created, Locals
  <2>2. ASSUME NEW t \in Task, Cancel(r, t) PROVE RequestCopies'
    <3>1. \A s \in Req : rpc'[s] \notin ReqWriting
      BY <2>2, QuietStore, HomeIsProc DEF Cancel
    <3> QED
      BY <3>1
  <2>3. ASSUME NEW t \in Task, RecoverRead(r, t) PROVE RequestCopies'
    BY <2>3, HomeIsProc DEF RecoverRead, Goto
  <2> QED
    BY <1>6, <2>1, <2>2, <2>3 DEF Call
<1>7. ASSUME NEW r \in Req, Answer(r) PROVE RequestCopies'
  <2>1. CASE SaveRead(r)
    BY <2>1, SaveReads, HomeIsProc
  <2>2. CASE SaveWrite(r)
    <3>1. \A s \in Req : rpc'[s] \notin ReqWriting
      BY <2>2, OneWriter DEF SaveWrite, Goto
    <3> QED
      BY <3>1
  <2>3. CASE Submit(r)
    BY <2>3, StartsWorker, HomeIsProc DEF Submit, Return, Goto
  <2>4. CASE RecoverLock(r)
    <3>1. UNCHANGED doc /\ \A s \in Req : rpc'[s] \in ReqWriting =>
            s # r /\ rpc[s] \in ReqWriting /\ rtask'[s] = rtask[s] /\ rdoc'[s] = rdoc[s]
      BY <2>4 DEF RecoverLock, Return, Goto
    <3> QED
      BY <3>1
  <2>5. CASE RecoverWrite(r)
    <3>1. \A s \in Req : rpc'[s] \notin ReqWriting
      BY <2>5, QuietStore, HomeIsProc DEF RecoverWrite, Return, Goto
    <3> QED
      BY <3>1
  <2> QED
    BY <1>7, <2>1, <2>2, <2>3, <2>4, <2>5 DEF Answer
<1>8. ASSUME NEW t \in Task, LeaseLapse(t) PROVE RequestCopies'
  BY <1>8, HomeIsProc DEF LeaseLapse
<1> QED
  BY <1>1, <1>2, <1>3, <1>4, <1>5, <1>6, <1>7, <1>8 DEF Next

(* A worker's copy of a document stays what the document is. *)
LEMMA WorkerCopying ==
  OneProcess /\ SoleInv /\ [Next]_vars => WorkerCopies'
<1> SUFFICES ASSUME OneProcess, TypeOK, Locals, Lives, LockDiscipline,
              ExecutedTaskIsLeased, Attempts, StoreLock, RequestCopies,
              WorkerCopies, StartCopies, Created, Rows, Progress, [Next]_vars
              PROVE WorkerCopies'
  BY DEF SoleInv, QueueInv
<1> USE DEF TypeOK, WorkerCopies, WorkWriting, ReqWriting, runtime, process,
            request, worker
<1>1. CASE UNCHANGED vars
  BY <1>1 DEF vars
<1>2. ASSUME NEW p \in Procs, Start(p) \/ Crash(p) \/ Close(p) \/ Trouble(p)
     PROVE  WorkerCopies'
  <2>1. CASE Start(p) \/ Close(p) \/ OpenFails(p) \/ RunRaises(p)
    BY <2>1 DEF Start, Move, Close, OpenFails, Forget, Step, RunRaises
  <2>2. CASE Crash(p)
    BY <2>2 DEF Crash, Move, Step
  <2> QED
    BY <1>2, <2>1, <2>2 DEF Trouble
<1>3. ASSUME NEW p \in Procs, Run(p) PROVE WorkerCopies'
  <2>1. CASE Boot(p) \/ MarkRead(p) \/ Exit(p)
    BY <2>1 DEF Boot, Move, MarkRead, Exit
  <2>2. CASE MarkWrite(p)
    <3>1. \A q \in Procs : wpc'[q] = "idle"
      BY <2>2, StartsAlone DEF MarkWrite, Starting
    <3> QED
      BY <3>1
  <2>3. CASE Kick(p)
    BY <2>3, StartsWorker DEF Kick, Move
  <2> QED
    BY <1>3, <2>1, <2>2, <2>3 DEF Run
<1>4. ASSUME NEW p \in Procs, Work(p) PROVE WorkerCopies'
  <2>1. CASE Poll(p) \/ TryLock(p) \/ Reread(p) \/ Open(p) \/ RunEnds(p) \/
            ReleaseLock(p) \/ FutureDone(p) \/ WorkerFinished(p)
    BY <2>1, StartsWorker
    DEF Poll, Step, TryLock, Reread, Open, RunEnds, ReleaseLock, Forget,
        FutureDone, WorkerFinished
  <2>2. CASE Claim(p)
    <3>1. \A q \in Procs : wpc'[q] \notin WorkWriting
      BY <2>2, QuietStore, HomeIsProc DEF Claim, ClaimIf, Step
    <3> QED
      BY <3>1
  <2>3. CASE RunRead(p)
    <3>1. /\ wpc[p] \in {"begin", "work", "end"} /\ wtask[p] \in Task
          /\ UNCHANGED <<doc, wtask>>
      BY <2>3, SaveRuns
    <3>2. CASE wpc' = [wpc EXCEPT ![p] = "ran"] /\ UNCHANGED wdoc
      BY <3>1, <3>2
    <3>3. ASSUME NEW s \in Status, NEW next \in WorkWriting,
                 wpc' = [wpc EXCEPT ![p] = next],
                 wdoc' = [wdoc EXCEPT ![p] = WithStatus(doc[wtask[p]], s)],
                 \/ next \in {"beginWrite", "workWrite"} /\ s = "running"
                 \/ next = "endWrite" /\ s \in Finished
          PROVE  WorkerCopies'
      <4>1. wdoc'[p] = WithStatus(doc[wtask[p]], s) /\ wdoc'[p].status = s
        BY <3>1, <3>3, Documents
      <4>2. wpc'[p] = next /\ \A q \in Procs : q = p
        BY <3>3 DEF OneProcess
      <4> QED
        BY <3>1, <3>3, <4>1, <4>2
    <3>4. wpc[p] = "work" => doc[wtask[p]].status = "running"
      BY <3>1, TaskIsSome DEF Progress, Reached
    <3>5. CASE ReadsCancelled(wtask[p])
      BY <2>3, SaveRuns, <3>2, <3>5
    <3>6. CASE ~ReadsCancelled(wtask[p])
      <4> HIDE DEF TypeOK, WorkerCopies, WorkWriting
      <4>1. PICK s \in Status, next \in WorkWriting :
                 /\ ~ReadsCancelled(wtask[p])
                 /\ wpc' = [wpc EXCEPT ![p] = next]
                 /\ wdoc' = [wdoc EXCEPT ![p] = WithStatus(doc[wtask[p]], s)]
                 /\ slock' = [slock EXCEPT ![p] = TRUE]
                 /\ \/ wpc[p] = "begin" /\ next = "beginWrite" /\ s = "running"
                    \/ /\ wpc[p] = "work" /\ next = "workWrite"
                       /\ s = doc[wtask[p]].status
                    \/ wpc[p] = "end" /\ next = "endWrite" /\ s \in Finished
        BY <2>3, SaveRuns, <3>6
      <4>2. \/ next \in {"beginWrite", "workWrite"} /\ s = "running"
            \/ next = "endWrite" /\ s \in Finished
        BY <4>1, <3>4
      <4> QED
        BY <3>3, <4>1, <4>2
    <3> QED
      BY <3>5, <3>6
  <2>4. CASE RunWrite(p)
    <3>1. \A q \in Procs : wpc'[q] \notin WorkWriting
      BY <2>4 DEF OneProcess, RunWrite, AfterWrite, Step
    <3> QED
      BY <3>1
  <2>5. CASE FailRead(p)
    <3>1. CASE wpc' = [wpc EXCEPT ![p] = "raised"] /\ UNCHANGED wdoc
      BY <2>5, FailReads, <3>1
    <3>2. CASE /\ wpc' = [wpc EXCEPT ![p] = "failWrite"]
               /\ wdoc' = [wdoc EXCEPT ![p] = WithStatus(doc[wtask[p]], "failed")]
      <4>1. wtask[p] \in Task /\ UNCHANGED <<doc, wtask>>
        BY <2>5, FailReads
      <4>2. /\ wdoc'[p] = WithStatus(doc[wtask[p]], "failed")
            /\ wdoc'[p].status = "failed"
        BY <3>2, <4>1, Documents, Statuses
      <4>3. wpc'[p] = "failWrite" /\ \A q \in Procs : q = p
        BY <3>2 DEF OneProcess
      <4> QED
        BY <4>1, <4>2, <4>3
    <3> QED
      BY <2>5, FailReads, <3>1, <3>2
  <2>6. CASE Finish(p)
    <3>1. \A q \in Procs : wpc'[q] \notin WorkWriting
      BY <2>6, QuietStore, HomeIsProc DEF Finish, FinishAs, AfterFinish, Step
    <3> QED
      BY <3>1
  <2> QED
    BY <1>4, <2>1, <2>2, <2>3, <2>4, <2>5, <2>6 DEF Work
<1>5. ASSUME NEW p \in Procs, Renew(p) PROVE WorkerCopies'
  BY <1>5 DEF Renew
<1>6. ASSUME NEW r \in Req, Call(r) PROVE WorkerCopies'
  <2>1. CASE Create(r) \/ Resume(r)
    <3>1. PICK t \in Task : /\ doc[t].status = "absent" /\ doc'[t].status = "queued"
                            /\ \A u \in Task : u # t => doc'[u] = doc[u]
      BY <2>1, Inserts
    <3>2. UNCHANGED <<wpc, wtask, wdoc>>
      BY <2>1, Inserts
    <3>3. \A q \in Procs : wpc[q] \in WorkWriting => wtask[q] \in Task /\ wtask[q] # t
      BY <3>1, TaskIsSome DEF Progress, Reached, Holding, Executing
    <3> QED
      BY <3>1, <3>2, <3>3
  <2>2. ASSUME NEW t \in Task, Cancel(r, t) PROVE WorkerCopies'
    <3>1. \A q \in Procs : wpc'[q] \notin WorkWriting
      BY <2>2, QuietStore, HomeIsProc DEF Cancel
    <3> QED
      BY <3>1
  <2>3. ASSUME NEW t \in Task, RecoverRead(r, t) PROVE WorkerCopies'
    BY <2>3 DEF RecoverRead, Goto
  <2> QED
    BY <1>6, <2>1, <2>2, <2>3 DEF Call
<1>7. ASSUME NEW r \in Req, Answer(r) PROVE WorkerCopies'
  <2>1. CASE SaveRead(r)
    BY <2>1, SaveReads
  <2>2. CASE SaveWrite(r)
    <3>1. \A q \in Procs : wpc'[q] \notin WorkWriting
      BY <2>2, OneWriter DEF SaveWrite
    <3> QED
      BY <3>1
  <2>3. CASE Submit(r)
    <3>1. /\ \A q \in Procs : wpc'[q] \in WorkWriting => wpc'[q] = wpc[q]
          /\ UNCHANGED <<doc, wtask, wdoc>>
      BY <2>3, StartsWorker, HomeIsProc DEF Submit
    <3> QED
      BY <3>1
  <2>4. CASE RecoverLock(r)
    BY <2>4 DEF RecoverLock, Return, Goto
  <2>5. CASE RecoverWrite(r)
    <3>1. \A q \in Procs : wpc'[q] \notin WorkWriting
      BY <2>5, QuietStore, HomeIsProc DEF RecoverWrite
    <3> QED
      BY <3>1
  <2> QED
    BY <1>7, <2>1, <2>2, <2>3, <2>4, <2>5 DEF Answer
<1>8. ASSUME NEW t \in Task, LeaseLapse(t) PROVE WorkerCopies'
  BY <1>8 DEF LeaseLapse
<1> QED
  BY <1>1, <1>2, <1>3, <1>4, <1>5, <1>6, <1>7, <1>8 DEF Next

(* The rows a starting process has read stay what the documents are. *)
LEMMA StartCopying ==
  OneProcess /\ SoleInv /\ [Next]_vars => StartCopies'
<1> SUFFICES ASSUME OneProcess, TypeOK, Locals, Lives, LockDiscipline,
              ExecutedTaskIsLeased, Attempts, StoreLock, RequestCopies,
              WorkerCopies, StartCopies, Created, Rows, Progress, [Next]_vars
              PROVE StartCopies'
  BY DEF SoleInv, QueueInv
<1> USE DEF TypeOK, StartCopies, runtime, process, request, worker
<1>1. CASE UNCHANGED vars
  BY <1>1 DEF vars
<1>2. ASSUME NEW p \in Procs, Start(p) \/ Crash(p) \/ Close(p) \/ Trouble(p)
     PROVE  StartCopies'
  <2>1. CASE Start(p) \/ Close(p) \/ OpenFails(p) \/ RunRaises(p)
    BY <2>1 DEF Start, Move, Close, OpenFails, Forget, Step, RunRaises
  <2>2. CASE Crash(p)
    BY <2>2 DEF Crash, Move, Step
  <2> QED
    BY <1>2, <2>1, <2>2 DEF Trouble
<1>3. ASSUME NEW p \in Procs, Run(p) PROVE StartCopies'
  <2>1. CASE Boot(p)
    BY <2>1 DEF Boot, Move
  <2>2. CASE MarkRead(p)
    <3>1. ASSUME NEW t \in Task, found'[p][t] # Blank
          PROVE  /\ doc[t].status \in Live
                 /\ found'[p][t] = WithStatus(doc[t], IF flag[t] THEN "cancelled" ELSE "interrupted")
      BY <2>2, <3>1 DEF MarkRead, Live
    <3>2. UNCHANGED <<doc, flag>> /\ \A q \in Procs : q = p
      BY <2>2 DEF MarkRead, OneProcess
    <3> QED
      BY <3>1, <3>2
  <2>3. CASE MarkWrite(p)
    <3>1. \A q \in Procs : ppc'[q] # "markWrite"
      BY <2>3 DEF MarkWrite, Move, OneProcess
    <3> QED
      BY <3>1
  <2>4. CASE Kick(p)
    BY <2>4, StartsWorker DEF Kick, Move
  <2>5. CASE Exit(p)
    BY <2>5 DEF Exit, Move
  <2> QED
    BY <1>3, <2>1, <2>2, <2>3, <2>4, <2>5 DEF Run
<1>4. ASSUME NEW p \in Procs, Work(p) PROVE StartCopies'
  <2>1. CASE Poll(p) \/ TryLock(p) \/ Reread(p) \/ Open(p) \/ RunEnds(p) \/
            ReleaseLock(p) \/ FutureDone(p) \/ WorkerFinished(p)
    BY <2>1, StartsWorker
    DEF Poll, Step, TryLock, Reread, Open, RunEnds, ReleaseLock, Forget,
        FutureDone, WorkerFinished
  <2>2. CASE Claim(p)
    <3>1. \A q \in Procs : ppc'[q] # "markWrite"
      BY <2>2, StartsAlone DEF Claim, ClaimIf, Starting
    <3> QED
      BY <3>1
  <2>3. CASE RunRead(p)
    BY <2>3, SaveRuns
  <2>4. CASE RunWrite(p)
    <3>1. \A q \in Procs : ppc'[q] # "markWrite"
      BY <2>4, StartsAlone DEF RunWrite, AfterWrite, Starting
    <3> QED
      BY <3>1
  <2>5. CASE FailRead(p)
    BY <2>5 DEF FailRead, Step
  <2>6. CASE Finish(p)
    <3>1. \A q \in Procs : ppc'[q] # "markWrite"
      BY <2>6, StartsAlone DEF Finish, FinishAs, AfterFinish, Starting
    <3> QED
      BY <3>1
  <2> QED
    BY <1>4, <2>1, <2>2, <2>3, <2>4, <2>5, <2>6 DEF Work
<1>5. ASSUME NEW p \in Procs, Renew(p) PROVE StartCopies'
  BY <1>5 DEF Renew
<1>6. ASSUME NEW r \in Req, Call(r) PROVE StartCopies'
  <2>1. CASE Create(r) \/ Resume(r)
    <3>1. \A q \in Procs : ppc'[q] # "markWrite"
      BY <2>1, Inserts, HomeIsProc DEF OneProcess
    <3> QED
      BY <3>1
  <2>2. ASSUME NEW t \in Task, Cancel(r, t) PROVE StartCopies'
    <3>1. \A q \in Procs : ppc'[q] # "markWrite"
      BY <2>2, HomeIsProc DEF Cancel, OneProcess
    <3> QED
      BY <3>1
  <2>3. ASSUME NEW t \in Task, RecoverRead(r, t) PROVE StartCopies'
    BY <2>3 DEF RecoverRead, Goto
  <2> QED
    BY <1>6, <2>1, <2>2, <2>3 DEF Call
<1>7. ASSUME NEW r \in Req, Answer(r) PROVE StartCopies'
  <2>1. CASE SaveRead(r)
    BY <2>1, SaveReads
  <2>2. CASE SaveWrite(r)
    <3>1. \A q \in Procs : ppc'[q] # "markWrite"
      BY <2>2, StartsAlone, HomeIsProc DEF SaveWrite, Starting
    <3> QED
      BY <3>1
  <2>3. CASE Submit(r)
    BY <2>3, StartsWorker DEF Submit, Return, Goto
  <2>4. CASE RecoverLock(r)
    BY <2>4 DEF RecoverLock, Return, Goto
  <2>5. CASE RecoverWrite(r)
    <3>1. \A q \in Procs : ppc'[q] # "markWrite"
      BY <2>5, StartsAlone, HomeIsProc DEF RecoverWrite, Starting
    <3> QED
      BY <3>1
  <2> QED
    BY <1>7, <2>1, <2>2, <2>3, <2>4, <2>5 DEF Answer
<1>8. ASSUME NEW t \in Task, LeaseLapse(t) PROVE StartCopies'
  BY <1>8 DEF LeaseLapse
<1> QED
  BY <1>1, <1>2, <1>3, <1>4, <1>5, <1>6, <1>7, <1>8 DEF Next

(* The worker and the document of its task go on together. *)
LEMMA Progressing ==
  OneProcess /\ SoleInv /\ [Next]_vars => Progress'
<1> SUFFICES ASSUME OneProcess, TypeOK, Locals, Lives, LockDiscipline,
              ExecutedTaskIsLeased, Attempts, StoreLock, RequestCopies,
              WorkerCopies, StartCopies, Created, Rows, Progress, [Next]_vars
              PROVE Progress'
  BY DEF SoleInv, QueueInv
<1> USE DEF TypeOK, Progress, WorkWriting, ReqWriting, runtime, process,
            request, worker
<1>1. CASE UNCHANGED vars
  BY <1>1 DEF vars
<1>2. ASSUME NEW p \in Procs, Start(p) \/ Crash(p) \/ Close(p) \/ Trouble(p)
     PROVE  Progress'
  <2>1. CASE Start(p) \/ Close(p)
    BY <2>1, TaskIsSome DEF Start, Move, Close
  <2>2. CASE Crash(p)
    <3>1. wpc'[p] = "idle" /\ wtask'[p] = NoTask /\ \A q \in Procs : q = p
      BY <2>2 DEF Crash, Step, OneProcess
    <3> QED
      BY <3>1
  <2>3. CASE OpenFails(p)
    <3>1. wtask'[p] = NoTask /\ \A q \in Procs : q = p
      BY <2>3 DEF OpenFails, Forget, OneProcess
    <3> QED
      BY <3>1
  <2>4. CASE RunRaises(p)
    <3>1. wpc[p] \in {"begin", "ran"} /\ wpc'[p] = "fail" /\ \A q \in Procs : q = p
      BY <2>4 DEF RunRaises, Step, OneProcess
    <3>2. UNCHANGED <<doc, flag, owner, wtask>>
      BY <2>4 DEF RunRaises
    <3> QED
      BY <3>1, <3>2 DEF Reached
  <2> QED
    BY <1>2, <2>1, <2>2, <2>3, <2>4 DEF Trouble
<1>3. ASSUME NEW p \in Procs, Run(p) PROVE Progress'
  <2>1. CASE Boot(p) \/ MarkRead(p)
    BY <2>1, TaskIsSome DEF Boot, Move, MarkRead
  <2>2. CASE MarkWrite(p)
    <3>1. \A q \in Procs : wpc[q] = "idle"
      BY <2>2, StartsAlone DEF MarkWrite, Starting
    <3>2. UNCHANGED <<flag, owner, wpc, wtask>>
      BY <2>2 DEF MarkWrite
    <3>3. Settled
      BY Settling DEF SoleInv, QueueInv
    <3>4. ASSUME NEW q \in Procs, wtask[q] # NoTask PROVE doc'[wtask[q]].status # "absent"
      BY <3>3, <3>4 DEF Settled
    <3> QED
      BY <3>1, <3>2, <3>4 DEF Reached
  <2>3. CASE Kick(p)
    <3>1. /\ \A q \in Procs : wpc'[q] = wpc[q] \/ wpc'[q] = "poll"
          /\ UNCHANGED <<doc, flag, owner, wtask>>
      BY <2>3, StartsWorker, HomeIsProc DEF Kick
    <3> QED
      BY <3>1 DEF Reached
  <2>4. CASE Exit(p)
    <3>1. /\ \A q \in Procs : wpc'[q] = "idle" /\ q = p
          /\ UNCHANGED <<doc, flag, wtask>>
      BY <2>4 DEF Exit, OneProcess
    <3> QED
      BY <3>1 DEF Reached
  <2> QED
    BY <1>3, <2>1, <2>2, <2>3, <2>4 DEF Run
<1>4. ASSUME NEW p \in Procs, Work(p) PROVE Progress'
  <2>1. CASE Poll(p)
    <3>1. /\ wpc'[p] \in {"leaving", "lock"} /\ UNCHANGED <<doc, flag, owner, wtask>>
          /\ \A q \in Procs : q = p
      BY <2>1 DEF Poll, Step, OneProcess
    <3> QED
      BY <3>1 DEF Reached
  <2>2. CASE TryLock(p)
    <3>1. /\ wpc'[p] \in {"reread", "poll"} /\ UNCHANGED <<doc, flag, owner, wtask>>
          /\ \A q \in Procs : q = p
      BY <2>2 DEF TryLock, Step, OneProcess
    <3> QED
      BY <3>1 DEF Reached
  <2>3. CASE Reread(p)
    <3>1. UNCHANGED <<doc, flag, owner>> /\ \A q \in Procs : q = p
      BY <2>3 DEF Reread, OneProcess
    <3>2. CASE Queued = {}
      <4>1. wpc'[p] = "poll" /\ UNCHANGED wtask
        BY <2>3, <3>2 DEF Reread, Step
      <4> QED
        BY <3>1, <4>1 DEF Reached
    <3>3. CASE Queued # {}
      <4>1. PICK t \in Task : IsNextQueued(t) /\ wtask' = [wtask EXCEPT ![p] = t]
        BY <2>3, <3>3 DEF Reread
      <4>2. wpc'[p] = "open" /\ wtask'[p] = t
        BY <2>3, <3>3, <4>1 DEF Reread, Step
      <4>3. doc[t].status = "queued" /\ owner[t] = "none"
        BY <4>1 DEF IsNextQueued, Queued, Rows
      <4> QED
        BY <3>1, <4>2, <4>3 DEF Reached
    <3> QED
      BY <3>2, <3>3
  <2>4. CASE Open(p)
    <3>1. /\ wpc[p] = "open" /\ wpc'[p] = "claim" /\ UNCHANGED <<doc, flag, owner, wtask>>
          /\ \A q \in Procs : q = p
      BY <2>4 DEF Open, Step, OneProcess
    <3> QED
      BY <3>1 DEF Reached
  <2>5. CASE Claim(p)
    <3> DEFINE t == wtask[p]
    <3>1. /\ wpc[p] = "claim" /\ t \in Task /\ UNCHANGED <<flag, wtask>>
          /\ \A q \in Procs : q = p
      BY <2>5 DEF Claim, ClaimIf, Holding, OneProcess
    <3>2. owner[t] = "none" /\ doc[t].status # "absent"
      BY <3>1, TaskIsSome DEF Reached
    <3>3. ~flag[t] /\ doc[t].status # "running"
      BY <3>1, <3>2 DEF Rows
    <3>4. CASE doc[t].status = "queued" /\ NeverClaimed(t)
      <4>1. wpc'[p] = "begin" /\ SetStatus(t, "running")
        BY <2>5, <3>4 DEF Claim, ClaimIf, Step
      <4>2. doc'[t].status = "running"
        BY <3>1, <4>1, StatusSet, Statuses
      <4> QED
        BY <3>1, <4>1, <4>2 DEF Reached
    <3>5. CASE ~(doc[t].status = "queued" /\ NeverClaimed(t))
      <4>1. wpc'[p] = "finish" /\ UNCHANGED <<doc, owner>>
        BY <2>5, <3>5 DEF Claim, ClaimIf, Step
      <4>2. doc[t].status \notin Live
        BY <3>2, <3>3, <3>5 DEF NeverClaimed, Live
      <4> QED
        BY <3>1, <3>2, <3>3, <4>1, <4>2 DEF Reached
    <3> QED
      BY <3>4, <3>5
  <2>6. CASE RunRead(p)
    <3> DEFINE t == wtask[p]
    <3>1. /\ wpc[p] \in {"begin", "work", "end"} /\ t \in Task /\ flag[t] \in BOOLEAN
          /\ UNCHANGED <<doc, flag, owner, wtask>> /\ \A q \in Procs : q = p
      BY <2>6, SaveRuns DEF OneProcess
    <3>2. doc[t].status = "running"
      BY <3>1, TaskIsSome DEF Reached
    <3>3. ReadsCancelled(t) <=> flag[t]
      BY <3>1, <3>2 DEF ReadsCancelled, Live
    <3>4. \/ ReadsCancelled(t) /\ wpc' = [wpc EXCEPT ![p] = "ran"]
          \/ ~ReadsCancelled(t) /\ \E next \in WorkWriting : wpc' = [wpc EXCEPT ![p] = next]
      BY <2>6, SaveRuns
    <3>5. \/ flag[t] /\ wpc'[p] = "ran"
          \/ ~flag[t] /\ wpc'[p] \in WorkWriting
      BY <3>3, <3>4
    <3> QED
      BY <3>1, <3>2, <3>5 DEF Reached
  <2>7. CASE RunWrite(p)
    <3> DEFINE t == wtask[p]
    <3>1. /\ wpc[p] \in WorkWriting /\ UNCHANGED <<flag, owner, wtask>>
          /\ doc' = [doc EXCEPT ![t] = wdoc[p]] /\ wpc' = [wpc EXCEPT ![p] = AfterWrite[wpc[p]]]
      BY <2>7 DEF RunWrite, AfterWrite, Step
    <3>2. t \in Task /\ wdoc[p] \in Doc /\ \A q \in Procs : q = p
      BY <3>1 DEF Holding, Executing, OneProcess
    <3>3. ~flag[t] /\ owner[t] = p
      BY <3>1, <3>2, TaskIsSome DEF Reached, ExecutedTaskIsLeased, Executing
    <3>4. doc'[t] = wdoc[p] /\ wpc'[p] = AfterWrite[wpc[p]]
      BY <3>1, <3>2
    <3>5. \/ wpc'[p] \in {"work", "end"} /\ wdoc[p].status = "running"
          \/ /\ wpc'[p] \in {"ran", "raised"}
             /\ wdoc[p].status \in {"needs_review", "budget_exhausted", "failed"}
      BY <3>1, <3>4 DEF WorkerCopies, Finished, AfterWrite
    <3> QED
      BY <3>1, <3>2, <3>3, <3>4, <3>5 DEF Reached, Live
  <2>8. CASE RunEnds(p)
    <3>1. /\ wpc[p] = "ran" /\ wpc'[p] = "finish" /\ UNCHANGED <<doc, flag, owner, wtask>>
          /\ \A q \in Procs : q = p
      BY <2>8 DEF RunEnds, Step, OneProcess
    <3>2. owner[wtask[p]] = p
      BY <3>1 DEF ExecutedTaskIsLeased, Executing
    <3> QED
      BY <3>1, <3>2 DEF Reached
  <2>9. CASE FailRead(p)
    <3> DEFINE t == wtask[p]
    <3>1. /\ wpc[p] = "fail" /\ t \in Task /\ UNCHANGED <<doc, flag, owner, wtask>>
          /\ \A q \in Procs : q = p
      BY <2>9, FailReads DEF OneProcess
    <3>2. /\ owner[t] = p /\ doc[t].status # "absent" /\ flag[t] \in BOOLEAN
          /\ doc[t].status = "running" \/ (doc[t].status \notin Live /\ ~flag[t])
      BY <3>1, TaskIsSome DEF Reached, ExecutedTaskIsLeased, Executing
    <3>3. \/ wpc'[p] = "raised" /\ (doc[t].status \notin Live \/ flag[t])
          \/ wpc'[p] = "failWrite" /\ doc[t].status \in Live /\ ~flag[t]
      BY <2>9, FailReads
    <3> QED
      BY <3>1, <3>2, <3>3 DEF Reached
  <2>10. CASE Finish(p)
    <3> DEFINE t == wtask[p]
    <3>1. /\ wpc[p] \in {"finish", "raised", "raisedAgain"} /\ t \in Task
          /\ UNCHANGED <<flag, owner>> /\ \A q \in Procs : q = p
      BY <2>10 DEF Finish, FinishAs, AfterFinish, Locals, Holding, OneProcess
    <3>2. CASE wpc[p] = "finish"
      <4>1. wpc'[p] = "release" /\ UNCHANGED wtask
        BY <2>10, <3>2 DEF Finish, FinishAs, AfterFinish, Step
      <4>2. doc'[t].status # "absent"
        BY <3>1, Settling, TaskIsSome DEF Settled, SoleInv, QueueInv
      <4> QED
        BY <3>1, <4>1, <4>2 DEF Reached
    <3>3. CASE wpc[p] = "raised"
      <4>1. wpc'[p] = "raisedRelease" /\ UNCHANGED wtask /\ flag[t] \in BOOLEAN
        BY <2>10, <3>1, <3>3 DEF Finish, FinishAs, AfterFinish, Step
      <4>2. owner[t] \in {"none", p} /\ (flag[t] \/ doc[t].status \notin Live)
        BY <3>1, <3>3, TaskIsSome DEF Reached
      <4>3. CASE flag[t]
        <5>1. SetStatus(t, "cancelled")
          BY <2>10, <4>2, <4>3 DEF Finish, FinishAs
        <5>2. doc'[t].status = "cancelled"
          BY <3>1, <5>1, StatusSet, Statuses
        <5> QED
          BY <3>1, <4>1, <5>2 DEF Reached, Live
      <4>4. CASE ~flag[t]
        <5>1. UNCHANGED doc
          BY <2>10, <4>2, <4>4 DEF Finish, FinishAs
        <5> QED
          BY <3>1, <4>1, <4>2, <4>4, <5>1, TaskIsSome DEF Reached
      <4> QED
        BY <4>1, <4>3, <4>4
    <3>4. CASE wpc[p] = "raisedAgain"
      <4>1. wtask'[p] = NoTask
        BY <2>10, <3>4 DEF Finish, FinishAs, Forget
      <4> QED
        BY <3>1, <4>1
    <3> QED
      BY <3>1, <3>2, <3>3, <3>4
  <2>11. CASE ReleaseLock(p)
    <3>1. UNCHANGED <<doc, flag, owner>> /\ \A q \in Procs : q = p
      BY <2>11 DEF ReleaseLock, OneProcess
    <3>2. CASE wpc[p] = "release"
      <4>1. wtask'[p] = NoTask
        BY <2>11, <3>2 DEF ReleaseLock, Forget
      <4> QED
        BY <3>1, <4>1
    <3>3. CASE wpc[p] # "release"
      <4>1. wpc[p] = "raisedRelease" /\ wpc'[p] = "raisedAgain" /\ UNCHANGED wtask
        BY <2>11, <3>3 DEF ReleaseLock, Step
      <4> QED
        BY <3>1, <4>1 DEF Reached
    <3> QED
      BY <3>2, <3>3
  <2>12. CASE FutureDone(p)
    <3>1. /\ wpc'[p] = "callback" /\ UNCHANGED <<doc, flag, owner, wtask>>
          /\ \A q \in Procs : q = p
      BY <2>12 DEF FutureDone, Step, OneProcess
    <3> QED
      BY <3>1 DEF Reached
  <2>13. CASE WorkerFinished(p)
    <3>1. UNCHANGED <<doc, flag, owner, wtask>>
      BY <2>13 DEF WorkerFinished
    <3>2. StartWorker(p) \/ Step(p, "idle")
      BY <2>13 DEF WorkerFinished
    <3>3. \A q \in Procs : wpc'[q] = wpc[q] \/ wpc'[q] \in {"poll", "idle"}
      BY <3>2, StartsWorker DEF Step
    <3> QED
      BY <3>1, <3>3 DEF Reached
  <2> QED
    BY <1>4, <2>1, <2>2, <2>3, <2>4, <2>5, <2>6, <2>7, <2>8, <2>9, <2>10, <2>11,
       <2>12, <2>13
    DEF Work
<1>5. ASSUME NEW p \in Procs, Renew(p) PROVE Progress'
  BY <1>5, TaskIsSome DEF Renew
<1>6. ASSUME NEW r \in Req, Call(r) PROVE Progress'
  <2>1. CASE Create(r) \/ Resume(r)
    <3>1. PICK t \in Task : /\ doc[t].status = "absent" /\ doc'[t].status = "queued"
                            /\ \A u \in Task : u # t => doc'[u] = doc[u]
      BY <2>1, Inserts
    <3>2. UNCHANGED <<flag, owner, wpc, wtask>>
      BY <2>1, Inserts
    <3>3. \A q \in Procs : wtask[q] # NoTask => wtask[q] \in Task /\ wtask[q] # t
      BY <3>1
    <3> QED
      BY <3>1, <3>2, <3>3
  <2>2. ASSUME NEW t \in Task, Cancel(r, t) PROVE Progress'
    <3>1. /\ UNCHANGED <<owner, wpc, wtask>>
          /\ \A q \in Procs : wpc[q] \notin WorkWriting
      BY <2>2, QuietStore, HomeIsProc DEF Cancel
    <3>2. ASSUME NEW q \in Procs, wtask[q] # NoTask
          PROVE  /\ doc'[wtask[q]].status # "absent"
                 /\ Reached(wpc[q], doc'[wtask[q]].status, flag'[wtask[q]], owner[wtask[q]], q)
      <4> DEFINE u == wtask[q]
      <4>1. u \in Task
        BY <3>2
      <4>2. CASE doc[t].status = "queued" /\ SetStatus(t, "cancelled") /\ UNCHANGED flag
        <5>1. CASE u = t
          <6>1. doc'[u].status = "cancelled" /\ doc[u].status = "queued"
            BY <4>1, <4>2, <5>1, StatusSet, Statuses
          <6>2. Reached(wpc[q], "queued", flag[u], owner[u], q)
            BY <3>2, <6>1
          <6>3. Reached(wpc[q], "cancelled", flag[u], owner[u], q)
            BY <6>2, <3>1 DEF Reached, Live
          <6> QED
            BY <4>2, <6>1, <6>3
        <5>2. CASE u # t
          BY <3>2, <4>1, <4>2, <5>2, StatusSet, Statuses
        <5> QED
          BY <5>1, <5>2
      <4>3. CASE /\ doc[t].status \in Live /\ UNCHANGED doc
                 /\ flag' = [flag EXCEPT ![t] = TRUE]
        <5>1. CASE u = t
          <6>1. flag'[u] = TRUE /\ doc[u].status \in Live
            BY <4>1, <4>3, <5>1
          <6>2. Reached(wpc[q], doc[u].status, TRUE, owner[u], q)
            BY <3>1, <3>2, <6>1 DEF Reached
          <6> QED
            BY <3>2, <4>3, <6>1, <6>2
        <5>2. CASE u # t
          BY <3>2, <4>1, <4>3, <5>2
        <5> QED
          BY <5>1, <5>2
      <4> QED
        BY <2>2, <4>2, <4>3 DEF Cancel
    <3> QED
      BY <3>1, <3>2
  <2>3. ASSUME NEW t \in Task, RecoverRead(r, t) PROVE Progress'
    BY <2>3, TaskIsSome DEF RecoverRead, Goto
  <2> QED
    BY <1>6, <2>1, <2>2, <2>3 DEF Call
<1>7. ASSUME NEW r \in Req, Answer(r) PROVE Progress'
  <2>1. CASE SaveRead(r)
    <3>1. UNCHANGED <<doc, flag, owner, wpc, wtask>>
      BY <2>1, SaveReads
    <3> QED
      BY <3>1
  <2>2. CASE SaveWrite(r)
    <3>1. UNCHANGED <<flag, owner, wpc, wtask>>
      BY <2>2 DEF SaveWrite
    <3>2. rtask[r] \in Task /\ rdoc[r] = doc[rtask[r]]
      BY <2>2 DEF SaveWrite, RequestCopies, ReqWriting, Locals
    <3>3. \A t \in Task : doc'[t].status = doc[t].status
      BY <2>2, <3>2, Documents DEF SaveWrite
    <3> QED
      BY <3>1, <3>3
  <2>3. CASE Submit(r)
    <3>1. /\ \A q \in Procs : wpc'[q] = wpc[q] \/ wpc'[q] = "poll"
          /\ UNCHANGED <<doc, flag, owner, wtask>>
      BY <2>3, StartsWorker, HomeIsProc DEF Submit
    <3> QED
      BY <3>1 DEF Reached
  <2>4. CASE RecoverLock(r)
    BY <2>4, TaskIsSome DEF RecoverLock, Return, Goto
  <2>5. CASE RecoverWrite(r)
    <3>1. UNCHANGED <<flag, owner, wpc, wtask>> /\ rtask[r] \in Task
      BY <2>5 DEF RecoverWrite, Locals
    <3>2. \A q \in Procs : wpc[q] \notin Holding
      BY <2>5, OneHolder DEF RecoverWrite
    <3>3. CASE Expired(rtask[r])
      <4>1. PICK s \in {"cancelled", "interrupted"} : SetStatus(rtask[r], s)
        BY <2>5, <3>3 DEF RecoverWrite
      <4>2. doc'[rtask[r]].status = s /\ \A u \in Task : u # rtask[r] => doc'[u] = doc[u]
        BY <3>1, <4>1, StatusSet, Statuses
      <4>3. doc[rtask[r]].status \in Live
        BY <3>3 DEF Expired
      <4>4. ASSUME NEW q \in Procs, wtask[q] # NoTask
            PROVE  /\ doc'[wtask[q]].status # "absent"
                   /\ Reached(wpc[q], doc'[wtask[q]].status, flag[wtask[q]], owner[wtask[q]], q)
        <5>1. CASE wtask[q] = rtask[r]
          BY <3>2, <4>2, <4>3, <4>4, <5>1 DEF Reached, Holding, Executing
        <5>2. CASE wtask[q] # rtask[r]
          BY <4>2, <4>4, <5>2
        <5> QED
          BY <5>1, <5>2
      <4> QED
        BY <3>1, <4>4
    <3>4. CASE ~Expired(rtask[r])
      <4>1. UNCHANGED doc
        BY <2>5, <3>4 DEF RecoverWrite
      <4> QED
        BY <3>1, <4>1
    <3> QED
      BY <3>3, <3>4
  <2> QED
    BY <1>7, <2>1, <2>2, <2>3, <2>4, <2>5 DEF Answer
<1>8. ASSUME NEW t \in Task, LeaseLapse(t) PROVE Progress'
  BY <1>8, TaskIsSome DEF LeaseLapse
<1> QED
  BY <1>1, <1>2, <1>3, <1>4, <1>5, <1>6, <1>7, <1>8 DEF Next

-----------------------------------------------------------------------------
(* SoleInv is an inductive invariant when one process uses the store. *)
LEMMA SoleInvariant == OneProcess /\ Spec => []SoleInv
<1> SUFFICES ASSUME OneProcess PROVE Spec => []SoleInv
  OBVIOUS
<1>1. Init => StoreLock /\ RequestCopies /\ WorkerCopies /\ StartCopies /\ Created
  BY DEF Init, StoreLock, RequestCopies, WorkerCopies, StartCopies, Created, ReqWriting,
         WorkWriting
<1>2. Init => Rows /\ Progress
  BY DEF Init, Rows, Progress, Blank
<1>3. SoleInv /\ QueueInv' /\ [Next]_vars => SoleInv'
  BY StoreLocking, RequestCopying, WorkerCopying, StartCopying, Creating, RowKeeping,
     Progressing DEF SoleInv, QueueInv
<1>4. Init /\ QueueInv => SoleInv
  BY <1>1, <1>2 DEF SoleInv
<1> QED
  BY <1>3, <1>4, QueueInvariant, PTL DEF Spec

(* A queued document has never had an executor: no late save of one process
   turns a task that was claimed back into a queued one. *)
THEOREM NoExecutorWhileQueued == OneProcess /\ Spec => []QueuedHasNoExecutor
<1>1. SoleInv => QueuedHasNoExecutor
  BY DEF SoleInv, Rows, QueuedHasNoExecutor
<1> QED
  BY <1>1, SoleInvariant, PTL

(* A cancel request is the outcome of the task as soon as nobody holds its
   lease, by whichever way the execution ended. *)
THEOREM CancelBecomesOutcome == OneProcess /\ Spec => []CancelIsHonoured
<1>1. SoleInv => CancelIsHonoured
  BY DEF SoleInv, Rows, CancelIsHonoured
<1> QED
  BY <1>1, SoleInvariant, PTL

(* No step of a process that is alone turns the outcome of a task into another
   one: not a late save, the end of an execution, a recovery or a restart. *)
THEOREM OutcomeStays == OneProcess /\ Spec => OutcomeIsFinal
<1> SUFFICES ASSUME OneProcess PROVE Spec => OutcomeIsFinal
  OBVIOUS
<1>1. SoleInv /\ [Next]_vars =>
        \A t \in Task : doc[t].status \notin Live \union {"absent"}
                         => doc'[t].status = doc[t].status
  BY Settling DEF Settled
<1> QED
  BY <1>1, SoleInvariant, PTL DEF OutcomeIsFinal, Spec

(* The scope frozen at creation stays in the document, whatever is saved after
   it: what two processes that share the store can lose. *)
THEOREM ScopeStays == OneProcess /\ Spec => ScopeIsKept
<1> SUFFICES ASSUME OneProcess PROVE Spec => ScopeIsKept
  OBVIOUS
<1>1. SoleInv /\ [Next]_vars => \A t \in Task : doc[t].scoped => doc'[t].scoped
  BY Settling DEF Settled
<1> QED
  BY <1>1, SoleInvariant, PTL DEF ScopeIsKept, Spec

-----------------------------------------------------------------------------
(* The audit queue of one process implements ExclusiveQueue.               *)

\* Rows are filled from the first one on, a row that is not there has no scope,
\* nothing older waits than the task a worker is about to claim, and a start
\* interrupts no task that waits.
Ordered ==
  /\ \A t \in Task : doc[t].status = "absent" =>
       /\ ~doc[t].scoped
       /\ \A u \in Task : t < u => doc[u].status = "absent"
  /\ \A p \in Procs : wpc[p] \in {"open", "claim"} =>
       \A t \in Task : t < wtask[p] => doc[t].status # "queued"
  /\ \A p \in Procs : ppc[p] = "markWrite" =>
       \A t \in Task : found[p][t] # Blank => doc[t].status # "queued"

OrderInv == SoleInv /\ Ordered

\* No row is inserted, and no task waits that did not.
NoArrival ==
  \A t \in Task : /\ doc[t].status = "absent" => doc'[t] = doc[t]
                  /\ doc[t].status # "absent" => doc'[t].status # "absent"
                  /\ doc'[t].status = "queued" => doc[t].status = "queued"

\* Nor does one that waits stop waiting.
SameRows ==
  NoArrival /\ \A t \in Task : doc[t].status = "queued" => doc'[t].status = "queued"

\* No worker begins or ends an execution.
SameExecution ==
  \A p \in Procs : /\ wpc'[p] \in Executing <=> wpc[p] \in Executing
                   /\ wpc[p] \in Executing => wtask'[p] = wtask[p]

\* The steps of the queue that are seen from outside: a row comes, a task is
\* claimed, an execution ends, a task is closed by another thread.
Comes == \E r \in Req : Create(r) \/ Resume(r)
Taken(p) ==
  /\ wpc[p] = "claim" /\ doc[wtask[p]].status = "queued"
  /\ SetStatus(wtask[p], "running")
  /\ Step(p, "begin")
  /\ UNCHANGED wtask
Ends(p) == wpc[p] \in Executing /\ wpc'[p] \notin Executing /\ SameRows
Closed(t) ==
  /\ doc[t].status # "absent" /\ doc'[t].status \notin {"absent", "queued"}
  /\ \A u \in Task : u # t => doc'[u] = doc[u]
  /\ UNCHANGED <<wpc, wtask>>

Seen ==
  \/ Comes
  \/ \E p \in Procs : Taken(p) \/ Ends(p)
  \/ \E t \in Task : Closed(t)
  \/ SameRows /\ SameExecution

(* A worker that executes a task has one, and the task does not wait. *)
LEMMA ExecutedTask ==
  ASSUME SoleInv, NEW p \in Procs, wpc[p] \in Executing
  PROVE  wtask[p] \in Task /\ doc[wtask[p]].status \notin {"absent", "queued"}
<1>1. wtask[p] \in Task /\ wtask[p] # NoTask
  BY TaskIsSome DEF SoleInv, QueueInv, TypeOK, Holding, Executing
<1> QED
  BY <1>1 DEF SoleInv, Progress, Reached, Executing, WorkWriting, Live

(* Saving one document whose task neither waits nor is absent, as neither. *)
LEMMA SavedOver ==
  ASSUME NEW t \in Task, doc[t].status \notin {"absent", "queued"},
         doc'[t].status \notin {"absent", "queued"},
         \A u \in Task : u # t => doc'[u] = doc[u]
  PROVE  SameRows
  BY DEF SameRows, NoArrival

LEMMA SameDocs == UNCHANGED doc => SameRows
  BY DEF SameRows, NoArrival

(* The steps of a worker. *)
LEMMA WorkSeen ==
  ASSUME OneProcess, SoleInv, NEW p \in Procs, Work(p)
  PROVE  Seen
<1>1. TypeOK /\ Locals
  BY DEF SoleInv, QueueInv
<1>2. \A q \in Procs : q = p
  BY DEF OneProcess
<1> USE DEF runtime, process, request
<1>3. CASE Poll(p) \/ TryLock(p) \/ Open(p) \/ FutureDone(p)
  <2>1. UNCHANGED doc /\ wpc[p] \notin Executing /\ wpc'[p] \notin Executing
    BY <1>1, <1>3 DEF Poll, TryLock, Open, FutureDone, Step, TypeOK, Executing
  <2> QED
    BY <1>2, <2>1, SameDocs DEF Seen, SameExecution
<1>4. CASE Reread(p) \/ ReleaseLock(p)
  <2>1. UNCHANGED doc /\ wpc[p] \notin Executing /\ wpc'[p] \notin Executing
    BY <1>1, <1>4 DEF Reread, ReleaseLock, Step, TypeOK, Executing
  <2> QED
    BY <1>2, <2>1, SameDocs DEF Seen, SameExecution
<1>5. CASE WorkerFinished(p)
  <2>1. UNCHANGED doc /\ wpc[p] \notin Executing
    BY <1>5 DEF WorkerFinished, Executing
  <2>2. wpc'[p] \notin Executing
    BY <1>1, <1>5, StartsWorker DEF WorkerFinished, Step, TypeOK, Executing
  <2> QED
    BY <1>2, <2>1, <2>2, SameDocs DEF Seen, SameExecution
<1>6. CASE Claim(p)
  <2>1. wpc[p] = "claim"
    BY <1>6 DEF Claim, ClaimIf
  <2>2. CASE Taken(p)
    BY <2>2 DEF Seen
  <2>3. CASE UNCHANGED doc /\ Step(p, "finish")
    <3>1. wpc[p] \notin Executing /\ wpc'[p] \notin Executing
      BY <1>1, <2>1, <2>3 DEF Step, TypeOK, Executing
    <3> QED
      BY <1>2, <2>3, <3>1, SameDocs DEF Seen, SameExecution
  <2> QED
    BY <1>6, <2>1, <2>2, <2>3 DEF Claim, ClaimIf, Taken
<1>7. CASE RunRead(p)
  <2>1. UNCHANGED <<doc, wtask>> /\ wpc[p] \in Executing
    BY <1>1, <1>7, SaveRuns DEF Executing
  <2>2. wpc'[p] \in Executing
    BY <1>1, <1>7, SaveRuns DEF Executing, WorkWriting, TypeOK
  <2> QED
    BY <1>2, <2>1, <2>2, SameDocs DEF Seen, SameExecution
<1>8. CASE RunEnds(p)
  <2>1. UNCHANGED doc /\ wpc[p] \in Executing /\ wpc'[p] \notin Executing
    BY <1>1, <1>8 DEF RunEnds, Step, TypeOK, Executing
  <2> QED
    BY <2>1, SameDocs DEF Seen, Ends
<1>9. CASE FailRead(p)
  <2>1. UNCHANGED <<doc, wtask>> /\ wpc[p] \in Executing
    BY <1>1, <1>9, FailReads DEF Executing
  <2>2. CASE wpc'[p] \in Executing
    BY <1>2, <2>1, <2>2, SameDocs DEF Seen, SameExecution
  <2>3. CASE wpc'[p] \notin Executing
    BY <2>1, <2>3, SameDocs DEF Seen, Ends
  <2> QED
    BY <2>2, <2>3
<1>10. CASE RunWrite(p)
  <2> DEFINE t == wtask[p]
  <2>1. wpc[p] \in WorkWriting /\ wpc[p] \in Executing
    BY <1>10 DEF RunWrite, AfterWrite, WorkWriting, Executing
  <2>2. t \in Task /\ doc[t].status \notin {"absent", "queued"}
    BY <2>1, ExecutedTask
  <2>3. wdoc[p].status \notin {"absent", "queued"}
    BY <2>1 DEF SoleInv, WorkerCopies, WorkWriting, Finished
  <2>4. doc'[t] = wdoc[p] /\ \A u \in Task : u # t => doc'[u] = doc[u]
    BY <1>1, <1>10, <2>2 DEF RunWrite, TypeOK
  <2>5. SameRows /\ UNCHANGED wtask
    BY <1>10, <2>2, <2>3, <2>4, SavedOver DEF RunWrite
  <2> QED
    BY <1>2, <2>1, <2>5 DEF Seen, SameExecution, Ends
<1>11. CASE Finish(p)
  <2> DEFINE t == wtask[p]
  <2>1. wpc[p] \in {"finish", "raised", "raisedAgain"} /\ t \in Task
    BY <1>1, <1>11 DEF Finish, FinishAs, AfterFinish, TypeOK, Locals, Holding, Executing
  <2>2. wpc[p] \notin Executing /\ wpc'[p] \notin Executing
    BY <1>1, <1>11, <2>1 DEF Finish, FinishAs, AfterFinish, Step, TypeOK, Executing
  <2>3. doc[t].status \notin {"absent", "queued"}
    BY <2>1, TaskIsSome DEF SoleInv, Progress, Reached, Live
  <2>4. CASE UNCHANGED doc
    BY <1>2, <2>2, <2>4, SameDocs DEF Seen, SameExecution
  <2>5. CASE SetStatus(t, "cancelled")
    <3>1. SameRows
      BY <1>1, <2>1, <2>3, <2>5, StatusSet, Statuses, SavedOver
    <3> QED
      BY <1>2, <2>2, <3>1 DEF Seen, SameExecution
  <2> QED
    BY <1>11, <2>4, <2>5 DEF Finish, FinishAs
<1> QED
  BY <1>3, <1>4, <1>5, <1>6, <1>7, <1>8, <1>9, <1>10, <1>11 DEF Work

(* A step that starts or ends no execution and touches no document. *)
LEMMA Unseen ==
  ASSUME UNCHANGED <<doc, wpc, wtask>>
  PROVE  Seen
  BY SameDocs DEF Seen, SameExecution

(* Every step is one of those that are seen from outside, or is not seen. *)
LEMMA EveryStep == OneProcess /\ OrderInv /\ [Next]_vars => Seen
<1> SUFFICES ASSUME OneProcess, SoleInv, Ordered, [Next]_vars PROVE Seen
  BY DEF OrderInv
<1>1. TypeOK /\ Locals /\ Lives /\ LockDiscipline
  BY DEF SoleInv, QueueInv
<1> USE DEF runtime, process, request, worker
<1>2. CASE UNCHANGED vars
  BY <1>2, Unseen DEF vars
<1>3. ASSUME NEW p \in Procs, Start(p) \/ Crash(p) \/ Close(p) \/ Trouble(p) PROVE Seen
  <2>1. CASE Start(p) \/ Close(p)
    BY <2>1, Unseen DEF Start, Close
  <2>2. CASE Crash(p)
    <3>1. UNCHANGED doc /\ wpc'[p] \notin Executing /\ \A q \in Procs : q = p
      BY <1>1, <2>2 DEF Crash, Step, TypeOK, Executing, OneProcess
    <3> QED
      BY <3>1, SameDocs DEF Seen, SameExecution, Ends
  <2>3. CASE OpenFails(p) \/ RunRaises(p)
    <3>1. UNCHANGED doc /\ \A q \in Procs : q = p
      BY <2>3 DEF OpenFails, RunRaises, OneProcess
    <3>2. \/ wpc[p] \notin Executing /\ wpc'[p] \notin Executing
          \/ wpc[p] \in Executing /\ wpc'[p] \in Executing /\ UNCHANGED wtask
      BY <1>1, <2>3 DEF OpenFails, RunRaises, Step, TypeOK, Executing
    <3> QED
      BY <3>1, <3>2, SameDocs DEF Seen, SameExecution
  <2> QED
    BY <1>3, <2>1, <2>2, <2>3 DEF Trouble
<1>4. ASSUME NEW p \in Procs, Run(p) PROVE Seen
  <2>1. CASE Boot(p) \/ MarkRead(p) \/ Exit(p)
    BY <2>1, Unseen DEF Boot, MarkRead, Exit
  <2>2. CASE Kick(p)
    <3>1. UNCHANGED <<doc, wtask>> /\ \A q \in Procs : q = p
      BY <2>2 DEF Kick, OneProcess
    <3>2. wpc[p] \notin Executing /\ wpc'[p] \notin Executing
      BY <1>1, <2>2, StartsWorker DEF Kick, Lives, Starting, Executing
    <3> QED
      BY <3>1, <3>2, SameDocs DEF Seen, SameExecution
  <2>3. CASE MarkWrite(p)
    <3>1. UNCHANGED <<wpc, wtask>> /\ ppc[p] = "markWrite"
      BY <2>3 DEF MarkWrite
    <3>2. \A t \in Task : doc'[t] = IF found[p][t] # Blank THEN found[p][t] ELSE doc[t]
      BY <2>3 DEF MarkWrite
    <3>3. ASSUME NEW t \in Task, found[p][t] # Blank
          PROVE  /\ doc[t].status \notin {"absent", "queued"}
                 /\ found[p][t].status \notin {"absent", "queued"}
      <4>1. doc[t].status \in Live /\ doc[t].status # "queued"
        BY <3>1, <3>3 DEF SoleInv, StartCopies, Ordered
      <4>2. PICK s \in {"cancelled", "interrupted"} : found[p][t] = WithStatus(doc[t], s)
        BY <3>1, <3>3 DEF SoleInv, StartCopies
      <4>3. doc[t] \in Doc /\ s \in Status
        BY <1>1, Statuses DEF TypeOK
      <4>4. found[p][t].status = s
        BY <4>2, <4>3, Documents
      <4> QED
        BY <4>1, <4>4 DEF Live
    <3>4. SameRows
      BY <3>2, <3>3 DEF SameRows, NoArrival
    <3> QED
      BY <3>1, <3>4 DEF Seen, SameExecution
  <2> QED
    BY <1>4, <2>1, <2>2, <2>3 DEF Run
<1>5. ASSUME NEW p \in Procs, Work(p) PROVE Seen
  BY <1>5, WorkSeen
<1>6. ASSUME NEW p \in Procs, Renew(p) PROVE Seen
  BY <1>6, Unseen DEF Renew
<1>7. ASSUME NEW r \in Req, Call(r) PROVE Seen
  <2>1. CASE Create(r) \/ Resume(r)
    BY <2>1 DEF Seen, Comes
  <2>2. ASSUME NEW t \in Task, Cancel(r, t) PROVE Seen
    <3>1. UNCHANGED <<wpc, wtask>>
      BY <2>2 DEF Cancel
    <3>2. CASE UNCHANGED doc
      BY <3>1, <3>2, Unseen
    <3>3. CASE doc[t].status = "queued" /\ SetStatus(t, "cancelled")
      <4>1. Closed(t)
        BY <1>1, <3>1, <3>3, StatusSet, Statuses DEF Closed
      <4> QED
        BY <4>1 DEF Seen
    <3> QED
      BY <2>2, <3>2, <3>3 DEF Cancel
  <2>3. ASSUME NEW t \in Task, RecoverRead(r, t) PROVE Seen
    BY <2>3, Unseen DEF RecoverRead
  <2> QED
    BY <1>7, <2>1, <2>2, <2>3 DEF Call
<1>8. ASSUME NEW r \in Req, Answer(r) PROVE Seen
  <2>1. CASE SaveRead(r)
    BY <1>1, <2>1, SaveReads, Unseen
  <2>2. CASE SaveWrite(r)
    <3> DEFINE t == rtask[r]
    <3>1. UNCHANGED <<wpc, wtask>> /\ rpc[r] \in ReqWriting
      BY <2>2 DEF SaveWrite, ReqWriting
    <3>2. t \in Task /\ rdoc[r] = doc[t] /\ doc[t].status # "absent"
      BY <1>1, <3>1 DEF SoleInv, RequestCopies, Created, Locals, TypeOK, ReqWriting
    <3>3. doc'[t].status = doc[t].status /\ \A u \in Task : u # t => doc'[u] = doc[u]
      BY <1>1, <2>2, <3>2, Documents DEF SaveWrite, TypeOK
    <3>4. SameRows
      BY <3>2, <3>3 DEF SameRows, NoArrival
    <3> QED
      BY <3>1, <3>4 DEF Seen, SameExecution
  <2>3. CASE Submit(r)
    <3>1. UNCHANGED <<doc, wtask>>
      BY <2>3 DEF Submit
    <3>2. \A q \in Procs : wpc'[q] \in Executing <=> wpc[q] \in Executing
      BY <1>1, <2>3, StartsWorker, HomeIsProc DEF Submit, Executing
    <3> QED
      BY <3>1, <3>2, SameDocs DEF Seen, SameExecution
  <2>4. CASE RecoverLock(r)
    BY <2>4, Unseen DEF RecoverLock
  <2>5. CASE RecoverWrite(r)
    <3> DEFINE t == rtask[r]
    <3>1. UNCHANGED <<wpc, wtask>> /\ t \in Task
      BY <1>1, <2>5 DEF RecoverWrite, Locals, TypeOK
    <3>2. CASE UNCHANGED doc
      BY <3>1, <3>2, Unseen
    <3>3. CASE Expired(t)
      <4>1. PICK s \in {"cancelled", "interrupted"} : SetStatus(t, s)
        BY <2>5, <3>3 DEF RecoverWrite
      <4>2. Closed(t)
        BY <1>1, <3>1, <3>3, <4>1, StatusSet, Statuses DEF Closed, Expired, Live
      <4> QED
        BY <3>1, <4>2 DEF Seen
    <3> QED
      BY <2>5, <3>2, <3>3 DEF RecoverWrite
  <2> QED
    BY <1>8, <2>1, <2>2, <2>3, <2>4, <2>5 DEF Answer
<1>9. ASSUME NEW t \in Task, LeaseLapse(t) PROVE Seen
  BY <1>9, Unseen DEF LeaseLapse
<1> QED
  BY <1>2, <1>3, <1>4, <1>5, <1>6, <1>7, <1>8, <1>9 DEF Next

(* An insert takes the first row that is not there. *)
LEMMA InsertsNext ==
  ASSUME TypeOK, Ordered, NEW r \in Req, Create(r) \/ Resume(r)
  PROVE  \E t \in Task :
           /\ doc[t].status = "absent" /\ doc'[t].status = "queued"
           /\ \A u \in Task : u # t => doc'[u] = doc[u]
           /\ \A u \in Task : u < t => doc[u].status # "absent"
<1>1. Insert(r)
  BY DEF Create, Resume
<1>2. PICK t \in Task : /\ doc[t] = Blank /\ \A u \in 1..(t - 1) : doc[u] # Blank
                        /\ SetStatus(t, "queued")
  BY <1>1 DEF Insert
<1>3. doc[t].status = "absent" /\ doc'[t].status = "queued"
  BY <1>2, Documents, StatusSet, Statuses
<1>4. \A u \in Task : u # t => doc'[u] = doc[u]
  BY <1>2, StatusSet, Statuses
<1>5. ASSUME NEW u \in Task, u < t PROVE doc[u].status # "absent"
  <2>1. doc[u] # Blank /\ doc[u] \in Doc
    BY <1>2, <1>5 DEF Task, TypeOK
  <2>2. doc[u].status = "absent" => ~doc[u].scoped
    BY DEF Ordered
  <2> QED
    BY <2>1, <2>2 DEF Doc, Blank
<1> QED
  BY <1>3, <1>4, <1>5

(* A worker that comes to claim a task was there before, or has just read which
   is the oldest. *)
LEMMA Choosing ==
  ASSUME OneProcess, TypeOK, Lives, [Next]_vars, NEW p \in Procs,
         wpc'[p] \in {"open", "claim"}
  PROVE  /\ wtask'[p] \in Task
         /\ \/ wpc[p] \in {"open", "claim"} /\ wtask'[p] = wtask[p]
            \/ IsNextQueued(wtask'[p]) /\ UNCHANGED doc
<1> USE DEF runtime, process, request, worker
<1>1. \A q \in Procs : q = p
  BY DEF OneProcess
<1>2. CASE UNCHANGED vars \/ \E q \in Procs : Start(q) \/ Close(q) \/ Renew(q)
             \/ Boot(q) \/ MarkRead(q) \/ MarkWrite(q) \/ Exit(q)
  <2>1. UNCHANGED <<wpc, wtask>>
    BY <1>2 DEF vars, Start, Close, Renew, Boot, MarkRead, MarkWrite, Exit
  <2> QED
    BY <2>1 DEF TypeOK, Holding
<1>3. CASE Crash(p) \/ OpenFails(p) \/ RunRaises(p)
  BY <1>3 DEF Crash, OpenFails, RunRaises, Step, TypeOK
<1>4. CASE Kick(p) \/ WorkerFinished(p)
  <2>1. wpc'[p] \in {"poll", "idle"} \/ (wpc'[p] = wpc[p] /\ UNCHANGED wtask)
    BY <1>4, StartsWorker DEF Kick, WorkerFinished, Step, TypeOK
  <2> QED
    BY <2>1 DEF TypeOK, Holding
<1>5. CASE Poll(p) \/ TryLock(p) \/ FutureDone(p) \/ ReleaseLock(p) \/ RunEnds(p)
  BY <1>5 DEF Poll, TryLock, FutureDone, ReleaseLock, RunEnds, Step, TypeOK
<1>6. CASE Open(p)
  BY <1>6 DEF Open, Step, TypeOK, Holding
<1>7. CASE Reread(p)
  BY <1>7 DEF Reread, Step, TypeOK
<1>8. CASE Claim(p)
  BY <1>8 DEF Claim, ClaimIf, Step, TypeOK
<1>9. CASE RunRead(p)
  BY <1>9, SaveRuns DEF WorkWriting, TypeOK
<1>10. CASE FailRead(p)
  BY <1>10, FailReads DEF TypeOK
<1>11. CASE RunWrite(p)
  BY <1>11 DEF RunWrite, AfterWrite, Step, TypeOK
<1>12. CASE Finish(p)
  BY <1>12 DEF Finish, FinishAs, AfterFinish, Step, TypeOK
<1>13. ASSUME NEW r \in Req, Call(r)
       PROVE  UNCHANGED <<wpc, wtask>>
  BY <1>13, Inserts DEF Call, Cancel, RecoverRead
<1>14. ASSUME NEW r \in Req, Answer(r)
       PROVE  /\ UNCHANGED wtask
              /\ wpc'[p] = wpc[p] \/ wpc'[p] = "poll"
  <2>1. CASE Submit(r)
    BY <2>1, StartsWorker, HomeIsProc DEF Submit
  <2>2. CASE SaveRead(r)
    BY <2>2 DEF SaveRead, ReadToSave
  <2>3. CASE SaveWrite(r) \/ RecoverLock(r) \/ RecoverWrite(r)
    BY <2>3 DEF SaveWrite, RecoverLock, RecoverWrite
  <2> QED
    BY <1>14, <2>1, <2>2, <2>3 DEF Answer
<1>15. CASE \E r \in Req : Call(r) \/ Answer(r)
  BY <1>13, <1>14, <1>15 DEF TypeOK, Holding
<1>16. CASE \E t \in Task : LeaseLapse(t)
  BY <1>16 DEF LeaseLapse, TypeOK, Holding
<1> QED
  BY <1>1, <1>2, <1>3, <1>4, <1>5, <1>6, <1>7, <1>8, <1>9, <1>10, <1>11, <1>12, <1>15, <1>16
  DEF Next, Run, Work, Trouble

(* What a step that is no insert does to the rows. *)
LEMMA NoneArrives ==
  ASSUME TypeOK, Locals, Seen, ~Comes
  PROVE  NoArrival
<1>1. ASSUME NEW p \in Procs, Taken(p) PROVE NoArrival
  <2>1. wtask[p] \in Task
    BY <1>1 DEF Taken, TypeOK, Holding
  <2>2. /\ doc[wtask[p]].status = "queued" /\ doc'[wtask[p]].status = "running"
        /\ \A u \in Task : u # wtask[p] => doc'[u] = doc[u]
    BY <1>1, <2>1, StatusSet, Statuses DEF Taken
  <2> QED
    BY <2>1, <2>2 DEF NoArrival
<1>2. ASSUME NEW t \in Task, Closed(t) PROVE NoArrival
  BY <1>2 DEF Closed, NoArrival
<1> QED
  BY <1>1, <1>2 DEF Seen, Ends, SameRows

(* A start puts no waiting task on its list of rows to interrupt. *)
LEMMA Interrupting ==
  ASSUME OneProcess, SoleInv, Ordered, [Next]_vars, NEW p \in Procs,
         ppc'[p] = "markWrite", NEW t \in Task, found'[p][t] # Blank
  PROVE  doc'[t].status # "queued"
<1>1. TypeOK /\ Locals /\ Lives /\ Rows
  BY DEF SoleInv, QueueInv
<1>2. CASE ppc[p] = "markWrite" /\ UNCHANGED found
  <2>1. doc[t].status # "queued"
    BY <1>2 DEF Ordered
  <2>2. \A r \in Req : ppc[Home(r)] # "up"
    BY <1>2, HomeIsProc DEF OneProcess
  <2>3. ~Comes
    BY <1>1, <2>2, Inserts DEF Comes
  <2>4. NoArrival
    BY <1>1, <2>3, EveryStep, NoneArrives DEF OrderInv
  <2> QED
    BY <2>1, <2>4 DEF NoArrival
<1>3. CASE MarkRead(p)
  <2>1. UNCHANGED doc
    BY <1>3 DEF MarkRead, runtime
  <2>2. doc[t].status = "queued" => ~flag[t]
    BY <1>1 DEF Rows
  <2>3. doc[t].status = "queued" => found'[p][t] = Blank
    BY <1>1, <1>3, <2>2 DEF MarkRead, TypeOK
  <2> QED
    BY <2>1, <2>3
<1>4. (ppc[p] = "markWrite" /\ UNCHANGED found) \/ MarkRead(p)
  <2> USE DEF runtime, process, request, worker
  <2>1. \A q \in Procs : q = p
    BY DEF OneProcess
  <2>2. CASE UNCHANGED vars
    BY <2>2 DEF vars
  <2>3. CASE Start(p) \/ Crash(p) \/ Close(p) \/ Trouble(p)
    BY <1>1, <2>3 DEF Start, Crash, Close, Trouble, OpenFails, RunRaises, Move, TypeOK
  <2>4. CASE Boot(p) \/ MarkWrite(p) \/ Kick(p) \/ Exit(p)
    BY <1>1, <2>4 DEF Boot, MarkWrite, Kick, Exit, Move, TypeOK
  <2>5. CASE Work(p)
    BY <1>1, <2>5, SaveRuns, FailReads
    DEF Work, Poll, TryLock, Reread, Open, Claim, ClaimIf, RunWrite, RunEnds,
        Finish, FinishAs, ReleaseLock, FutureDone, WorkerFinished
  <2>6. CASE Renew(p) \/ \E u \in Task : LeaseLapse(u)
    BY <2>6 DEF Renew, LeaseLapse
  <2>7. ASSUME NEW r \in Req, Call(r) \/ Answer(r)
        PROVE  ppc[p] = "markWrite" /\ UNCHANGED found
    BY <1>1, <2>7, Inserts, SaveReads
    DEF Call, Answer, Cancel, RecoverRead, SaveWrite, Submit, RecoverLock, RecoverWrite
  <2> QED
    BY <2>1, <2>2, <2>3, <2>4, <2>5, <2>6, <2>7 DEF Next, Run
<1> QED
  BY <1>2, <1>3, <1>4

LEMMA Ordering == OneProcess /\ OrderInv /\ [Next]_vars => Ordered'
<1> SUFFICES ASSUME OneProcess, SoleInv, Ordered, [Next]_vars PROVE Ordered'
  BY DEF OrderInv
<1>1. TypeOK /\ Locals /\ Lives
  BY DEF SoleInv, QueueInv
<1>2. CASE Comes
  <2>1. PICK r \in Req : Create(r) \/ Resume(r)
    BY <1>2 DEF Comes
  <2>2. PICK t \in Task :
           /\ doc[t].status = "absent" /\ doc'[t].status = "queued"
           /\ \A u \in Task : u # t => doc'[u] = doc[u]
           /\ \A u \in Task : u < t => doc[u].status # "absent"
    BY <1>1, <2>1, InsertsNext
  <2>3. UNCHANGED <<wpc, wtask>>
    BY <1>1, <2>1, Inserts
  <2>4. ASSUME NEW u \in Task, doc'[u].status = "absent"
        PROVE  ~doc'[u].scoped /\ \A v \in Task : u < v => doc'[v].status = "absent"
    <3>1. u # t /\ doc'[u] = doc[u] /\ doc[u].status = "absent"
      BY <2>2, <2>4
    <3>2. t < u
      BY <2>2, <3>1 DEF Task
    <3> QED
      BY <2>2, <3>1, <3>2 DEF Ordered, Task
  <2>5. ASSUME NEW p \in Procs, wpc'[p] \in {"open", "claim"},
               NEW u \in Task, u < wtask'[p]
        PROVE  doc'[u].status # "queued"
    <3>1. wtask[p] \in Task /\ doc[wtask[p]].status # "absent"
      BY <1>1, <2>3, <2>5, TaskIsSome DEF TypeOK, Holding, SoleInv, Progress
    <3>2. ~(t < wtask[p])
      BY <2>2, <3>1 DEF Ordered
    <3> QED
      BY <2>2, <2>3, <2>5, <3>1, <3>2 DEF Ordered, Task
  <2> QED
    BY <2>4, <2>5, Interrupting DEF Ordered
<1>3. CASE ~Comes
  <2>1. NoArrival
    BY <1>1, <1>3, EveryStep, NoneArrives DEF OrderInv
  <2>2. ASSUME NEW u \in Task, doc'[u].status = "absent"
        PROVE  ~doc'[u].scoped /\ \A v \in Task : u < v => doc'[v].status = "absent"
    BY <2>1, <2>2 DEF NoArrival, Ordered
  <2>3. ASSUME NEW p \in Procs, wpc'[p] \in {"open", "claim"},
               NEW u \in Task, u < wtask'[p]
        PROVE  doc'[u].status # "queued"
    <3>1. CASE wpc[p] \in {"open", "claim"} /\ wtask'[p] = wtask[p]
      BY <2>1, <2>3, <3>1 DEF NoArrival, Ordered
    <3>2. CASE IsNextQueued(wtask'[p]) /\ UNCHANGED doc
      BY <1>1, <2>3, <3>2, Choosing DEF IsNextQueued, Queued, Task
    <3> QED
      BY <1>1, <2>3, <3>1, <3>2, Choosing
  <2> QED
    BY <2>2, <2>3, Interrupting DEF Ordered
<1> QED
  BY <1>2, <1>3

LEMMA OrderInvariant == OneProcess /\ Spec => []OrderInv
<1> SUFFICES ASSUME OneProcess PROVE Spec => []OrderInv
  OBVIOUS
<1>1. Init => Ordered
  BY DEF Init, Ordered, Blank
<1>2. Ordered /\ SoleInv /\ [Next]_vars => Ordered'
  BY Ordering DEF OrderInv
<1>3. Ordered /\ SoleInv => OrderInv
  BY DEF OrderInv
<1> QED
  BY <1>1, <1>2, <1>3, SoleInvariant, PTL DEF Spec

QueueStep == [Queue!Next]_<<PlaceOf, FALSE>>

(* One task changes its place and the others keep theirs. *)
LEMMA OneMoves ==
  ASSUME NEW t \in Task, \A u \in Task : u # t => TaskPlace(u)' = TaskPlace(u)
  PROVE  PlaceOf' = [PlaceOf EXCEPT ![t] = TaskPlace(t)']
  BY DEF PlaceOf

(* A row that comes is the last one. *)
LEMMA ComingEnters ==
  ASSUME OrderInv, Comes
  PROVE  QueueStep
<1>1. TypeOK /\ Ordered
  BY DEF OrderInv, SoleInv, QueueInv
<1>2. PICK r \in Req : Create(r) \/ Resume(r)
  BY DEF Comes
<1>3. PICK t \in Task :
         /\ doc[t].status = "absent" /\ doc'[t].status = "queued"
         /\ \A u \in Task : u # t => doc'[u] = doc[u]
         /\ \A u \in Task : u < t => doc[u].status # "absent"
  BY <1>1, <1>2, InsertsNext
<1>4. \A u \in Task : Executes(u)' <=> Executes(u)
  BY <1>1, <1>2, Inserts DEF Executes
<1>5. ~Executes(t)
  BY <1>3, ExecutedTask DEF Executes, OrderInv
<1>6. TaskPlace(t) = "absent" /\ TaskPlace(t)' = "waiting"
  BY <1>3, <1>4, <1>5 DEF TaskPlace
<1>7. \A u \in Task : u # t => TaskPlace(u)' = TaskPlace(u)
  BY <1>3, <1>4 DEF TaskPlace
<1>8. PlaceOf' = [PlaceOf EXCEPT ![t] = "waiting"] /\ PlaceOf[t] = "absent"
  BY <1>6, <1>7, OneMoves DEF PlaceOf
<1>9. ASSUME NEW u \in Task, PlaceOf[u] = "absent" PROVE t <= u
  <2>1. doc[u].status = "absent"
    BY <1>9 DEF PlaceOf, TaskPlace
  <2> QED
    BY <1>3, <2>1 DEF Task
<1> QED
  BY <1>8, <1>9 DEF QueueStep, Queue!Next, Queue!Enter, Queue!Move, Queue!At

(* The task that is claimed is the oldest that waits, and no other is executed. *)
LEMMA ClaimTakes ==
  ASSUME OrderInv, NEW p \in Procs, Taken(p)
  PROVE  QueueStep
<1>1. TypeOK /\ LockDiscipline /\ Ordered
  BY DEF OrderInv, SoleInv, QueueInv
<1>2. PICK t \in Task : t = wtask[p]
  BY <1>1 DEF Taken, TypeOK, Holding
<1>3. /\ doc[t].status = "queued" /\ doc'[t].status = "running"
      /\ \A u \in Task : u # t => doc'[u] = doc[u]
  BY <1>1, <1>2, StatusSet, Statuses DEF Taken
<1>4. \A q \in Procs : wpc[q] \notin Executing
  BY <1>1, OneHolder DEF Taken, Holding, Executing
<1>5. /\ wpc'[p] \in Executing /\ UNCHANGED wtask
      /\ \A q \in Procs : q # p => wpc'[q] \notin Executing
  BY <1>1, <1>4 DEF Taken, Step, TypeOK, Executing
<1>6. \A u \in Task : ~Executes(u) /\ (Executes(u)' <=> u = t)
  BY <1>2, <1>4, <1>5 DEF Executes
<1>7. TaskPlace(t) = "waiting" /\ TaskPlace(t)' = "executing"
  BY <1>3, <1>6 DEF TaskPlace
<1>8. \A u \in Task : u # t => TaskPlace(u)' = TaskPlace(u)
  BY <1>3, <1>6 DEF TaskPlace
<1>9. PlaceOf' = [PlaceOf EXCEPT ![t] = "executing"] /\ PlaceOf[t] = "waiting"
  BY <1>7, <1>8, OneMoves DEF PlaceOf
<1>10. ASSUME NEW u \in Task, PlaceOf[u] = "waiting" PROVE t <= u
  <2>1. doc[u].status = "queued"
    BY <1>10 DEF PlaceOf, TaskPlace
  <2>2. ~(u < t)
    BY <1>1, <1>2, <2>1 DEF Ordered, Taken
  <2> QED
    BY <2>2 DEF Task
<1>11. \A u \in Task : PlaceOf[u] # "executing"
  BY <1>6 DEF PlaceOf, TaskPlace
<1> QED
  BY <1>9, <1>10, <1>11 DEF QueueStep, Queue!Next, Queue!Take, Queue!Move, Queue!At

(* An execution that ends is over for good. *)
LEMMA EndLeaves ==
  ASSUME OneProcess, OrderInv, NEW p \in Procs, Ends(p)
  PROVE  QueueStep
<1>1. PICK t \in Task : t = wtask[p] /\ doc[t].status \notin {"absent", "queued"}
  BY ExecutedTask DEF Ends, OrderInv
<1>2. \A u \in Task : (Executes(u) <=> u = t) /\ ~Executes(u)'
  BY <1>1 DEF Ends, Executes, OneProcess
<1>3. TaskPlace(t) = "executing" /\ TaskPlace(t)' = "over"
  BY <1>1, <1>2 DEF TaskPlace, Ends, SameRows, NoArrival
<1>4. \A u \in Task : u # t => TaskPlace(u)' = TaskPlace(u)
  BY <1>2 DEF TaskPlace, Ends, SameRows, NoArrival
<1>5. PlaceOf' = [PlaceOf EXCEPT ![t] = "over"] /\ PlaceOf[t] = "executing"
  BY <1>3, <1>4, OneMoves DEF PlaceOf
<1> QED
  BY <1>5 DEF QueueStep, Queue!Next, Queue!Leave, Queue!Move

(* A task closed by another thread is withdrawn if it waits. *)
LEMMA ClosingWithdraws ==
  ASSUME NEW t \in Task, Closed(t)
  PROVE  QueueStep
<1>1. \A u \in Task : Executes(u)' <=> Executes(u)
  BY DEF Closed, Executes
<1>2. \A u \in Task : u # t => TaskPlace(u)' = TaskPlace(u)
  BY <1>1 DEF Closed, TaskPlace
<1>3. CASE TaskPlace(t) = "waiting"
  <2>1. TaskPlace(t)' = "over"
    BY <1>1, <1>3 DEF Closed, TaskPlace
  <2>2. PlaceOf' = [PlaceOf EXCEPT ![t] = "over"] /\ PlaceOf[t] = "waiting"
    BY <1>2, <1>3, <2>1, OneMoves DEF PlaceOf
  <2> QED
    BY <2>2 DEF QueueStep, Queue!Next, Queue!Withdraw, Queue!Move
<1>4. CASE TaskPlace(t) # "waiting"
  <2>1. TaskPlace(t)' = TaskPlace(t)
    BY <1>1, <1>4 DEF Closed, TaskPlace
  <2>2. PlaceOf' = PlaceOf
    BY <1>2, <2>1 DEF PlaceOf
  <2> QED
    BY <2>2 DEF QueueStep
<1> QED
  BY <1>3, <1>4

LEMMA NothingSeen ==
  ASSUME SameRows, SameExecution
  PROVE  QueueStep
<1>1. \A u \in Task : Executes(u)' <=> Executes(u)
  BY DEF SameExecution, Executes
<1>2. \A u \in Task : TaskPlace(u)' = TaskPlace(u)
  BY <1>1 DEF TaskPlace, SameRows, NoArrival
<1> QED
  BY <1>2 DEF QueueStep, PlaceOf

(* The audit queue of one process, with its documents that are read and
   written back by several threads, its crashes, recoveries and cancels, is
   seen from outside as one queue that executes one task at a time, in the
   order of the rows, and each once at most. *)
THEOREM AuditQueueImplementsQueue == OneProcess /\ Spec => ImplementsQueue
<1> SUFFICES ASSUME OneProcess PROVE Spec => ImplementsQueue
  OBVIOUS
<1>1. ASSUME Init PROVE Queue!Init
  <2>1. \A t \in Task : TaskPlace(t) = "absent"
    BY <1>1 DEF Init, TaskPlace, Executes, Executing, Blank
  <2> QED
    BY <2>1 DEF Queue!Init, PlaceOf
<1>2. OrderInv /\ [Next]_vars => [Queue!Next]_<<PlaceOf, FALSE>>
  <2>1. OrderInv /\ Seen => QueueStep
    BY ComingEnters, ClaimTakes, EndLeaves, ClosingWithdraws, NothingSeen DEF Seen
  <2> QED
    BY <2>1, EveryStep DEF QueueStep
<1> QED
  BY <1>1, <1>2, OrderInvariant, PTL DEF Spec, ImplementsQueue, Queue!Spec

=============================================================================
