--------------------------- MODULE IndexJobsProofs ---------------------------
(***************************************************************************)
(* Proofs about the background index queue, for any number of processes    *)
(* and of jobs.  The safety properties of IndexJobs follow from one        *)
(* inductive invariant, IndexInv, given here in named parts.               *)
(***************************************************************************)
EXTENDS IndexJobs, TLAPS

\* The locals of the two threads are in range wherever they are used.
Locals ==
  \A p \in Procs :
    /\ ppc[p] \in {"reload", "write", "rlock", "recheck", "rwrite"} => pjob[p] \in Job
    /\ ppc[p] \in {"reload", "write"} => goal[p] \in {"cancelled", "cancelling"}
    /\ ppc[p] = "rwrite" => goal[p] \in {"cancelled", "interrupted"}
    /\ wpc[p] \in Claimed \union {"claim", "release"} => wjob[p] \in Job

MainHolding == {"mark", "recheck", "rwrite", "exclusive"}

\* One handle at most holds the file lock, and every thread in a section
\* that needs it has it.
LockDiscipline ==
  /\ \A h, k \in flock : h = k
  /\ \A p \in Procs : /\ wpc[p] \in Holding => <<p, "worker">> \in flock
                      /\ ppc[p] \in MainHolding => <<p, "main">> \in flock

\* A job that nobody claimed yet has no attempt; no job has two.
Attempts ==
  /\ \A p \in Procs : wpc[p] \in Claimed => attempt[wjob[p]] = 1
  /\ \A j \in Job : status[j] \in {"absent", "queued"} => attempt[j] = 0
  /\ RunsAtMostOnce

\* Rows are inserted in order, threads only handle rows that exist, and a
\* worker about to claim a job passed over no older one.
QueueOrder ==
  /\ \A j \in Job : status[j] # "absent" => \A i \in 1..(j - 1) : status[i] # "absent"
  /\ \A p \in Procs :
       /\ \A j \in todo[p] : status[j] # "absent"
       /\ ppc[p] \in {"reload", "write", "rlock", "recheck", "rwrite"}
            => status[pjob[p]] # "absent"
       /\ wpc[p] = "claim" => /\ status[wjob[p]] # "absent"
                              /\ \A i \in 1..(wjob[p] - 1) : status[i] # "queued"

\* How far the executing worker has come in the commit of its job.
CommitProgress ==
  /\ \A j \in Job : attempt[j] = 0 => j \notin retired
  /\ \A p \in Procs :
       /\ wpc[p] \in {"prepare", "check", "stage", "do", "failed"} => wjob[p] \notin retired
       /\ wpc[p] \in {"check", "stage", "do"} /\ wstage[p] = "cleanup" => wjob[p] \in bound
       /\ wpc[p] \in {"final", "completed"} => wjob[p] \in bound /\ wjob[p] \in cleaned

IndexInv ==
  /\ TypeOK /\ Locals /\ LockDiscipline
  /\ ExecutedJobStaysOpen /\ Attempts /\ RunningIsRecoverable
  /\ QueueOrder /\ CommitProgress /\ OutcomeMatchesIndex

-----------------------------------------------------------------------------
(* Two threads that need the file lock are one thread. *)
LEMMA OneHolder ==
  ASSUME LockDiscipline
  PROVE  /\ \A p, q \in Procs : wpc[p] \in Holding /\ wpc[q] \in Holding => p = q
         /\ \A p, q \in Procs : ppc[p] \in MainHolding /\ ppc[q] \in MainHolding => p = q
         /\ \A p, q \in Procs : ppc[p] \in MainHolding => wpc[q] \notin Holding
  BY DEF LockDiscipline

(* Every step keeps the types. *)
LEMMA Typing == TypeOK /\ Locals /\ [Next]_vars => TypeOK'
<1> SUFFICES ASSUME TypeOK, Locals, [Next]_vars PROVE TypeOK'
  OBVIOUS
<1> USE DEF TypeOK, Goto, Step, table, request, worker, index
<1>1. CASE UNCHANGED vars
  BY <1>1 DEF vars
<1>2. ASSUME NEW p \in Procs, Lifecycle(p) PROVE TypeOK'
  <2>1. CASE Start(p)
    BY <2>1 DEF Start, PPC
  <2>2. CASE Crash(p)
    BY <2>2 DEF Crash, PPC, WPC, Stage, Terminal, LeaseState
  <2>3. CASE Close(p)
    BY <2>3 DEF Close, PPC
  <2> QED
    BY <1>2, <2>1, <2>2, <2>3
    DEF Lifecycle
<1>3. ASSUME NEW p \in Procs, Call(p) PROVE TypeOK'
  <2>1. CASE Create(p)
    BY <2>1 DEF Create, Insert, PPC
  <2>2. CASE Resume(p)
    BY <2>2 DEF Resume, Insert, PPC
  <2>3. CASE ExclusiveStart(p)
    BY <2>3 DEF ExclusiveStart, Acquire, PPC
  <2>4. ASSUME NEW j \in Job, CancelRead(p, j) PROVE TypeOK'
    <3>1. ppc' \in [Procs -> PPC]
      BY <2>4 DEF CancelRead, PPC
    <3>2. pjob' \in [Procs -> Job \union {NoJob}]
      BY <2>4 DEF CancelRead
    <3>3. goal' \in [Procs -> Terminal \union {"none", "cancelling"}]
      BY <2>4 DEF CancelRead, Terminal
    <3> QED
      BY <3>1, <3>2, <3>3, <2>4 DEF CancelRead
  <2>5. ASSUME NEW j \in Job, RecoverRead(p, j) PROVE TypeOK'
    BY <2>5 DEF RecoverRead, PPC
  <2> QED
    BY <1>3, <2>1, <2>2, <2>3, <2>4, <2>5
    DEF Call
<1>4. ASSUME NEW p \in Procs, Continue(p) PROVE TypeOK'
  <2>1. CASE Boot(p)
    <3>1. flock' \subseteq Procs \X {"main", "worker"}
      BY <2>1 DEF Boot, Acquire
    <3>2. todo' \in [Procs -> SUBSET Job]
      BY <2>1 DEF Boot, Acquire
    <3>3. ppc' \in [Procs -> PPC]
      BY <2>1 DEF Boot, Acquire, PPC
    <3> QED
      BY <3>1, <3>2, <3>3, <2>1 DEF Boot, Acquire
  <2>2. CASE Mark(p)
    BY <2>2 DEF Mark, Update, Terminal, Stage, LeaseState
  <2>3. CASE MarkDone(p)
    BY <2>3 DEF MarkDone, Release, PPC
  <2>4. CASE Kick(p)
    BY <2>4 DEF Kick, StartWorker, PPC, WPC
  <2>5. CASE Exit(p)
    BY <2>5 DEF Exit, PPC
  <2>6. CASE Submit(p)
    BY <2>6 DEF Submit, StartWorker, Return, PPC, WPC, Terminal, LeaseState
  <2>7. CASE CancelReload(p)
    BY <2>7 DEF CancelReload, PPC, Locals
  <2>8. CASE CancelWrite(p)
    BY <2>8 DEF CancelWrite, Update, Return, PPC, Locals, Terminal, Active,
        Stage, LeaseState
  <2>9. CASE RecoverLock(p)
    <3>1. flock' \subseteq Procs \X {"main", "worker"}
      BY <2>9 DEF RecoverLock, Acquire, Return
    <3>2. ppc' \in [Procs -> PPC]
      BY <2>9 DEF RecoverLock, Acquire, Return, PPC
    <3>3. pjob' \in [Procs -> Job \union {NoJob}]
      BY <2>9 DEF RecoverLock, Acquire, Return
    <3>4. goal' \in [Procs -> Terminal \union {"none", "cancelling"}]
      BY <2>9 DEF RecoverLock, Acquire, Return, Terminal
    <3>5. saw' \in [Procs -> LeaseState]
      BY <2>9 DEF RecoverLock, Acquire, Return, LeaseState
    <3> QED
      BY <3>1, <3>2, <3>3, <3>4, <3>5, <2>9 DEF RecoverLock, Acquire, Return
  <2>10. CASE RecoverRecheck(p)
    <3>1. flock' \subseteq Procs \X {"main", "worker"}
      BY <2>10 DEF RecoverRecheck, Release, Return
    <3>2. ppc' \in [Procs -> PPC]
      BY <2>10 DEF RecoverRecheck, Release, Return, PPC
    <3>3. pjob' \in [Procs -> Job \union {NoJob}]
      BY <2>10 DEF RecoverRecheck, Release, Return
    <3>4. goal' \in [Procs -> Terminal \union {"none", "cancelling"}]
      BY <2>10 DEF RecoverRecheck, Release, Return, Terminal
    <3>5. saw' \in [Procs -> LeaseState]
      BY <2>10 DEF RecoverRecheck, Release, Return, LeaseState
    <3> QED
      BY <3>1, <3>2, <3>3, <3>4, <3>5, <2>10 DEF RecoverRecheck, Release, Return
  <2>11. CASE RecoverWrite(p)
    BY <2>11 DEF RecoverWrite, Update, Release, Return, PPC, Locals, Terminal,
        Stage, LeaseState
  <2>12. CASE ExclusiveEnd(p)
    BY <2>12 DEF ExclusiveEnd, Release, PPC
  <2> QED
    BY <1>4, <2>1, <2>2, <2>3, <2>4, <2>5, <2>6, <2>7, <2>8, <2>9, <2>10,
       <2>11, <2>12
    DEF Continue
<1>5. ASSUME NEW p \in Procs, Work(p) PROVE TypeOK'
  <2>1. CASE Poll(p)
    BY <2>1 DEF Poll, WPC, Holding, Claimed
  <2>2. CASE TryLock(p)
    <3>1. flock' \subseteq Procs \X {"main", "worker"}
      BY <2>2 DEF TryLock, Acquire
    <3>2. wpc' \in [Procs -> WPC]
      BY <2>2 DEF TryLock, Acquire, WPC, Holding, Claimed
    <3> QED
      BY <3>1, <3>2, <2>2 DEF TryLock, Acquire
  <2>3. CASE Reread(p)
    <3>1. flock' \subseteq Procs \X {"main", "worker"}
      BY <2>3 DEF Reread, Release, IsNextQueued, Queued
    <3>2. wpc' \in [Procs -> WPC]
      BY <2>3 DEF Reread, Release, IsNextQueued, Queued, WPC, Holding, Claimed
    <3>3. wjob' \in [Procs -> Job \union {NoJob}]
      BY <2>3 DEF Reread, Release, IsNextQueued, Queued
    <3> QED
      BY <3>1, <3>2, <3>3, <2>3 DEF Reread, Release, IsNextQueued, Queued
  <2>4. CASE ClaimWon(p)
    <3>1. status' \in [Job -> {"absent", "queued"} \union Active \union Terminal]
      BY <2>4 DEF ClaimWon, Active
    <3>2. lease' \in [Job -> LeaseState]
      BY <2>4 DEF ClaimWon, LeaseState
    <3>3. attempt' \in [Job -> Nat]
      BY <2>4 DEF ClaimWon, Locals
    <3>4. beat' \in [Procs -> BOOLEAN]
      BY <2>4 DEF ClaimWon
    <3>5. wpc' \in [Procs -> WPC]
      BY <2>4 DEF ClaimWon, WPC, Holding, Claimed
    <3> QED
      BY <3>1, <3>2, <3>3, <3>4, <3>5, <2>4 DEF ClaimWon
  <2>5. CASE ClaimLost(p)
    BY <2>5 DEF ClaimLost, Update, WPC, Holding, Claimed, Terminal, Stage,
        LeaseState
  <2>6. CASE Prepare(p)
    BY <2>6 DEF Prepare, SetStage, WPC, Holding, Claimed, Stage, Locals
  <2>7. CASE CheckCancel(p)
    BY <2>7 DEF CheckCancel, WPC, Holding, Claimed, Outcome
  <2>8. CASE SaveStage(p)
    BY <2>8 DEF SaveStage, SetStage, WPC, Holding, Claimed, Stage, Locals
  <2>9. CASE DoStretch(p)
    <3>1. bound' \subseteq Job
      BY <2>9 DEF DoStretch, NextStretch, Locals, Claimed
    <3>2. cleaned' \subseteq Job /\ retired' \subseteq Job
      BY <2>9 DEF DoStretch, NextStretch, Locals, Claimed
    <3>3. wstage' \in [Procs -> Stage]
      BY <2>9 DEF DoStretch, NextStretch, Stage
    <3>4. wpc' \in [Procs -> WPC]
      BY <2>9 DEF DoStretch, NextStretch, WPC, Holding, Claimed
    <3> QED
      BY <3>1, <3>2, <3>3, <3>4, <2>9 DEF DoStretch, NextStretch
  <2>10. CASE FailStretch(p)
    <3>1. cleaned' \subseteq Job
      BY <2>10 DEF FailStretch, Locals, Claimed
    <3> QED
      BY <3>1, <2>10 DEF FailStretch, WPC, Holding, Claimed, Outcome
  <2>11. CASE SaveOutcome(p)
    BY <2>11 DEF SaveOutcome, Update, WPC, Holding, Claimed, Outcome, Terminal,
        Stage, LeaseState
  <2>12. CASE Finish(p)
    BY <2>12 DEF Finish, Release, WPC, Holding, Claimed, Stage
  <2>13. CASE FutureDone(p)
    BY <2>13 DEF FutureDone, WPC, Holding, Claimed
  <2>14. CASE WorkerFinished(p)
    BY <2>14 DEF WorkerFinished, WPC, Holding, Claimed
  <2> QED
    BY <1>5, <2>1, <2>2, <2>3, <2>4, <2>5, <2>6, <2>7, <2>8, <2>9, <2>10,
       <2>11, <2>12, <2>13, <2>14
    DEF Work
<1>6. ASSUME NEW p \in Procs, Renew(p) PROVE TypeOK'
  <2>1. lease' \in [Job -> LeaseState] /\ beat' \in [Procs -> BOOLEAN]
    BY <1>6 DEF Renew, LeaseState
  <2> QED
    BY <2>1, <1>6 DEF Renew
<1>7. ASSUME NEW j \in Job, LeaseLapse(j) PROVE TypeOK'
  BY <1>7 DEF LeaseLapse, LeaseState
<1> QED
  BY <1>1, <1>2, <1>3, <1>4, <1>5, <1>6, <1>7 DEF Next

(* Every step keeps the locals in range. *)
LEMMA Locality ==
  TypeOK /\ Locals /\ [Next]_vars
    => Locals'
<1> SUFFICES ASSUME TypeOK, Locals, [Next]_vars
             PROVE  Locals'
  OBVIOUS
<1> USE DEF TypeOK, Locals, Claimed, Outcome, Return, StartWorker, Goto,
           Step, table, request, worker, index
<1>1. CASE UNCHANGED vars
  BY <1>1 DEF vars
<1>2. ASSUME NEW p \in Procs, Lifecycle(p) PROVE Locals'
  <2>1. CASE Start(p) \/ Close(p)
    BY <2>1 DEF Start, Close
  <2>2. CASE Crash(p)
    BY <2>2 DEF Crash
  <2> QED
    BY <1>2, <2>1, <2>2
    DEF Lifecycle
<1>3. ASSUME NEW p \in Procs, Call(p) PROVE Locals'
  <2>1. CASE Create(p) \/ Resume(p) \/ ExclusiveStart(p)
    BY <2>1 DEF Create, Resume, ExclusiveStart, Insert, Acquire
  <2>2. ASSUME NEW j \in Job, CancelRead(p, j) PROVE Locals'
    BY <2>2 DEF CancelRead
  <2>3. ASSUME NEW j \in Job, RecoverRead(p, j) PROVE Locals'
    BY <2>3 DEF RecoverRead
  <2> QED
    BY <1>3, <2>1, <2>2, <2>3
    DEF Call
<1>4. ASSUME NEW p \in Procs, Continue(p) PROVE Locals'
  <2>1. CASE Boot(p) \/ Mark(p) \/ MarkDone(p) \/ Kick(p) \/ Exit(p) \/
           Submit(p) \/ ExclusiveEnd(p)
    BY <2>1 DEF Boot, Mark, MarkDone, Kick, Exit, Submit, ExclusiveEnd, Acquire,
        Update, Release
  <2>2. CASE CancelReload(p)
    BY <2>2 DEF CancelReload
  <2>3. CASE CancelWrite(p)
    BY <2>3 DEF CancelWrite, Update
  <2>4. CASE RecoverLock(p)
    BY <2>4 DEF RecoverLock, Acquire
  <2>5. CASE RecoverRecheck(p)
    BY <2>5 DEF RecoverRecheck, Release
  <2>6. CASE RecoverWrite(p)
    BY <2>6 DEF RecoverWrite, Update, Release
  <2> QED
    BY <1>4, <2>1, <2>2, <2>3, <2>4, <2>5, <2>6
    DEF Continue
<1>5. ASSUME NEW p \in Procs, Work(p) PROVE Locals'
  <2>1. CASE Poll(p) \/ TryLock(p) \/ CheckCancel(p) \/ SaveStage(p) \/
           DoStretch(p) \/ FailStretch(p) \/ SaveOutcome(p) \/
           FutureDone(p) \/ WorkerFinished(p)
    BY <2>1 DEF Poll, TryLock, CheckCancel, SaveStage, DoStretch, FailStretch,
        SaveOutcome, FutureDone, WorkerFinished, Acquire, SetStage,
        NextStretch, Update
  <2>2. CASE Reread(p)
    BY <2>2 DEF Reread, Release, IsNextQueued, Queued
  <2>3. CASE ClaimWon(p) \/ ClaimLost(p) \/ Prepare(p)
    BY <2>3 DEF ClaimWon, ClaimLost, Prepare, Update, SetStage
  <2>4. CASE Finish(p)
    BY <2>4 DEF Finish, Release
  <2> QED
    BY <1>5, <2>1, <2>2, <2>3, <2>4
    DEF Work
<1>6. ASSUME NEW p \in Procs, Renew(p) PROVE Locals'
  BY <1>6 DEF Renew
<1>7. ASSUME NEW j \in Job, LeaseLapse(j) PROVE Locals'
  BY <1>7 DEF LeaseLapse
<1> QED
  BY <1>1, <1>2, <1>3, <1>4, <1>5, <1>6, <1>7 DEF Next

(* Every step keeps the lock discipline. *)
LEMMA Locking ==
  TypeOK /\ LockDiscipline /\ [Next]_vars
    => LockDiscipline'
<1> SUFFICES ASSUME TypeOK, LockDiscipline, [Next]_vars
             PROVE  LockDiscipline'
  OBVIOUS
<1> USE DEF TypeOK, LockDiscipline, Claimed, Outcome, Holding,
           MainHolding, LockFree, Acquire, Release, StartWorker, Return,
           Goto, Step, table, request, worker, index
<1>1. CASE UNCHANGED vars
  BY <1>1 DEF vars
<1>2. ASSUME NEW p \in Procs, Lifecycle(p) PROVE LockDiscipline'
  <2>1. CASE Start(p) \/ Close(p)
    BY <2>1 DEF Start, Close
  <2>2. CASE Crash(p)
    BY <2>2 DEF Crash
  <2> QED
    BY <1>2, <2>1, <2>2
    DEF Lifecycle
<1>3. ASSUME NEW p \in Procs, Call(p) PROVE LockDiscipline'
  BY <1>3 DEF Call, Create, Resume, ExclusiveStart, CancelRead, RecoverRead,
      Insert
<1>4. ASSUME NEW p \in Procs, Continue(p) PROVE LockDiscipline'
  <2>1. CASE Mark(p) \/ Kick(p) \/ Exit(p) \/ Submit(p) \/
           CancelReload(p) \/ CancelWrite(p)
    BY <2>1 DEF Mark, Kick, Exit, Submit, CancelReload, CancelWrite, Update
  <2>2. CASE Boot(p)
    BY <2>2 DEF Boot
  <2>3. CASE MarkDone(p) \/ ExclusiveEnd(p)
    BY <2>3 DEF MarkDone, ExclusiveEnd
  <2>4. CASE RecoverLock(p)
    BY <2>4 DEF RecoverLock
  <2>5. CASE RecoverRecheck(p) \/ RecoverWrite(p)
    BY <2>5 DEF RecoverRecheck, RecoverWrite, Update
  <2> QED
    BY <1>4, <2>1, <2>2, <2>3, <2>4, <2>5
    DEF Continue
<1>5. ASSUME NEW p \in Procs, Work(p) PROVE LockDiscipline'
  <2>1. CASE Poll(p) \/ ClaimWon(p) \/ ClaimLost(p) \/ Prepare(p) \/
           CheckCancel(p) \/ SaveStage(p) \/ DoStretch(p) \/
           FailStretch(p) \/ SaveOutcome(p) \/ FutureDone(p) \/
           WorkerFinished(p)
    BY <2>1 DEF Poll, ClaimWon, ClaimLost, Prepare, CheckCancel, SaveStage,
        DoStretch, FailStretch, SaveOutcome, FutureDone, WorkerFinished,
        Update, SetStage, NextStretch
  <2>2. CASE TryLock(p)
    BY <2>2 DEF TryLock
  <2>3. CASE Reread(p)
    BY <2>3 DEF Reread, IsNextQueued, Queued
  <2>4. CASE Finish(p)
    BY <2>4 DEF Finish
  <2> QED
    BY <1>5, <2>1, <2>2, <2>3, <2>4
    DEF Work
<1>6. ASSUME NEW p \in Procs, Renew(p) PROVE LockDiscipline'
  BY <1>6 DEF Renew
<1>7. ASSUME NEW j \in Job, LeaseLapse(j) PROVE LockDiscipline'
  BY <1>7 DEF LeaseLapse
<1> QED
  BY <1>1, <1>2, <1>3, <1>4, <1>5, <1>6, <1>7 DEF Next

(* No step closes the row of a job that is being executed. *)
LEMMA Openness ==
  TypeOK /\ Locals /\ LockDiscipline /\ ExecutedJobStaysOpen /\
  [Next]_vars
    => ExecutedJobStaysOpen'
<1> SUFFICES ASSUME TypeOK, Locals, LockDiscipline, ExecutedJobStaysOpen,
                    [Next]_vars
             PROVE  ExecutedJobStaysOpen'
  OBVIOUS
<1> USE DEF TypeOK, Locals, ExecutedJobStaysOpen, Claimed, Outcome,
           Holding, MainHolding, Active, StartWorker, Return, Update,
           Goto, Step, table, request, worker, index
<1>a. /\ \A q, r \in Procs : wpc[q] \in Holding /\ wpc[r] \in Holding => q = r
      /\ \A q, r \in Procs : ppc[q] \in MainHolding => wpc[r] \notin Holding
  BY OneHolder
<1>1. CASE UNCHANGED vars
  BY <1>1 DEF vars
<1>2. ASSUME NEW p \in Procs, Lifecycle(p) PROVE ExecutedJobStaysOpen'
  <2>1. CASE Start(p) \/ Close(p)
    BY <2>1 DEF Start, Close
  <2>2. CASE Crash(p)
    BY <2>2 DEF Crash
  <2> QED
    BY <1>2, <2>1, <2>2
    DEF Lifecycle
<1>3. ASSUME NEW p \in Procs, Call(p) PROVE ExecutedJobStaysOpen'
  BY <1>3 DEF Call, Create, Resume, ExclusiveStart, CancelRead, RecoverRead,
      Insert, Acquire
<1>4. ASSUME NEW p \in Procs, Continue(p) PROVE ExecutedJobStaysOpen'
  <2>1. CASE Boot(p) \/ MarkDone(p) \/ Kick(p) \/ Exit(p) \/ Submit(p) \/
           CancelReload(p) \/ RecoverLock(p) \/ RecoverRecheck(p) \/
           ExclusiveEnd(p)
    BY <2>1 DEF Boot, MarkDone, Kick, Exit, Submit, CancelReload, RecoverLock,
        RecoverRecheck, ExclusiveEnd, Acquire, Release
  <2>2. CASE Mark(p)
    BY <2>2, <1>a DEF Mark
  <2>3. CASE CancelWrite(p)
    BY <2>3 DEF CancelWrite
  <2>4. CASE RecoverWrite(p)
    BY <2>4, <1>a DEF RecoverWrite
  <2> QED
    BY <1>4, <2>1, <2>2, <2>3, <2>4
    DEF Continue
<1>5. ASSUME NEW p \in Procs, Work(p) PROVE ExecutedJobStaysOpen'
  <2>1. CASE Poll(p) \/ TryLock(p) \/ Reread(p) \/ Prepare(p) \/
           SaveStage(p) \/ DoStretch(p) \/ FailStretch(p) \/ Finish(p) \/
           FutureDone(p) \/ WorkerFinished(p)
    BY <2>1 DEF Poll, TryLock, Reread, Prepare, SaveStage, DoStretch,
        FailStretch, Finish, FutureDone, WorkerFinished, Acquire,
        Release, IsNextQueued, Queued, SetStage, NextStretch
  <2>2. CASE ClaimWon(p)
    BY <2>2 DEF ClaimWon
  <2>3. CASE ClaimLost(p)
    BY <2>3, <1>a DEF ClaimLost
  <2>4. CASE SaveOutcome(p)
    BY <2>4, <1>a DEF SaveOutcome
  <2>5. CASE CheckCancel(p)
    BY <2>5 DEF CheckCancel
  <2> QED
    BY <1>5, <2>1, <2>2, <2>3, <2>4, <2>5
    DEF Work
<1>6. ASSUME NEW p \in Procs, Renew(p) PROVE ExecutedJobStaysOpen'
  BY <1>6 DEF Renew
<1>7. ASSUME NEW j \in Job, LeaseLapse(j) PROVE ExecutedJobStaysOpen'
  BY <1>7 DEF LeaseLapse
<1> QED
  BY <1>1, <1>2, <1>3, <1>4, <1>5, <1>6, <1>7 DEF Next

(* Only a claim adds an attempt, and only to a job that has none. *)
LEMMA Attempting ==
  TypeOK /\ Locals /\ Attempts /\ [Next]_vars
    => Attempts'
<1> SUFFICES ASSUME TypeOK, Locals, Attempts, [Next]_vars
             PROVE  Attempts'
  OBVIOUS
<1> USE DEF TypeOK, Locals, Attempts, RunsAtMostOnce, Claimed, Outcome,
           StartWorker, Update, Goto, Step, table, request, worker, index
<1>1. CASE UNCHANGED vars
  BY <1>1 DEF vars
<1>2. ASSUME NEW p \in Procs, Lifecycle(p) PROVE Attempts'
  <2>1. CASE Start(p) \/ Close(p)
    BY <2>1 DEF Start, Close
  <2>2. CASE Crash(p)
    BY <2>2 DEF Crash
  <2> QED
    BY <1>2, <2>1, <2>2
    DEF Lifecycle
<1>3. ASSUME NEW p \in Procs, Call(p) PROVE Attempts'
  BY <1>3 DEF Call, Create, Resume, ExclusiveStart, CancelRead, RecoverRead,
      Insert, Acquire
<1>4. ASSUME NEW p \in Procs, Continue(p) PROVE Attempts'
  <2>1. CASE Boot(p) \/ MarkDone(p) \/ Kick(p) \/ Exit(p) \/ Submit(p) \/
           CancelReload(p) \/ RecoverLock(p) \/ RecoverRecheck(p) \/
           ExclusiveEnd(p)
    BY <2>1 DEF Boot, MarkDone, Kick, Exit, Submit, CancelReload, RecoverLock,
        RecoverRecheck, ExclusiveEnd, Acquire, Release, Return
  <2>2. CASE Mark(p)
    BY <2>2 DEF Mark
  <2>3. CASE CancelWrite(p)
    BY <2>3 DEF CancelWrite, Return
  <2>4. CASE RecoverWrite(p)
    BY <2>4 DEF RecoverWrite, Release, Return
  <2> QED
    BY <1>4, <2>1, <2>2, <2>3, <2>4
    DEF Continue
<1>5. ASSUME NEW p \in Procs, Work(p) PROVE Attempts'
  <2>1. CASE Poll(p) \/ TryLock(p) \/ Reread(p) \/ Prepare(p) \/
           CheckCancel(p) \/ SaveStage(p) \/ DoStretch(p) \/
           FailStretch(p) \/ Finish(p) \/ FutureDone(p) \/
           WorkerFinished(p)
    BY <2>1 DEF Poll, TryLock, Reread, Prepare, CheckCancel, SaveStage,
        DoStretch, FailStretch, Finish, FutureDone, WorkerFinished,
        Acquire, Release, IsNextQueued, Queued, SetStage, NextStretch
  <2>2. CASE ClaimWon(p)
    BY <2>2 DEF ClaimWon
  <2>3. CASE ClaimLost(p)
    BY <2>3 DEF ClaimLost
  <2>4. CASE SaveOutcome(p)
    BY <2>4 DEF SaveOutcome
  <2> QED
    BY <1>5, <2>1, <2>2, <2>3, <2>4
    DEF Work
<1>6. ASSUME NEW p \in Procs, Renew(p) PROVE Attempts'
  BY <1>6 DEF Renew
<1>7. ASSUME NEW j \in Job, LeaseLapse(j) PROVE Attempts'
  BY <1>7 DEF LeaseLapse
<1> QED
  BY <1>1, <1>2, <1>3, <1>4, <1>5, <1>6, <1>7 DEF Next

(* No step takes the lease from a running row. *)
LEMMA Leasing ==
  TypeOK /\ Locals /\ RunningIsRecoverable /\ [Next]_vars
    => RunningIsRecoverable'
<1> SUFFICES ASSUME TypeOK, Locals, RunningIsRecoverable, [Next]_vars
             PROVE  RunningIsRecoverable'
  OBVIOUS
<1> USE DEF TypeOK, Locals, RunningIsRecoverable, Claimed, Outcome,
           Terminal, Update, Goto, Step, table, request, worker, index
<1>1. CASE UNCHANGED vars
  BY <1>1 DEF vars
<1>2. ASSUME NEW p \in Procs, Lifecycle(p) PROVE RunningIsRecoverable'
  BY <1>2 DEF Lifecycle, Start, Crash, Close
<1>3. ASSUME NEW p \in Procs, Call(p) PROVE RunningIsRecoverable'
  BY <1>3 DEF Call, Create, Resume, ExclusiveStart, CancelRead, RecoverRead,
      Insert, Acquire
<1>4. ASSUME NEW p \in Procs, Continue(p) PROVE RunningIsRecoverable'
  <2>1. CASE Boot(p) \/ MarkDone(p) \/ Kick(p) \/ Exit(p) \/ Submit(p) \/
           CancelReload(p) \/ RecoverLock(p) \/ RecoverRecheck(p) \/
           ExclusiveEnd(p)
    BY <2>1 DEF Boot, MarkDone, Kick, Exit, Submit, CancelReload, RecoverLock,
        RecoverRecheck, ExclusiveEnd, Acquire, Release, StartWorker,
        Return
  <2>2. CASE Mark(p)
    BY <2>2 DEF Mark
  <2>3. CASE CancelWrite(p)
    BY <2>3 DEF CancelWrite, Return
  <2>4. CASE RecoverWrite(p)
    BY <2>4 DEF RecoverWrite, Release, Return
  <2> QED
    BY <1>4, <2>1, <2>2, <2>3, <2>4
    DEF Continue
<1>5. ASSUME NEW p \in Procs, Work(p) PROVE RunningIsRecoverable'
  <2>1. CASE Poll(p) \/ TryLock(p) \/ Reread(p) \/ Prepare(p) \/
           CheckCancel(p) \/ SaveStage(p) \/ DoStretch(p) \/
           FailStretch(p) \/ Finish(p) \/ FutureDone(p) \/
           WorkerFinished(p)
    BY <2>1 DEF Poll, TryLock, Reread, Prepare, CheckCancel, SaveStage,
        DoStretch, FailStretch, Finish, FutureDone, WorkerFinished,
        Acquire, Release, IsNextQueued, Queued, SetStage, NextStretch
  <2>2. CASE ClaimWon(p)
    BY <2>2 DEF ClaimWon
  <2>3. CASE ClaimLost(p)
    BY <2>3 DEF ClaimLost
  <2>4. CASE SaveOutcome(p)
    BY <2>4 DEF SaveOutcome
  <2> QED
    BY <1>5, <2>1, <2>2, <2>3, <2>4
    DEF Work
<1>6. ASSUME NEW p \in Procs, Renew(p) PROVE RunningIsRecoverable'
  BY <1>6 DEF Renew
<1>7. ASSUME NEW j \in Job, LeaseLapse(j) PROVE RunningIsRecoverable'
  BY <1>7 DEF LeaseLapse
<1> QED
  BY <1>1, <1>2, <1>3, <1>4, <1>5, <1>6, <1>7 DEF Next

(* Every step keeps the order of the queue. *)
LEMMA Ordering ==
  TypeOK /\ Locals /\ ExecutedJobStaysOpen /\ QueueOrder /\ [Next]_vars
    => QueueOrder'
<1> SUFFICES ASSUME TypeOK, Locals, ExecutedJobStaysOpen, QueueOrder,
                    [Next]_vars
             PROVE  QueueOrder'
  OBVIOUS
<1> USE DEF TypeOK, Locals, ExecutedJobStaysOpen, QueueOrder, Claimed,
           Outcome, Active, Update, Return, Goto, Step, table, request,
           worker, index
<1>1. CASE UNCHANGED vars
  BY <1>1 DEF vars
<1>2. ASSUME NEW p \in Procs, Lifecycle(p) PROVE QueueOrder'
  <2>1. CASE Start(p) \/ Close(p)
    BY <2>1 DEF Start, Close
  <2>2. CASE Crash(p)
    BY <2>2 DEF Crash
  <2> QED
    BY <1>2, <2>1, <2>2
    DEF Lifecycle
<1>3. ASSUME NEW p \in Procs, Call(p) PROVE QueueOrder'
  <2>1. CASE ExclusiveStart(p)
    BY <2>1 DEF ExclusiveStart, Acquire
  <2>2. CASE Create(p)
    BY <2>2 DEF Create, Insert
  <2>3. CASE Resume(p)
    BY <2>3 DEF Resume, Insert
  <2>4. ASSUME NEW j \in Job, CancelRead(p, j) PROVE QueueOrder'
    BY <2>4 DEF CancelRead
  <2>5. ASSUME NEW j \in Job, RecoverRead(p, j) PROVE QueueOrder'
    BY <2>5 DEF RecoverRead
  <2> QED
    BY <1>3, <2>1, <2>2, <2>3, <2>4, <2>5
    DEF Call
<1>4. ASSUME NEW p \in Procs, Continue(p) PROVE QueueOrder'
  <2>1. CASE MarkDone(p) \/ Kick(p) \/ Exit(p) \/ Submit(p) \/
           CancelReload(p) \/ ExclusiveEnd(p)
    BY <2>1 DEF MarkDone, Kick, Exit, Submit, CancelReload, ExclusiveEnd,
        Release, StartWorker
  <2>2. CASE Boot(p)
    BY <2>2 DEF Boot, Acquire
  <2>3. CASE Mark(p)
    BY <2>3 DEF Mark
  <2>4. CASE CancelWrite(p)
    BY <2>4 DEF CancelWrite
  <2>5. CASE RecoverWrite(p)
    BY <2>5 DEF RecoverWrite, Release
  <2>6. CASE RecoverLock(p) \/ RecoverRecheck(p)
    BY <2>6 DEF RecoverLock, RecoverRecheck, Acquire, Release
  <2> QED
    BY <1>4, <2>1, <2>2, <2>3, <2>4, <2>5, <2>6
    DEF Continue
<1>5. ASSUME NEW p \in Procs, Work(p) PROVE QueueOrder'
  <2>1. CASE Poll(p) \/ TryLock(p) \/ Prepare(p) \/ CheckCancel(p) \/
           SaveStage(p) \/ DoStretch(p) \/ FailStretch(p) \/ Finish(p) \/
           FutureDone(p) \/ WorkerFinished(p)
    BY <2>1 DEF Poll, TryLock, Prepare, CheckCancel, SaveStage, DoStretch,
        FailStretch, Finish, FutureDone, WorkerFinished, Acquire,
        SetStage, NextStretch, Release
  <2>2. CASE Reread(p)
    BY <2>2, MaxJobsAssumption DEF Reread, IsNextQueued, Queued, Job
  <2>3. CASE ClaimWon(p)
    BY <2>3 DEF ClaimWon
  <2>4. CASE ClaimLost(p)
    <3>1. CASE status[wjob[p]] = "cancelling"
      <4>1. wjob[p] \in Job /\ UNCHANGED <<ppc, pjob, todo, wjob>>
        BY <2>4 DEF ClaimLost
      <4>2. /\ status' = [status EXCEPT ![wjob[p]] = "cancelled"]
            /\ wpc' = [wpc EXCEPT ![p] = "release"]
        BY <2>4, <3>1 DEF ClaimLost
      <4> QED
        BY <3>1, <4>1, <4>2
    <3>2. CASE status[wjob[p]] # "cancelling"
      BY <2>4, <3>2 DEF ClaimLost
    <3> QED
      BY <3>1, <3>2
  <2>5. CASE SaveOutcome(p)
    BY <2>5 DEF SaveOutcome
  <2> QED
    BY <1>5, <2>1, <2>2, <2>3, <2>4, <2>5
    DEF Work
<1>6. ASSUME NEW p \in Procs, Renew(p) PROVE QueueOrder'
  BY <1>6 DEF Renew
<1>7. ASSUME NEW j \in Job, LeaseLapse(j) PROVE QueueOrder'
  BY <1>7 DEF LeaseLapse
<1> QED
  BY <1>1, <1>2, <1>3, <1>4, <1>5, <1>6, <1>7 DEF Next

(* Every step keeps the progress of the commit. *)
LEMMA Committing ==
  TypeOK /\ Locals /\ LockDiscipline /\ Attempts /\ CommitProgress /\
  [Next]_vars
    => CommitProgress'
<1> SUFFICES ASSUME TypeOK, Locals, LockDiscipline, Attempts,
                    CommitProgress, [Next]_vars
             PROVE  CommitProgress'
  OBVIOUS
<1> USE DEF TypeOK, Locals, Attempts, CommitProgress, Claimed, Outcome,
           Holding, Stage, Update, SetStage, Goto, Step, table, request,
           worker, index
<1>a. /\ \A q, r \in Procs : wpc[q] \in Holding /\ wpc[r] \in Holding => q = r
      /\ \A q, r \in Procs : ppc[q] \in MainHolding => wpc[r] \notin Holding
  BY OneHolder
<1>1. CASE UNCHANGED vars
  BY <1>1 DEF vars
<1>2. ASSUME NEW p \in Procs, Lifecycle(p) PROVE CommitProgress'
  <2>1. CASE Start(p) \/ Close(p)
    BY <2>1 DEF Start, Close
  <2>2. CASE Crash(p)
    BY <2>2 DEF Crash
  <2> QED
    BY <1>2, <2>1, <2>2
    DEF Lifecycle
<1>3. ASSUME NEW p \in Procs, Call(p) PROVE CommitProgress'
  BY <1>3 DEF Call, Create, Resume, ExclusiveStart, CancelRead, RecoverRead,
      Insert, Acquire
<1>4. ASSUME NEW p \in Procs, Continue(p) PROVE CommitProgress'
  BY <1>4 DEF Continue, Boot, Mark, MarkDone, Kick, Exit, Submit, CancelReload,
      CancelWrite, RecoverLock, RecoverRecheck, RecoverWrite,
      ExclusiveEnd, Acquire, Release, StartWorker, Return
<1>5. ASSUME NEW p \in Procs, Work(p) PROVE CommitProgress'
  <2>1. CASE Poll(p) \/ TryLock(p) \/ Reread(p) \/ ClaimLost(p) \/
           SaveStage(p) \/ FailStretch(p) \/ SaveOutcome(p) \/
           FutureDone(p) \/ WorkerFinished(p)
    BY <2>1 DEF Poll, TryLock, Reread, ClaimLost, SaveStage, FailStretch,
        SaveOutcome, FutureDone, WorkerFinished, Acquire, Release,
        IsNextQueued, Queued
  <2>2. CASE ClaimWon(p)
    BY <2>2 DEF ClaimWon
  <2>3. CASE Prepare(p)
    BY <2>3 DEF Prepare
  <2>4. CASE CheckCancel(p)
    BY <2>4 DEF CheckCancel
  <2>5. CASE DoStretch(p)
    <3>1. wjob[p] \in Job /\ wstage[p] \in Stage
      BY <2>5 DEF DoStretch
    <3>2. CASE wstage[p] = "cleanup"
      BY <2>5, <3>1, <3>2, <1>a DEF DoStretch, NextStretch
    <3>3. CASE wstage[p] # "cleanup"
      BY <2>5, <3>1, <3>3, <1>a DEF DoStretch, NextStretch
    <3> QED
      BY <3>2, <3>3
  <2>6. CASE Finish(p)
    BY <2>6 DEF Finish, Release
  <2> QED
    BY <1>5, <2>1, <2>2, <2>3, <2>4, <2>5, <2>6
    DEF Work
<1>6. ASSUME NEW p \in Procs, Renew(p) PROVE CommitProgress'
  BY <1>6 DEF Renew
<1>7. ASSUME NEW j \in Job, LeaseLapse(j) PROVE CommitProgress'
  BY <1>7 DEF LeaseLapse
<1> QED
  BY <1>1, <1>2, <1>3, <1>4, <1>5, <1>6, <1>7 DEF Next

(* Every saved outcome tells what happened to the index. *)
LEMMA Outcomes ==
  TypeOK /\ Locals /\ LockDiscipline /\ ExecutedJobStaysOpen /\
  CommitProgress /\ OutcomeMatchesIndex /\ [Next]_vars
    => OutcomeMatchesIndex'
<1> SUFFICES ASSUME TypeOK, Locals, LockDiscipline, ExecutedJobStaysOpen,
                    CommitProgress, OutcomeMatchesIndex, [Next]_vars
             PROVE  OutcomeMatchesIndex'
  OBVIOUS
<1> USE DEF TypeOK, Locals, LockDiscipline, OutcomeMatchesIndex,
           CommitProgress, ExecutedJobStaysOpen, Claimed, Outcome,
           Holding, Active, Update, SetStage, Goto, Step, table, request,
           worker, index
<1>1. CASE UNCHANGED vars
  BY <1>1 DEF vars
<1>2. ASSUME NEW p \in Procs, Lifecycle(p) PROVE OutcomeMatchesIndex'
  BY <1>2 DEF Lifecycle, Start, Crash, Close
<1>3. ASSUME NEW p \in Procs, Call(p) PROVE OutcomeMatchesIndex'
  BY <1>3 DEF Call, Create, Resume, ExclusiveStart, CancelRead, RecoverRead,
      Insert, Acquire
<1>4. ASSUME NEW p \in Procs, Continue(p) PROVE OutcomeMatchesIndex'
  <2>1. CASE Boot(p) \/ MarkDone(p) \/ Kick(p) \/ Exit(p) \/ Submit(p) \/
           CancelReload(p) \/ RecoverLock(p) \/ RecoverRecheck(p) \/
           ExclusiveEnd(p)
    BY <2>1 DEF Boot, MarkDone, Kick, Exit, Submit, CancelReload, RecoverLock,
        RecoverRecheck, ExclusiveEnd, Acquire, Release, StartWorker,
        Return
  <2>2. CASE Mark(p)
    BY <2>2 DEF Mark
  <2>3. CASE CancelWrite(p)
    BY <2>3 DEF CancelWrite, Return
  <2>4. CASE RecoverWrite(p)
    BY <2>4 DEF RecoverWrite, Release, Return
  <2> QED
    BY <1>4, <2>1, <2>2, <2>3, <2>4
    DEF Continue
<1>5. ASSUME NEW p \in Procs, Work(p) PROVE OutcomeMatchesIndex'
  <2>1. CASE Poll(p) \/ TryLock(p) \/ Reread(p) \/ Prepare(p) \/
           CheckCancel(p) \/ SaveStage(p) \/ FailStretch(p) \/
           Finish(p) \/ FutureDone(p) \/ WorkerFinished(p)
    BY <2>1 DEF Poll, TryLock, Reread, Prepare, CheckCancel, SaveStage,
        FailStretch, Finish, FutureDone, WorkerFinished, Acquire,
        Release, IsNextQueued, Queued
  <2>2. CASE ClaimWon(p)
    BY <2>2 DEF ClaimWon
  <2>3. CASE ClaimLost(p)
    BY <2>3 DEF ClaimLost
  <2>4. CASE SaveOutcome(p)
    BY <2>4 DEF SaveOutcome
  <2>5. CASE DoStretch(p)
    BY <2>5 DEF DoStretch, NextStretch
  <2> QED
    BY <1>5, <2>1, <2>2, <2>3, <2>4, <2>5
    DEF Work
<1>6. ASSUME NEW p \in Procs, Renew(p) PROVE OutcomeMatchesIndex'
  BY <1>6 DEF Renew
<1>7. ASSUME NEW j \in Job, LeaseLapse(j) PROVE OutcomeMatchesIndex'
  BY <1>7 DEF LeaseLapse
<1> QED
  BY <1>1, <1>2, <1>3, <1>4, <1>5, <1>6, <1>7 DEF Next

-----------------------------------------------------------------------------
(* IndexInv holds at first and is kept by every step. *)
LEMMA Initially == Init => IndexInv
  BY DEF Init, IndexInv, TypeOK, Locals, LockDiscipline, ExecutedJobStaysOpen,
         Attempts, RunsAtMostOnce, RunningIsRecoverable, QueueOrder, CommitProgress,
         OutcomeMatchesIndex, Active, Terminal, Outcome, Stage, LeaseState, PPC, WPC,
         Holding, Claimed, MainHolding, NoJob, Job

LEMMA Inductively == IndexInv /\ [Next]_vars => IndexInv'
  BY Typing, Locality, Locking, Openness, Attempting, Leasing, Ordering,
     Committing, Outcomes DEF IndexInv

(* In every reachable state of the queue the invariant holds. *)
THEOREM Invariance == Spec => []IndexInv
  BY Initially, Inductively, PTL DEF Spec

(* Type correctness of the queue's table, locks and threads. *)
THEOREM TypeCorrect == Spec => []TypeOK
<1>1. IndexInv => TypeOK
  BY DEF IndexInv
<1> QED
  BY <1>1, Invariance, PTL

(* No two threads, of one process or of several, run index_repository at the *)
(* same time.                                                                *)
THEOREM MutualExclusion == Spec => []OneIndexer
<1>1. IndexInv => OneIndexer
  <2> SUFFICES ASSUME LockDiscipline,
                      NEW p \in Procs, NEW q \in Procs,
                      NEW t \in {"main", "worker"}, NEW u \in {"main", "worker"},
                      Indexing(p, t), Indexing(q, u)
               PROVE  p = q /\ t = u
    BY DEF IndexInv, OneIndexer
  <2>1. t = "worker" => wpc[p] \in Holding
    BY DEF Indexing, Holding
  <2>2. u = "worker" => wpc[q] \in Holding
    BY DEF Indexing, Holding
  <2>3. t = "main" => ppc[p] \in MainHolding
    BY DEF Indexing, MainHolding
  <2>4. u = "main" => ppc[q] \in MainHolding
    BY DEF Indexing, MainHolding
  <2> QED
    BY <2>1, <2>2, <2>3, <2>4, OneHolder
<1> QED
  BY <1>1, Invariance, PTL

(* No starting process and no recovery closes a job that some worker is     *)
(* executing, however late its heartbeat is.                                *)
THEOREM NoTakeover == Spec => []ExecutedJobStaysOpen
<1>1. IndexInv => ExecutedJobStaysOpen
  BY DEF IndexInv
<1> QED
  BY <1>1, Invariance, PTL

(* No job is ever executed twice. *)
THEOREM AtMostOnce == Spec => []RunsAtMostOnce
<1>1. IndexInv => RunsAtMostOnce
  BY DEF IndexInv, Attempts
<1> QED
  BY <1>1, Invariance, PTL

(* A running row always has a lease that can expire. *)
THEOREM Recoverable == Spec => []RunningIsRecoverable
<1>1. IndexInv => RunningIsRecoverable
  BY DEF IndexInv
<1> QED
  BY <1>1, Invariance, PTL

(* A row that says completed or failed says what happened to the index. *)
THEOREM HonestOutcome == Spec => []OutcomeMatchesIndex
<1>1. IndexInv => OutcomeMatchesIndex
  BY DEF IndexInv
<1> QED
  BY <1>1, Invariance, PTL

(* Jobs are claimed in the order in which they were created. *)
THEOREM FirstComeFirstServed == Spec => ClaimInOrder
<1>1. IndexInv /\ [Next]_vars
        => [\A j \in Job : attempt'[j] # attempt[j]
              => \A i \in 1..(j - 1) : status[i] # "queued"]_vars
  <2> SUFFICES ASSUME IndexInv, Next, NEW j \in Job, attempt'[j] # attempt[j]
               PROVE  \A i \in 1..(j - 1) : status[i] # "queued"
    OBVIOUS
  <2>1. PICK p \in Procs : ClaimWon(p)
    <3>1. \A q \in Procs : Lifecycle(q) \/ Call(q) \/ Continue(q) \/ Renew(q)
            => UNCHANGED attempt
      BY DEF Lifecycle, Call, Continue, Start, Crash, Close, Create,
             Resume, ExclusiveStart, CancelRead, RecoverRead, Boot, Mark,
             MarkDone, Kick, Exit, Submit, CancelReload, CancelWrite,
             RecoverLock, RecoverRecheck, RecoverWrite, ExclusiveEnd,
             Insert, Renew, Update, table
    <3>2. \A i \in Job : LeaseLapse(i) => UNCHANGED attempt
      BY DEF LeaseLapse
    <3>3. \A q \in Procs : Work(q) => UNCHANGED attempt \/ ClaimWon(q)
      BY DEF Work, Poll, TryLock, Reread, ClaimLost, Prepare,
             CheckCancel, SaveStage, DoStretch, FailStretch, SaveOutcome,
             Finish, FutureDone, WorkerFinished, Update, SetStage, table
    <3> QED
      BY <3>1, <3>2, <3>3 DEF Next
  <2>2. attempt' = [attempt EXCEPT ![wjob[p]] = @ + 1]
    BY <2>1 DEF ClaimWon
  <2>3. j = wjob[p]
    BY <2>2 DEF IndexInv, TypeOK
  <2> QED
    BY <2>1, <2>3 DEF IndexInv, QueueOrder, ClaimWon
<1> QED
  BY <1>1, Invariance, PTL DEF Spec, ClaimInOrder

-----------------------------------------------------------------------------
(***************************************************************************)
(* IndexJobs implements ExclusiveQueue.  A step of the table, the lock or  *)
(* a thread is one step of the abstract queue or none; which one it is     *)
(* needs the inductive invariant.                                          *)
(***************************************************************************)

\* No worker begins or ends an execution, and no synchronous call does.
SameExecution ==
  \A p \in Procs : /\ wpc'[p] \in Claimed <=> wpc[p] \in Claimed
                   /\ wpc[p] \in Claimed => wjob'[p] = wjob[p]
SameCalls == \A p \in Procs : ppc'[p] = "exclusive" <=> ppc[p] = "exclusive"

\* A row that exists is closed, or marked to be.
RowClosed(j) ==
  \E s \in Active \union Terminal :
    /\ status[j] # "absent"
    /\ status' = [status EXCEPT ![j] = s]

QueueStep == [Queue!Next]_<<PlaceOf, InSyncCall>>

-----------------------------------------------------------------------------
(* The row of an executed job is open or cancelled. *)
LEMMA ExecutedRow ==
  ASSUME IndexInv, NEW j \in Job, Executes(j)
  PROVE  status[j] \in Active \union {"cancelled"}
  BY DEF IndexInv, ExecutedJobStaysOpen, Executes

(* At most one job is executed, and none during a synchronous call. *)
LEMMA OneExecuted ==
  ASSUME IndexInv
  PROVE  /\ \A i, j \in Job : Executes(i) /\ Executes(j) => i = j
         /\ InSyncCall => \A j \in Job : ~Executes(j)
<1>1. LockDiscipline
  BY DEF IndexInv
<1> QED
  BY <1>1, OneHolder DEF Executes, InSyncCall, Holding, MainHolding

(* One job changes its place and the others keep theirs. *)
LEMMA OneMoves ==
  ASSUME NEW j \in Job, \A i \in Job \ {j} : JobPlace(i)' = JobPlace(i)
  PROVE  PlaceOf' = [PlaceOf EXCEPT ![j] = JobPlace(j)']
  BY DEF PlaceOf

LEMMA NoneMoves ==
  ASSUME \A i \in Job : JobPlace(i)' = JobPlace(i)
  PROVE  PlaceOf' = PlaceOf
  BY DEF PlaceOf

(* Steps that begin and end no execution leave every job executed or not. *)
LEMMA ExecutionKept ==
  ASSUME SameExecution
  PROVE  \A j \in Job : Executes(j)' <=> Executes(j)
  BY DEF SameExecution, Executes

(* Steps that change neither a row's status nor who executes what. *)
LEMMA Quiet ==
  ASSUME UNCHANGED status, SameExecution, SameCalls
  PROVE  UNCHANGED <<PlaceOf, InSyncCall>>
<1>1. \A j \in Job : JobPlace(j)' = JobPlace(j)
  BY ExecutionKept DEF JobPlace
<1>2. InSyncCall' = InSyncCall
  BY DEF SameCalls, InSyncCall
<1> QED
  BY <1>1, <1>2, NoneMoves

(* Closing a row withdraws a waiting job and leaves any other in its place. *)
LEMMA Closing ==
  ASSUME TypeOK, NEW j \in Job, RowClosed(j), SameExecution, SameCalls
  PROVE  Queue!Withdraw(j) \/ UNCHANGED <<PlaceOf, InSyncCall>>
<1>1. InSyncCall' = InSyncCall
  BY DEF SameCalls, InSyncCall
<1>2. \A i \in Job : Executes(i)' <=> Executes(i)
  BY ExecutionKept
<1>3. \A i \in Job \ {j} : status'[i] = status[i]
  BY DEF RowClosed, TypeOK
<1>4. status'[j] \notin {"absent", "queued"} /\ status[j] # "absent"
  BY DEF RowClosed, TypeOK, Active, Terminal
<1>5. \A i \in Job \ {j} : JobPlace(i)' = JobPlace(i)
  BY <1>2, <1>3 DEF JobPlace
<1>6. CASE Executes(j) \/ status[j] # "queued"
  <2>1. JobPlace(j)' = JobPlace(j)
    BY <1>2, <1>4, <1>6 DEF JobPlace
  <2> QED
    BY <1>1, <1>5, <2>1, NoneMoves
<1>7. CASE ~Executes(j) /\ status[j] = "queued"
  <2>1. JobPlace(j) = "waiting" /\ JobPlace(j)' = "over"
    BY <1>2, <1>4, <1>7 DEF JobPlace
  <2>2. PlaceOf' = [PlaceOf EXCEPT ![j] = "over"] /\ PlaceOf[j] = "waiting"
    BY <1>5, <2>1, OneMoves DEF PlaceOf
  <2> QED
    BY <1>1, <2>2 DEF Queue!Withdraw, Queue!Move
<1> QED
  BY <1>6, <1>7

-----------------------------------------------------------------------------
(* The steps that are steps of the abstract queue. *)

LEMMA InsertEnters ==
  ASSUME IndexInv, NEW p \in Procs, Insert(p)
  PROVE  QueueStep
<1>1. TypeOK /\ QueueOrder
  BY DEF IndexInv
<1>2. PICK j \in Job :
        /\ status[j] = "absent" /\ \A i \in 1..(j - 1) : status[i] # "absent"
        /\ status' = [status EXCEPT ![j] = "queued"]
  BY DEF Insert
<1>3. \A i \in Job : Executes(i)' <=> Executes(i)
  BY ExecutionKept DEF Insert, SameExecution, worker
<1>4. InSyncCall' = InSyncCall
  BY <1>1 DEF Insert, InSyncCall, Goto, TypeOK
<1>5. ~Executes(j)
  BY <1>2, ExecutedRow DEF Active
<1>6. \A i \in Job \ {j} : status'[i] = status[i]
  BY <1>1, <1>2 DEF TypeOK
<1>7. status'[j] = "queued"
  BY <1>1, <1>2 DEF TypeOK
<1>8. JobPlace(j) = "absent" /\ JobPlace(j)' = "waiting"
  BY <1>2, <1>3, <1>5, <1>7 DEF JobPlace
<1>9. \A i \in Job \ {j} : JobPlace(i)' = JobPlace(i)
  BY <1>3, <1>6 DEF JobPlace
<1>10. PlaceOf' = [PlaceOf EXCEPT ![j] = "waiting"] /\ PlaceOf[j] = "absent"
  BY <1>8, <1>9, OneMoves DEF PlaceOf
<1>11. \A i \in Job : PlaceOf[i] = "absent" => j <= i
  <2> SUFFICES ASSUME NEW i \in Job, JobPlace(i) = "absent" PROVE j <= i
    BY DEF PlaceOf
  <2>1. status[i] = "absent"
    BY DEF JobPlace
  <2> QED
    BY <1>2, <2>1 DEF Job
<1> QED
  BY <1>4, <1>10, <1>11
  DEF QueueStep, Queue!Next, Queue!Enter, Queue!Move, Queue!At

LEMMA ClaimTakes ==
  ASSUME IndexInv, NEW p \in Procs, ClaimWon(p)
  PROVE  QueueStep
<1>1. TypeOK /\ Locals /\ LockDiscipline /\ QueueOrder
  BY DEF IndexInv
<1> PICK j \in Job : j = wjob[p]
  BY <1>1 DEF ClaimWon, Locals
<1>2. wpc[p] = "claim" /\ status[j] = "queued"
  BY DEF ClaimWon
<1>3. wpc[p] \in Holding
  BY <1>2 DEF Holding
<1>4. \A i \in Job : ~Executes(i)
  BY <1>1, <1>2, <1>3, OneHolder DEF Executes, Holding, Claimed, Outcome
<1>5. ~InSyncCall /\ InSyncCall' = InSyncCall
  BY <1>1, <1>3, OneHolder DEF InSyncCall, MainHolding, ClaimWon, request
<1>6. \A i \in Job : Executes(i)' <=> i = j
  <2>1. wpc'[p] \in Claimed /\ wjob' = wjob
    BY <1>1 DEF ClaimWon, Step, TypeOK, Claimed
  <2>2. \A q \in Procs \ {p} : wpc'[q] = wpc[q] /\ wpc[q] \notin Claimed
    BY <1>1, <1>3, OneHolder DEF ClaimWon, Step, TypeOK, Holding
  <2> QED
    BY <2>1, <2>2 DEF Executes
<1>7. \A i \in Job \ {j} : status'[i] = status[i]
  BY <1>1 DEF TypeOK, ClaimWon
<1>8. JobPlace(j) = "waiting" /\ JobPlace(j)' = "executing"
  BY <1>2, <1>4, <1>6 DEF JobPlace
<1>9. \A i \in Job \ {j} : JobPlace(i)' = JobPlace(i)
  BY <1>4, <1>6, <1>7 DEF JobPlace
<1>10. PlaceOf' = [PlaceOf EXCEPT ![j] = "executing"] /\ PlaceOf[j] = "waiting"
  BY <1>2, <1>8, <1>9, OneMoves DEF PlaceOf
<1>11. \A i \in Job : PlaceOf[i] = "waiting" => j <= i
  <2> SUFFICES ASSUME NEW i \in Job, JobPlace(i) = "waiting" PROVE j <= i
    BY DEF PlaceOf
  <2>1. status[i] = "queued"
    BY DEF JobPlace
  <2>2. \A k \in 1..(j - 1) : status[k] # "queued"
    BY <1>1, <1>2 DEF QueueOrder
  <2> QED
    BY <1>2, <2>1, <2>2 DEF Job
<1>12. \A i \in Job : PlaceOf[i] # "executing"
  BY <1>4 DEF PlaceOf, JobPlace
<1> QED
  BY <1>2, <1>5, <1>10, <1>11, <1>12
  DEF QueueStep, Queue!Next, Queue!Take, Queue!Move, Queue!At

\* What a worker leaves when its execution ends with the row closed.
LEMMA Leaving ==
  ASSUME IndexInv, NEW p \in Procs, NEW j \in Job,
         wpc[p] \in Claimed, wjob[p] = j,
         wpc'[p] \notin Claimed,
         \A q \in Procs \ {p} : wpc'[q] = wpc[q],
         status'[j] \notin {"absent", "queued"},
         \A i \in Job \ {j} : status'[i] = status[i],
         InSyncCall' = InSyncCall
  PROVE  QueueStep
<1>1. LockDiscipline /\ wpc[p] \in Holding
  BY DEF IndexInv, Holding
<1>2. \A q \in Procs \ {p} : wpc[q] \notin Claimed
  BY <1>1, OneHolder DEF Holding
<1>3. \A i \in Job : Executes(i) <=> i = j
  BY <1>2 DEF Executes
<1>4. \A i \in Job : ~Executes(i)'
  BY <1>2 DEF Executes
<1>5. JobPlace(j) = "executing" /\ JobPlace(j)' = "over"
  BY <1>1, <1>3, <1>4 DEF JobPlace
<1>6. \A i \in Job \ {j} : JobPlace(i)' = JobPlace(i)
  BY <1>3, <1>4 DEF JobPlace
<1>7. PlaceOf' = [PlaceOf EXCEPT ![j] = "over"] /\ PlaceOf[j] = "executing"
  BY <1>1, <1>5, <1>6, OneMoves DEF PlaceOf
<1> QED
  BY <1>1, <1>7 DEF QueueStep, Queue!Next, Queue!Leave, Queue!Move

LEMMA OutcomeLeaves ==
  ASSUME IndexInv, NEW p \in Procs, SaveOutcome(p)
  PROVE  QueueStep
<1>1. TypeOK /\ Locals
  BY DEF IndexInv
<1>2. wpc[p] \in Claimed /\ wjob[p] \in Job
  BY <1>1 DEF SaveOutcome, Claimed, Locals
<1>3. wpc'[p] \notin Claimed /\ \A q \in Procs \ {p} : wpc'[q] = wpc[q]
  BY <1>1 DEF SaveOutcome, Step, TypeOK, Claimed, Outcome
<1>4. status'[wjob[p]] \notin {"absent", "queued"}
  BY <1>1, <1>2 DEF SaveOutcome, Update, TypeOK, Outcome
<1>5. \A i \in Job \ {wjob[p]} : status'[i] = status[i]
  BY <1>1 DEF SaveOutcome, Update, TypeOK
<1>6. InSyncCall' = InSyncCall
  BY DEF SaveOutcome, InSyncCall, request
<1> QED
  BY <1>2, <1>3, <1>4, <1>5, <1>6, Leaving

LEMMA SyncCallStarts ==
  ASSUME IndexInv, NEW p \in Procs, ExclusiveStart(p)
  PROVE  QueueStep
<1>1. TypeOK /\ LockDiscipline
  BY DEF IndexInv
<1>2. \A q \in Procs : wpc[q] \notin Claimed /\ ppc[q] # "exclusive"
  BY <1>1 DEF ExclusiveStart, LockFree, LockDiscipline, Holding, MainHolding
<1>3. \A j \in Job : JobPlace(j)' = JobPlace(j) /\ ~Executes(j)
  BY <1>2 DEF ExclusiveStart, JobPlace, Executes, table, worker
<1>4. PlaceOf' = PlaceOf
  BY <1>3, NoneMoves
<1>5. InSyncCall' = TRUE /\ ~InSyncCall
  BY <1>1, <1>2 DEF ExclusiveStart, Goto, TypeOK, InSyncCall
<1>6. \A j \in Job : PlaceOf[j] # "executing"
  BY <1>3 DEF PlaceOf, JobPlace
<1> QED
  BY <1>4, <1>5, <1>6
  DEF QueueStep, Queue!Next, Queue!SyncStart, Queue!At

\* The end of a synchronous call, by its return or by the death of its process.
LEMMA SyncCallEnds ==
  ASSUME IndexInv, NEW p \in Procs, ppc[p] = "exclusive", ppc'[p] # "exclusive",
         \A q \in Procs \ {p} : ppc'[q] = ppc[q],
         UNCHANGED status, SameExecution
  PROVE  QueueStep
<1>1. LockDiscipline /\ ppc[p] \in MainHolding
  BY DEF IndexInv, MainHolding
<1>2. \A q \in Procs \ {p} : ppc'[q] # "exclusive"
  BY <1>1, OneHolder DEF MainHolding
<1>3. InSyncCall /\ InSyncCall' = FALSE
  BY <1>2 DEF InSyncCall
<1>4. PlaceOf' = PlaceOf
  BY ExecutionKept, NoneMoves DEF JobPlace
<1> QED
  BY <1>3, <1>4 DEF QueueStep, Queue!Next, Queue!SyncEnd

LEMMA CrashEnds ==
  ASSUME IndexInv, NEW p \in Procs, Crash(p)
  PROVE  QueueStep
<1>1. TypeOK /\ Locals /\ LockDiscipline
  BY DEF IndexInv
<1>2. /\ wpc'[p] = "idle" /\ \A q \in Procs \ {p} : wpc'[q] = wpc[q]
      /\ ppc'[p] = "down" /\ \A q \in Procs \ {p} : ppc'[q] = ppc[q]
      /\ \A q \in Procs \ {p} : wjob'[q] = wjob[q]
      /\ status' = status
  BY <1>1 DEF Crash, Step, Goto, TypeOK, table
<1>3. "idle" \notin Claimed
  BY DEF Claimed, Outcome
<1>4. CASE wpc[p] \in Claimed
  <2> PICK j \in Job : j = wjob[p]
    BY <1>1, <1>4 DEF Locals
  <2>1. Executes(j)
    BY <1>4 DEF Executes
  <2>2. status'[j] \notin {"absent", "queued"}
    BY <1>2, <2>1, ExecutedRow DEF Active
  <2>3. ~InSyncCall
    BY <2>1, OneExecuted
  <2>4. InSyncCall' = InSyncCall
    BY <1>2, <2>3 DEF InSyncCall
  <2> QED
    BY <1>2, <1>3, <1>4, <2>2, <2>4, Leaving
<1>5. CASE wpc[p] \notin Claimed
  <2>1. SameExecution
    BY <1>2, <1>3, <1>5 DEF SameExecution
  <2>2. CASE ppc[p] = "exclusive"
    BY <1>2, <2>1, <2>2, SyncCallEnds
  <2>3. CASE ppc[p] # "exclusive"
    BY <1>2, <2>1, <2>3, Quiet DEF QueueStep, SameCalls
  <2> QED
    BY <2>2, <2>3
<1> QED
  BY <1>4, <1>5

-----------------------------------------------------------------------------
(* The other steps: a row is closed, or nothing is seen from outside. *)

LEMMA QuietStep ==
  ASSUME UNCHANGED status, SameExecution, SameCalls
  PROVE  QueueStep
  BY Quiet DEF QueueStep

LEMMA ClosingStep ==
  ASSUME TypeOK, NEW j \in Job, RowClosed(j), SameExecution, SameCalls
  PROVE  QueueStep
  BY Closing DEF QueueStep, Queue!Next

LEMMA ContinueStep ==
  ASSUME IndexInv, NEW p \in Procs, Continue(p)
  PROVE  QueueStep
<1>1. TypeOK /\ Locals /\ QueueOrder
  BY DEF IndexInv
<1> USE DEF Claimed, Outcome, table, request, worker, index
<1>2. CASE Boot(p) \/ MarkDone(p) \/ Exit(p) \/ CancelReload(p)
             \/ RecoverLock(p) \/ RecoverRecheck(p)
  <2>1. UNCHANGED status /\ SameExecution
    BY <1>2 DEF Boot, MarkDone, Exit, CancelReload, RecoverLock,
                RecoverRecheck, SameExecution
  <2>2. SameCalls
    BY <1>1, <1>2 DEF Boot, MarkDone, Exit, CancelReload, RecoverLock,
        RecoverRecheck, SameCalls, Goto, Return, TypeOK
  <2> QED
    BY <2>1, <2>2, QuietStep
<1>3. CASE Kick(p) \/ Submit(p)
  <2>1. UNCHANGED status /\ SameExecution
    BY <1>1, <1>3 DEF Kick, Submit, StartWorker, SameExecution, TypeOK
  <2>2. SameCalls
    BY <1>1, <1>3 DEF Kick, Submit, SameCalls, Goto, Return, TypeOK
  <2> QED
    BY <2>1, <2>2, QuietStep
<1>4. CASE Mark(p)
  <2>1. PICK j \in todo[p] : Update(j, "interrupted", "none")
    BY <1>4 DEF Mark
  <2>2. j \in Job /\ RowClosed(j)
    BY <1>1, <2>1 DEF Update, RowClosed, Terminal, QueueOrder, TypeOK
  <2>3. SameExecution /\ SameCalls
    BY <1>4 DEF Mark, SameExecution, SameCalls
  <2> QED
    BY <1>1, <2>2, <2>3, ClosingStep
<1>5. CASE CancelWrite(p) \/ RecoverWrite(p)
  <2> PICK j \in Job : j = pjob[p]
    BY <1>1, <1>5 DEF CancelWrite, RecoverWrite, Locals
  <2>1. status' = [status EXCEPT ![j] = goal[p]]
    BY <1>5 DEF CancelWrite, RecoverWrite, Update
  <2>2. goal[p] \in Active \union Terminal /\ status[j] # "absent"
    BY <1>1, <1>5 DEF CancelWrite, RecoverWrite, Locals, Active, Terminal, QueueOrder
  <2>3. SameExecution
    BY <1>5 DEF CancelWrite, RecoverWrite, SameExecution
  <2>4. SameCalls
    BY <1>1, <1>5 DEF CancelWrite, RecoverWrite, SameCalls, Goto, Return, TypeOK
  <2> QED
    BY <1>1, <2>1, <2>2, <2>3, <2>4, ClosingStep DEF RowClosed
<1>6. CASE ExclusiveEnd(p)
  <2>1. SameExecution /\ UNCHANGED status
    BY <1>6 DEF ExclusiveEnd, SameExecution
  <2>2. /\ ppc[p] = "exclusive" /\ ppc'[p] # "exclusive"
        /\ \A q \in Procs \ {p} : ppc'[q] = ppc[q]
    BY <1>1, <1>6 DEF ExclusiveEnd, Goto, TypeOK
  <2> QED
    BY <2>1, <2>2, SyncCallEnds
<1> QED
  BY <1>2, <1>3, <1>4, <1>5, <1>6 DEF Continue

LEMMA WorkStep ==
  ASSUME IndexInv, NEW p \in Procs, Work(p)
  PROVE  QueueStep
<1>1. TypeOK /\ Locals /\ QueueOrder
  BY DEF IndexInv
<1> USE DEF Claimed, Outcome, table, request, worker, index
<1>2. CASE Poll(p) \/ TryLock(p) \/ Reread(p) \/ Finish(p)
             \/ FutureDone(p) \/ WorkerFinished(p)
  <2>1. UNCHANGED status /\ SameCalls
    BY <1>2 DEF Poll, TryLock, Reread, Finish, FutureDone, WorkerFinished, SameCalls
  <2>2. SameExecution
    BY <1>1, <1>2 DEF Poll, TryLock, Reread, Finish, FutureDone,
        WorkerFinished, SameExecution, Step, TypeOK
  <2> QED
    BY <2>1, <2>2, QuietStep
<1>3. CASE Prepare(p) \/ CheckCancel(p) \/ SaveStage(p) \/ DoStretch(p) \/ FailStretch(p)
  <2>1. UNCHANGED status /\ SameCalls
    BY <1>3 DEF Prepare, CheckCancel, SaveStage, DoStretch, FailStretch,
        SetStage, SameCalls
  <2>2. SameExecution
    BY <1>1, <1>3 DEF Prepare, CheckCancel, SaveStage, DoStretch, FailStretch,
        SameExecution, Step, TypeOK
  <2> QED
    BY <2>1, <2>2, QuietStep
<1>4. CASE ClaimWon(p)
  BY <1>4, ClaimTakes
<1>5. CASE SaveOutcome(p)
  BY <1>5, OutcomeLeaves
<1>6. CASE ClaimLost(p)
  <2>1. SameExecution /\ SameCalls
    BY <1>1, <1>6 DEF ClaimLost, SameExecution, SameCalls, Step, TypeOK
  <2>2. CASE UNCHANGED status
    BY <2>1, <2>2, QuietStep
  <2>3. CASE Update(wjob[p], "cancelled", "none") /\ status[wjob[p]] = "cancelling"
    <3> PICK j \in Job : j = wjob[p]
      BY <1>1, <1>6 DEF ClaimLost, Locals
    <3>1. RowClosed(j)
      BY <2>3 DEF Update, RowClosed, Terminal
    <3> QED
      BY <1>1, <2>1, <3>1, ClosingStep
  <2> QED
    BY <1>6, <2>2, <2>3 DEF ClaimLost
<1> QED
  BY <1>2, <1>3, <1>4, <1>5, <1>6 DEF Work

LEMMA StepRefines == IndexInv /\ [Next]_vars => QueueStep
<1> SUFFICES ASSUME IndexInv, [Next]_vars PROVE QueueStep
  OBVIOUS
<1>1. TypeOK
  BY DEF IndexInv
<1> USE DEF table, request, worker, index
<1>2. CASE UNCHANGED vars
  BY <1>2, QuietStep DEF vars, SameExecution, SameCalls
<1>3. ASSUME NEW p \in Procs, Lifecycle(p) PROVE QueueStep
  <2>1. CASE Start(p) \/ Close(p)
    <3>1. UNCHANGED status /\ SameExecution
      BY <2>1 DEF Start, Close, SameExecution
    <3>2. SameCalls
      BY <1>1, <2>1 DEF Start, Close, SameCalls, Goto, TypeOK
    <3> QED
      BY <3>1, <3>2, QuietStep
  <2> QED
    BY <1>3, <2>1, CrashEnds DEF Lifecycle
<1>4. ASSUME NEW p \in Procs, Call(p) PROVE QueueStep
  <2>1. ASSUME NEW j \in Job, CancelRead(p, j) \/ RecoverRead(p, j) PROVE QueueStep
    <3>1. UNCHANGED status /\ SameExecution
      BY <2>1 DEF CancelRead, RecoverRead, SameExecution
    <3>2. SameCalls
      BY <1>1, <2>1 DEF CancelRead, RecoverRead, SameCalls, Goto, TypeOK
    <3> QED
      BY <3>1, <3>2, QuietStep
  <2> QED
    BY <1>4, <2>1, InsertEnters, SyncCallStarts DEF Call, Create, Resume
<1>5. ASSUME NEW p \in Procs, Renew(p) PROVE QueueStep
  BY <1>5, QuietStep DEF Renew, SameExecution, SameCalls
<1>6. ASSUME NEW j \in Job, LeaseLapse(j) PROVE QueueStep
  BY <1>6, QuietStep DEF LeaseLapse, SameExecution, SameCalls
<1> QED
  BY <1>2, <1>3, <1>4, <1>5, <1>6, ContinueStep, WorkStep DEF Next

LEMMA InitRefines == Init => Queue!Init
<1> SUFFICES ASSUME Init PROVE Queue!Init
  OBVIOUS
<1>1. \A j \in Job : JobPlace(j) = "absent"
  BY DEF Init, JobPlace, Executes, Claimed, Outcome
<1>2. InSyncCall = FALSE
  BY DEF Init, InSyncCall
<1> QED
  BY <1>1, <1>2 DEF Queue!Init, PlaceOf

(* The index queue, with its table, its file lock and the threads of any    *)
(* number of processes that crash and start as they like, is seen from      *)
(* outside as one queue that executes one job at a time, in the order of    *)
(* the rows, each once at most and none during a synchronous index call.    *)
THEOREM Implementation == Spec => ImplementsQueue
<1>1. QueueStep => [Queue!Next]_<<PlaceOf, InSyncCall>>
  BY DEF QueueStep
<1>2. IndexInv /\ [Next]_vars => [Queue!Next]_<<PlaceOf, InSyncCall>>
  BY <1>1, StepRefines
<1> QED
  BY <1>2, InitRefines, Invariance, PTL DEF Spec, ImplementsQueue, Queue!Spec
==============================================================================
