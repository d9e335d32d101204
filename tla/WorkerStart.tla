----------------------------- MODULE WorkerStart -----------------------------
(***************************************************************************)
(* How one process of secval starts and restarts its single queue worker:  *)
(* _start_worker_if_needed, _worker_finished and _drain_queue of           *)
(* services/index_job_service.py (services/audit_service.py has the same   *)
(* three methods), on top of a ThreadPoolExecutor of one thread.           *)
(*                                                                         *)
(* IndexJobs takes the start of a worker as one step; this module opens    *)
(* that step: self.lock is a plain Lock, submit and add_done_callback are  *)
(* two calls, and a callback added to a future that is already done runs   *)
(* at once, in the thread that adds it.                                    *)
(***************************************************************************)
EXTENDS Naturals

CONSTANTS Requesters,   \* threads that serve create calls
          MaxCreates    \* bound: rows inserted by this process

ASSUME MaxCreatesAssumption == MaxCreates \in Nat \ {0}

Executor == "executor"  \* the pool's thread
Closer   == "closer"    \* the thread that shuts the service down
Nobody   == "nobody"
ASSUME RequestersAssumption == Requesters \cap {Executor, Closer, Nobody} = {}

\* Futures are numbered as submitted; each is due to a create or to a callback
\* that saw a queued row.
MaxFutures == 2 * MaxCreates
Future == 1..MaxFutures

VARIABLES
  queued,      \* rows of this process in status queued
  created,     \* rows it inserted so far
  lock,        \* holder of self.lock
  future,      \* self.future: the last one assigned, 0 for None
  fstate,      \* state of each future
  registered,  \* futures whose list of callbacks holds _worker_finished
  closed,      \* self.closed
  pc,          \* place of each thread
  current      \* the future the executor thread is running or finishing

vars == <<queued, created, lock, future, fstate, registered, closed, pc, current>>

Threads == Requesters \union {Executor, Closer}

PC == {"idle", "lock", "check", "register", "inline", "drain", "return",
       "callback", "recheck", "reregister", "unlock", "shutdown", "closed"}

TypeOK ==
  /\ queued \in 0..created
  /\ created \in 0..MaxCreates
  /\ lock \in Threads \union {Nobody}
  /\ future \in Future \union {0}
  /\ fstate \in [Future -> {"none", "pending", "running", "done"}]
  /\ registered \subseteq Future
  /\ closed \in BOOLEAN
  /\ pc \in [Threads -> PC]
  /\ current \in Future \union {0}

Init ==
  /\ queued = 0 /\ created = 0
  /\ lock = Nobody
  /\ future = 0
  /\ fstate = [f \in Future |-> "none"]
  /\ registered = {}
  /\ closed = FALSE
  /\ pc = [t \in Threads |-> "idle"]
  /\ current = 0

Goto(t, place) == pc' = [pc EXCEPT ![t] = place]

FutureDone == future = 0 \/ fstate[future] = "done"

\* self.future = self.executor.submit(self._drain_queue)
Submit ==
  /\ future < MaxFutures
  /\ future' = future + 1
  /\ fstate' = [fstate EXCEPT ![future + 1] = "pending"]

-----------------------------------------------------------------------------
(* create, and _start_worker_if_needed under self.lock *)

Insert(r) ==
  /\ pc[r] = "idle"
  /\ created < MaxCreates
  /\ created' = created + 1
  /\ queued' = queued + 1
  /\ Goto(r, "lock")
  /\ UNCHANGED <<lock, future, fstate, registered, closed, current>>

Lock(r) ==
  /\ pc[r] = "lock"
  /\ lock = Nobody
  /\ lock' = r
  /\ Goto(r, "check")
  /\ UNCHANGED <<queued, created, future, fstate, registered, closed, current>>

\* (faulty variant) the worker is started without looking at the old one.
CheckNothing(r) ==
  /\ pc[r] = "check"
  /\ IF ~closed
     THEN Submit /\ Goto(r, "register")
     ELSE Goto(r, "unlock") /\ UNCHANGED <<future, fstate>>
  /\ UNCHANGED <<queued, created, lock, registered, closed, current>>

\* A closed service refuses (the row stays); a worker that is not done is
\* trusted to see the row; otherwise a new one is submitted.
Check(r) ==
  /\ pc[r] = "check"
  /\ IF ~closed /\ FutureDone
     THEN Submit /\ Goto(r, "register")
     ELSE Goto(r, "unlock") /\ UNCHANGED <<future, fstate>>
  /\ UNCHANGED <<queued, created, lock, registered, closed, current>>

\* (faulty variant) no callback is added.
RegisterNothing(r) ==
  /\ pc[r] = "register"
  /\ Goto(r, "unlock")
  /\ UNCHANGED <<queued, created, lock, future, fstate, registered, closed, current>>

\* future.add_done_callback: kept for later, or called here and now -- and
\* _worker_finished begins with self.lock, which this thread holds and which
\* is not reentrant: from "inline" there is no step.
Register(r) ==
  /\ pc[r] = "register"
  /\ IF fstate[future] = "done"
     THEN Goto(r, "inline") /\ UNCHANGED registered
     ELSE Goto(r, "unlock") /\ registered' = registered \union {future}
  /\ UNCHANGED <<queued, created, lock, future, fstate, closed, current>>

Unlock(r) ==
  /\ pc[r] = "unlock"
  /\ lock' = Nobody
  /\ Goto(r, "idle")
  /\ UNCHANGED <<queued, created, future, fstate, registered, closed, current>>

-----------------------------------------------------------------------------
(* The executor's thread *)

Begin ==
  /\ pc[Executor] = "idle"
  /\ \E f \in Future : /\ fstate[f] = "pending"
                       /\ fstate' = [fstate EXCEPT ![f] = "running"]
                       /\ current' = f
  /\ Goto(Executor, "drain")
  /\ UNCHANGED <<queued, created, lock, future, registered, closed>>

\* One round of _drain_queue: a job is taken and executed ...
Take ==
  /\ pc[Executor] = "drain"
  /\ ~closed
  /\ queued > 0
  /\ queued' = queued - 1
  /\ UNCHANGED <<created, lock, future, fstate, registered, closed, pc, current>>

\* ... or the loop is left.
Leave ==
  /\ pc[Executor] = "drain"
  /\ closed \/ queued = 0
  /\ Goto(Executor, "return")
  /\ UNCHANGED <<queued, created, lock, future, fstate, registered, closed, current>>

\* Future.set_result, which then calls the callbacks it has.
SetResult ==
  /\ pc[Executor] = "return"
  /\ fstate' = [fstate EXCEPT ![current] = "done"]
  /\ Goto(Executor, IF current \in registered THEN "callback" ELSE "idle")
  /\ UNCHANGED <<queued, created, lock, future, registered, closed, current>>

CallbackLock ==
  /\ pc[Executor] = "callback"
  /\ lock = Nobody
  /\ lock' = Executor
  /\ Goto(Executor, "recheck")
  /\ UNCHANGED <<queued, created, future, fstate, registered, closed, current>>

\* (faulty variant) the finished worker never looks back at the queue.
CallbackCheckNothing ==
  /\ pc[Executor] = "recheck"
  /\ Goto(Executor, "unlock")
  /\ UNCHANGED <<queued, created, lock, future, fstate, registered, closed, current>>

\* _worker_finished: only for the latest future, only with work to do.
CallbackCheck ==
  /\ pc[Executor] = "recheck"
  /\ IF future = current /\ ~closed /\ queued > 0
     THEN Submit /\ Goto(Executor, "reregister")
     ELSE Goto(Executor, "unlock") /\ UNCHANGED <<future, fstate>>
  /\ UNCHANGED <<queued, created, lock, registered, closed, current>>

\* This thread is the only one that could have finished the new future.
CallbackRegister ==
  /\ pc[Executor] = "reregister"
  /\ registered' = registered \union {future}
  /\ Goto(Executor, "unlock")
  /\ UNCHANGED <<queued, created, lock, future, fstate, closed, current>>

CallbackUnlock ==
  /\ pc[Executor] = "unlock"
  /\ lock' = Nobody
  /\ Goto(Executor, "idle")
  /\ UNCHANGED <<queued, created, future, fstate, registered, closed, current>>

-----------------------------------------------------------------------------
(* The surroundings *)

\* A worker of another process claims a row of the shared table.
OtherTake ==
  /\ queued > 0
  /\ queued' = queued - 1
  /\ UNCHANGED <<created, lock, future, fstate, registered, closed, pc, current>>

\* close(): the flag under self.lock ...
Close ==
  /\ pc[Closer] = "idle"
  /\ lock = Nobody
  /\ closed' = TRUE
  /\ Goto(Closer, "shutdown")
  /\ UNCHANGED <<queued, created, lock, future, fstate, registered, current>>

\* ... then executor.shutdown(cancel_futures=True): a future that has not begun
\* never will; its callback sees a closed service and does nothing.
Shutdown ==
  /\ pc[Closer] = "shutdown"
  /\ fstate' = [f \in Future |-> IF fstate[f] = "pending" THEN "done" ELSE fstate[f]]
  /\ Goto(Closer, "closed")
  /\ UNCHANGED <<queued, created, lock, future, registered, closed, current>>

-----------------------------------------------------------------------------
Request(r) == Lock(r) \/ Check(r) \/ Register(r) \/ Unlock(r)

Run == \/ Begin \/ Take \/ Leave \/ SetResult
       \/ CallbackLock \/ CallbackCheck \/ CallbackRegister \/ CallbackUnlock

Next ==
  \/ \E r \in Requesters : Insert(r) \/ Request(r)
  \/ Run \/ OtherTake \/ Close \/ Shutdown

Spec == Init /\ [][Next]_vars

\* Threads that can run do run.  The lock itself need not be fair: a process
\* creates finitely many jobs here, so no waiter is overtaken for ever.
Fairness == (\A r \in Requesters : WF_vars(Request(r))) /\ WF_vars(Run)

FairSpec == Spec /\ Fairness

-----------------------------------------------------------------------------
(* Properties *)

Live(f) == fstate[f] \in {"pending", "running"}

\* There is never a second drain loop, running or waiting for the executor.
OneDrainLoop == \A f, g \in Future : Live(f) /\ Live(g) => f = g

\* Somebody is still going to look at the queue: a creator that has not yet
\* checked the worker, a worker that has not left its loop, or the callback
\* of the latest future.
Attentive ==
  \/ \E r \in Requesters : pc[r] \in {"lock", "check"}
  \/ future # 0 /\ Live(future) /\ (fstate[future] = "running" => pc[Executor] = "drain")
  \/ /\ future # 0 /\ future = current
     /\ pc[Executor] \in {"return", "callback", "recheck"}
     /\ future \in registered

\* A thread waits for the lock it holds itself.
Stuck == \E r \in Requesters : pc[r] = "inline"

\* As long as the service is open, no queued row is forgotten: the race of
\* the worker's way out against create, which the comment of _worker_finished
\* names, leaves nobody to look at the queue only if a thread is stuck.
NoRowForgotten == queued > 0 /\ ~closed => Attentive \/ Stuck

\* Every queued row gets taken, unless the service closes or gets stuck.
QueueDrains == queued > 0 ~> (queued = 0 \/ closed \/ Stuck)

\* README.md: "the background interface returns the job number immediately".
CreateReturns == \A r \in Requesters : pc[r] = "lock" ~> pc[r] = "idle"
==============================================================================
