-------------------------- MODULE WorkerStartProofs --------------------------
(***************************************************************************)
(* Proofs about the start of the queue worker, for any number of request   *)
(* threads: there is never a second drain loop, and no row is forgotten    *)
(* unless a thread blocks itself.                                          *)
(***************************************************************************)
EXTENDS WorkerStart, TLAPS

UnderLock == {"check", "register", "inline", "unlock", "recheck", "reregister"}

\* Each thread has its own places, and is alone in those under self.lock.
Places ==
  /\ \A r \in Requesters : pc[r] \in {"idle", "lock", "check", "register", "inline", "unlock"}
  /\ pc[Executor] \in {"idle", "drain", "return", "callback", "recheck",
                       "reregister", "unlock"}
  /\ pc[Closer] \in {"idle", "shutdown", "closed"}
  /\ pc[Closer] # "idle" => closed
  /\ \A t \in Threads : pc[t] \in UnderLock => lock = t

\* Only the latest future can be alive.
Futures ==
  /\ \A f \in Future : /\ f > future => fstate[f] = "none"
                       /\ f < future => fstate[f] = "done"
                       /\ f = future => fstate[f] # "none"
  /\ (\E r \in Requesters : pc[r] = "register") => future # 0

\* What the executor thread is doing to which future.
Execution ==
  /\ \A f \in Future : fstate[f] = "running"
                         => f = current /\ pc[Executor] \in {"drain", "return"}
  /\ pc[Executor] \in {"drain", "return"} => current \in Future /\ fstate[current] = "running"
  /\ pc[Executor] \in {"callback", "recheck", "reregister", "unlock"}
       => /\ current \in Future /\ fstate[current] = "done"
          /\ future # current /\ ~closed => fstate[future] = "pending"
  /\ pc[Executor] = "reregister" => future # current

\* The latest future has its callback, or the thread that submitted it is
\* about to add it, and then a row can only be that of a waiting creator.
Callbacks ==
  /\ \A f \in Future : f = future /\ Live(f) =>
       \/ f \in registered
       \/ \E r \in Requesters : pc[r] = "register"
       \/ pc[Executor] = "reregister"
  /\ (\E r \in Requesters : pc[r] = "register") =>
       \/ fstate[future] = "pending"
       \/ fstate[future] = "running" /\ pc[Executor] = "drain"
       \/ queued = 0 \/ closed
       \/ \E r \in Requesters : pc[r] = "lock"

StartInv ==
  TypeOK /\ Places /\ Futures /\ Execution /\ Callbacks /\ NoRowForgotten
-----------------------------------------------------------------------------
(* What a successful submit does: the next future is a new one, and pending. *)
LEMMA Submitting ==
  ASSUME TypeOK, Submit
  PROVE  /\ future' = future + 1 /\ future' \in Future
         /\ fstate' = [fstate EXCEPT ![future'] = "pending"]
         /\ fstate' \in [Future -> {"none", "pending", "running", "done"}]
  BY MaxCreatesAssumption DEF TypeOK, Submit, Future, MaxFutures

(* Futures are numbered from one; zero is Python's None. *)
LEMMA FutureNumbers == Future \subseteq Nat \ {0}
  BY MaxCreatesAssumption DEF Future, MaxFutures

(* Every step keeps the types. *)
LEMMA Typing ==
  TypeOK /\ Execution /\ Futures /\ [Next]_vars
    => TypeOK'
<1> SUFFICES ASSUME TypeOK, Execution, Futures, [Next]_vars
             PROVE  TypeOK'
  OBVIOUS
<1> USE RequestersAssumption, MaxCreatesAssumption, FutureNumbers
    DEF TypeOK, Threads, PC, Goto, Futures, Execution, FutureDone
<1>1. CASE UNCHANGED vars
  BY <1>1 DEF vars
<1>2. ASSUME NEW r \in Requesters, Insert(r) PROVE TypeOK'
  BY <1>2 DEF Insert
<1>3. ASSUME NEW r \in Requesters, Lock(r) PROVE TypeOK'
  BY <1>3 DEF Lock
<1>4. ASSUME NEW r \in Requesters, Check(r) PROVE TypeOK'
  <2>1. CASE ~closed /\ FutureDone
    <3>1. Submit
      BY <1>4, <2>1 DEF Check, FutureDone
    <3> QED
      BY <1>4, <2>1, <3>1, Submitting DEF Check
  <2>2. CASE ~(~closed /\ FutureDone)
    BY <1>4, <2>2 DEF Check
  <2> QED
    BY <2>1, <2>2
<1>5. ASSUME NEW r \in Requesters, Register(r) PROVE TypeOK'
  BY <1>5 DEF Register
<1>6. ASSUME NEW r \in Requesters, Unlock(r) PROVE TypeOK'
  BY <1>6 DEF Unlock
<1>7. CASE Begin
  BY <1>7 DEF Begin
<1>8. CASE Take
  BY <1>8 DEF Take
<1>9. CASE Leave
  BY <1>9 DEF Leave
<1>10. CASE SetResult
  BY <1>10 DEF SetResult
<1>11. CASE CallbackLock
  BY <1>11 DEF CallbackLock
<1>12. CASE CallbackCheck
  <2>1. CASE future = current /\ ~closed /\ queued > 0
    <3>1. Submit
      BY <1>12, <2>1 DEF CallbackCheck, FutureDone
    <3> QED
      BY <1>12, <2>1, <3>1, Submitting DEF CallbackCheck
  <2>2. CASE ~(future = current /\ ~closed /\ queued > 0)
    BY <1>12, <2>2 DEF CallbackCheck
  <2> QED
    BY <2>1, <2>2
<1>13. CASE CallbackRegister
  BY <1>13 DEF CallbackRegister
<1>14. CASE CallbackUnlock
  BY <1>14 DEF CallbackUnlock
<1>15. CASE OtherTake
  BY <1>15 DEF OtherTake
<1>16. CASE Close
  BY <1>16 DEF Close
<1>17. CASE Shutdown
  BY <1>17 DEF Shutdown
<1> QED
  BY <1>1, <1>2, <1>3, <1>4, <1>5, <1>6, <1>7, <1>8, <1>9, <1>10, <1>11,
     <1>12, <1>13, <1>14, <1>15, <1>16, <1>17
  DEF Next, Request, Run

(* Every step keeps each thread in its places. *)
LEMMA Placing ==
  TypeOK /\ Places /\ [Next]_vars
    => Places'
<1> SUFFICES ASSUME TypeOK, Places, [Next]_vars
             PROVE  Places'
  OBVIOUS
<1> USE RequestersAssumption, FutureNumbers
    DEF TypeOK, Threads, Goto, Places, UnderLock, Executor, Closer, Nobody
<1>1. CASE UNCHANGED vars
  BY <1>1 DEF vars
<1>2. ASSUME NEW r \in Requesters, Insert(r) PROVE Places'
  BY <1>2 DEF Insert
<1>3. ASSUME NEW r \in Requesters, Lock(r) PROVE Places'
  BY <1>3 DEF Lock
<1>4. ASSUME NEW r \in Requesters, Check(r) PROVE Places'
  <2>1. CASE ~closed /\ FutureDone
    <3>1. Submit
      BY <1>4, <2>1 DEF Check, FutureDone
    <3> QED
      BY <1>4, <2>1, <3>1, Submitting DEF Check
  <2>2. CASE ~(~closed /\ FutureDone)
    BY <1>4, <2>2 DEF Check
  <2> QED
    BY <2>1, <2>2
<1>5. ASSUME NEW r \in Requesters, Register(r) PROVE Places'
  BY <1>5 DEF Register
<1>6. ASSUME NEW r \in Requesters, Unlock(r) PROVE Places'
  BY <1>6 DEF Unlock
<1>7. CASE Begin
  BY <1>7 DEF Begin
<1>8. CASE Take
  BY <1>8 DEF Take
<1>9. CASE Leave
  BY <1>9 DEF Leave
<1>10. CASE SetResult
  BY <1>10 DEF SetResult
<1>11. CASE CallbackLock
  BY <1>11 DEF CallbackLock
<1>12. CASE CallbackCheck
  <2>1. CASE future = current /\ ~closed /\ queued > 0
    <3>1. Submit
      BY <1>12, <2>1 DEF CallbackCheck, FutureDone
    <3> QED
      BY <1>12, <2>1, <3>1, Submitting DEF CallbackCheck
  <2>2. CASE ~(future = current /\ ~closed /\ queued > 0)
    BY <1>12, <2>2 DEF CallbackCheck
  <2> QED
    BY <2>1, <2>2
<1>13. CASE CallbackRegister
  BY <1>13 DEF CallbackRegister
<1>14. CASE CallbackUnlock
  BY <1>14 DEF CallbackUnlock
<1>15. CASE OtherTake
  BY <1>15 DEF OtherTake
<1>16. CASE Close
  BY <1>16 DEF Close
<1>17. CASE Shutdown
  BY <1>17 DEF Shutdown
<1> QED
  BY <1>1, <1>2, <1>3, <1>4, <1>5, <1>6, <1>7, <1>8, <1>9, <1>10, <1>11,
     <1>12, <1>13, <1>14, <1>15, <1>16, <1>17
  DEF Next, Request, Run

(* Every step keeps one future alive at most. *)
LEMMA Numbering ==
  TypeOK /\ Places /\ Execution /\ Futures /\ [Next]_vars
    => Futures'
<1> SUFFICES ASSUME TypeOK, Places, Execution, Futures, [Next]_vars
             PROVE  Futures'
  OBVIOUS
<1> USE RequestersAssumption, FutureNumbers
    DEF TypeOK, Threads, Goto, Places, Execution, Futures, FutureDone
<1>1. CASE UNCHANGED vars
  BY <1>1 DEF vars
<1>2. ASSUME NEW r \in Requesters,
            Insert(r) \/ Lock(r) \/ Unlock(r)
     PROVE  Futures'
  BY <1>2 DEF Insert, Lock, Unlock
<1>3. ASSUME NEW r \in Requesters, Check(r) PROVE Futures'
  <2>1. CASE ~closed /\ FutureDone
    <3>1. Submit
      BY <1>3, <2>1 DEF Check, FutureDone
    <3> QED
      BY <1>3, <2>1, <3>1, Submitting DEF Check
  <2>2. CASE ~(~closed /\ FutureDone)
    BY <1>3, <2>2 DEF Check
  <2> QED
    BY <2>1, <2>2
<1>4. ASSUME NEW r \in Requesters, Register(r) PROVE Futures'
  BY <1>4 DEF Register
<1>5. CASE Take \/ Leave \/ CallbackLock \/ CallbackRegister \/
          CallbackUnlock \/ OtherTake \/ Close
  BY <1>5 DEF Take, Leave, CallbackLock, CallbackRegister, CallbackUnlock,
      OtherTake, Close
<1>6. CASE Begin
  BY <1>6 DEF Begin
<1>7. CASE SetResult
  BY <1>7 DEF SetResult
<1>8. CASE CallbackCheck
  <2>1. CASE future = current /\ ~closed /\ queued > 0
    <3>1. Submit
      BY <1>8, <2>1 DEF CallbackCheck, FutureDone
    <3> QED
      BY <1>8, <2>1, <3>1, Submitting DEF CallbackCheck
  <2>2. CASE ~(future = current /\ ~closed /\ queued > 0)
    BY <1>8, <2>2 DEF CallbackCheck
  <2> QED
    BY <2>1, <2>2
<1>9. CASE Shutdown
  BY <1>9 DEF Shutdown
<1> QED
  BY <1>1, <1>2, <1>3, <1>4, <1>5, <1>6, <1>7, <1>8, <1>9
  DEF Next, Request, Run

(* Every step keeps the account of the executor thread. *)
LEMMA Executing ==
  TypeOK /\ Places /\ Futures /\ Execution /\ [Next]_vars
    => Execution'
<1> SUFFICES ASSUME TypeOK, Places, Futures, Execution, [Next]_vars
             PROVE  Execution'
  OBVIOUS
<1> USE RequestersAssumption, FutureNumbers
    DEF TypeOK, Threads, Goto, Places, Futures, Execution, FutureDone
<1>1. CASE UNCHANGED vars
  BY <1>1 DEF vars
<1>2. ASSUME NEW r \in Requesters, Insert(r) PROVE Execution'
  BY <1>2 DEF Insert
<1>3. ASSUME NEW r \in Requesters, Lock(r) PROVE Execution'
  BY <1>3 DEF Lock
<1>4. ASSUME NEW r \in Requesters, Check(r) PROVE Execution'
  <2>1. CASE ~closed /\ FutureDone
    <3>1. Submit
      BY <1>4, <2>1 DEF Check, FutureDone
    <3> QED
      BY <1>4, <2>1, <3>1, Submitting DEF Check
  <2>2. CASE ~(~closed /\ FutureDone)
    BY <1>4, <2>2 DEF Check
  <2> QED
    BY <2>1, <2>2
<1>5. ASSUME NEW r \in Requesters, Register(r) PROVE Execution'
  BY <1>5 DEF Register
<1>6. ASSUME NEW r \in Requesters, Unlock(r) PROVE Execution'
  BY <1>6 DEF Unlock
<1>7. CASE Begin
  BY <1>7 DEF Begin
<1>8. CASE Take
  BY <1>8 DEF Take
<1>9. CASE Leave
  BY <1>9 DEF Leave
<1>10. CASE SetResult
  BY <1>10 DEF SetResult
<1>11. CASE CallbackLock
  BY <1>11 DEF CallbackLock
<1>12. CASE CallbackCheck
  <2>1. CASE future = current /\ ~closed /\ queued > 0
    <3>1. Submit
      BY <1>12, <2>1 DEF CallbackCheck, FutureDone
    <3> QED
      BY <1>12, <2>1, <3>1, Submitting DEF CallbackCheck
  <2>2. CASE ~(future = current /\ ~closed /\ queued > 0)
    BY <1>12, <2>2 DEF CallbackCheck
  <2> QED
    BY <2>1, <2>2
<1>13. CASE CallbackRegister
  BY <1>13 DEF CallbackRegister
<1>14. CASE CallbackUnlock
  BY <1>14 DEF CallbackUnlock
<1>15. CASE OtherTake
  BY <1>15 DEF OtherTake
<1>16. CASE Close
  BY <1>16 DEF Close
<1>17. CASE Shutdown
  BY <1>17 DEF Shutdown
<1> QED
  BY <1>1, <1>2, <1>3, <1>4, <1>5, <1>6, <1>7, <1>8, <1>9, <1>10, <1>11,
     <1>12, <1>13, <1>14, <1>15, <1>16, <1>17
  DEF Next, Request, Run

(* Every step keeps the account of the callbacks. *)
LEMMA Calling ==
  TypeOK /\ Places /\ Futures /\ Execution /\ Callbacks /\ [Next]_vars
    => Callbacks'
<1> SUFFICES ASSUME TypeOK, Places, Futures, Execution, Callbacks,
                    [Next]_vars
             PROVE  Callbacks'
  OBVIOUS
<1> USE RequestersAssumption, FutureNumbers
    DEF TypeOK, Threads, Goto, Places, Futures, Execution, Callbacks,
        Live, FutureDone, UnderLock
<1>1. CASE UNCHANGED vars
  BY <1>1 DEF vars
<1>2. ASSUME NEW r \in Requesters, Insert(r) PROVE Callbacks'
  BY <1>2 DEF Insert
<1>3. ASSUME NEW r \in Requesters, Lock(r) PROVE Callbacks'
  BY <1>3 DEF Lock
<1>4. ASSUME NEW r \in Requesters, Check(r) PROVE Callbacks'
  <2>1. CASE ~closed /\ FutureDone
    <3>1. Submit
      BY <1>4, <2>1 DEF Check, FutureDone
    <3> QED
      BY <1>4, <2>1, <3>1, Submitting DEF Check
  <2>2. CASE ~(~closed /\ FutureDone)
    BY <1>4, <2>2 DEF Check
  <2> QED
    BY <2>1, <2>2
<1>5. ASSUME NEW r \in Requesters, Register(r) PROVE Callbacks'
  BY <1>5 DEF Register
<1>6. ASSUME NEW r \in Requesters, Unlock(r) PROVE Callbacks'
  BY <1>6 DEF Unlock
<1>7. CASE Begin
  BY <1>7 DEF Begin
<1>8. CASE Take
  BY <1>8 DEF Take
<1>9. CASE Leave
  BY <1>9 DEF Leave
<1>10. CASE SetResult
  BY <1>10 DEF SetResult
<1>11. CASE CallbackLock
  BY <1>11 DEF CallbackLock
<1>12. CASE CallbackCheck
  <2>1. CASE future = current /\ ~closed /\ queued > 0
    <3>1. Submit
      BY <1>12, <2>1 DEF CallbackCheck, FutureDone
    <3> QED
      BY <1>12, <2>1, <3>1, Submitting DEF CallbackCheck
  <2>2. CASE ~(future = current /\ ~closed /\ queued > 0)
    BY <1>12, <2>2 DEF CallbackCheck
  <2> QED
    BY <2>1, <2>2
<1>13. CASE CallbackRegister
  BY <1>13 DEF CallbackRegister
<1>14. CASE CallbackUnlock
  BY <1>14 DEF CallbackUnlock
<1>15. CASE OtherTake
  BY <1>15 DEF OtherTake
<1>16. CASE Close
  BY <1>16 DEF Close
<1>17. CASE Shutdown
  BY <1>17 DEF Shutdown
<1> QED
  BY <1>1, <1>2, <1>3, <1>4, <1>5, <1>6, <1>7, <1>8, <1>9, <1>10, <1>11,
     <1>12, <1>13, <1>14, <1>15, <1>16, <1>17
  DEF Next, Request, Run

(* Every step leaves somebody to look at the queue. *)
LEMMA Remembering ==
  TypeOK /\ Places /\ Futures /\ Execution /\ Callbacks /\
  NoRowForgotten /\ [Next]_vars
    => NoRowForgotten'
<1> SUFFICES ASSUME TypeOK, Places, Futures, Execution, Callbacks,
                    NoRowForgotten, [Next]_vars
             PROVE  NoRowForgotten'
  OBVIOUS
<1> USE RequestersAssumption, FutureNumbers
    DEF TypeOK, Threads, Goto, Places, Futures, Execution, Callbacks,
        NoRowForgotten, Attentive, Stuck, Live, FutureDone, UnderLock
<1>1. CASE UNCHANGED vars
  BY <1>1 DEF vars
<1>2. ASSUME NEW r \in Requesters, Insert(r) PROVE NoRowForgotten'
  BY <1>2 DEF Insert
<1>3. ASSUME NEW r \in Requesters, Lock(r) PROVE NoRowForgotten'
  BY <1>3 DEF Lock
<1>4. ASSUME NEW r \in Requesters, Check(r) PROVE NoRowForgotten'
  <2>1. CASE ~closed /\ FutureDone
    <3>1. Submit
      BY <1>4, <2>1 DEF Check, FutureDone
    <3> QED
      BY <1>4, <2>1, <3>1, Submitting DEF Check
  <2>2. CASE ~(~closed /\ FutureDone)
    BY <1>4, <2>2 DEF Check
  <2> QED
    BY <2>1, <2>2
<1>5. ASSUME NEW r \in Requesters, Register(r) PROVE NoRowForgotten'
  BY <1>5 DEF Register
<1>6. ASSUME NEW r \in Requesters, Unlock(r) PROVE NoRowForgotten'
  BY <1>6 DEF Unlock
<1>7. CASE Begin
  BY <1>7 DEF Begin
<1>8. CASE Take
  BY <1>8 DEF Take
<1>9. CASE Leave
  BY <1>9 DEF Leave
<1>10. CASE SetResult
  BY <1>10 DEF SetResult
<1>11. CASE CallbackLock
  BY <1>11 DEF CallbackLock
<1>12. CASE CallbackCheck
  <2>1. CASE future = current /\ ~closed /\ queued > 0
    <3>1. Submit
      BY <1>12, <2>1 DEF CallbackCheck, FutureDone
    <3> QED
      BY <1>12, <2>1, <3>1, Submitting DEF CallbackCheck
  <2>2. CASE ~(future = current /\ ~closed /\ queued > 0)
    BY <1>12, <2>2 DEF CallbackCheck
  <2> QED
    BY <2>1, <2>2
<1>13. CASE CallbackRegister
  BY <1>13 DEF CallbackRegister
<1>14. CASE CallbackUnlock
  BY <1>14 DEF CallbackUnlock
<1>15. CASE OtherTake
  BY <1>15 DEF OtherTake
<1>16. CASE Close
  BY <1>16 DEF Close
<1>17. CASE Shutdown
  BY <1>17 DEF Shutdown
<1> QED
  BY <1>1, <1>2, <1>3, <1>4, <1>5, <1>6, <1>7, <1>8, <1>9, <1>10, <1>11,
     <1>12, <1>13, <1>14, <1>15, <1>16, <1>17
  DEF Next, Request, Run

-----------------------------------------------------------------------------
(* StartInv holds at first and is kept by every step. *)
LEMMA Initially == Init => StartInv
<1> SUFFICES ASSUME Init PROVE StartInv
  OBVIOUS
<1> USE RequestersAssumption, MaxCreatesAssumption, FutureNumbers DEF Init
<1>1. TypeOK
  <2>1. queued \in 0..created /\ created \in 0..MaxCreates
    OBVIOUS
  <2>2. fstate \in [Future -> {"none", "pending", "running", "done"}]
    OBVIOUS
  <2>3. pc \in [Threads -> PC]
    BY DEF PC
  <2>4. closed \in BOOLEAN /\ registered \subseteq Future
    OBVIOUS
  <2> QED
    BY <2>1, <2>2, <2>3, <2>4 DEF TypeOK
<1>2. Places
  BY DEF Places, Threads, UnderLock, Executor, Closer
<1>3. Futures
  BY DEF Futures, Threads
<1>4. Execution
  BY DEF Execution, Threads
<1>5. Callbacks
  BY DEF Callbacks, Threads, Live
<1>6. NoRowForgotten
  BY DEF NoRowForgotten
<1> QED
  BY <1>1, <1>2, <1>3, <1>4, <1>5, <1>6 DEF StartInv

LEMMA Inductively == StartInv /\ [Next]_vars => StartInv'
  BY Typing, Placing, Numbering, Executing, Calling, Remembering DEF StartInv

(* In every reachable state of the service the invariant holds. *)
THEOREM Invariance == Spec => []StartInv
  BY Initially, Inductively, PTL DEF Spec

(* Type correctness; it includes that no row is taken that was not inserted. *)
THEOREM TypeCorrect == Spec => []TypeOK
<1>1. StartInv => TypeOK
  BY DEF StartInv
<1> QED
  BY <1>1, Invariance, PTL

(* A process never has two drain loops, running or submitted. *)
THEOREM SingleWorker == Spec => []OneDrainLoop
<1>1. StartInv => OneDrainLoop
  <2> SUFFICES ASSUME Futures, NEW f \in Future, NEW g \in Future, Live(f), Live(g),
                      future \in Nat
               PROVE  f = g
    BY FutureNumbers DEF StartInv, OneDrainLoop, TypeOK
  <2>1. f = future /\ g = future
    BY FutureNumbers DEF Futures, Live
  <2> QED
    BY <2>1
<1> QED
  BY <1>1, Invariance, PTL

(* While the service is open a queued row always has somebody to look at it, *)
(* unless a thread blocks itself in an inline callback.                      *)
THEOREM RowsRemembered == Spec => []NoRowForgotten
<1>1. StartInv => NoRowForgotten
  BY DEF StartInv
<1> QED
  BY <1>1, Invariance, PTL
==============================================================================
