-------------------------- MODULE AgentTeamProofs --------------------------
(***************************************************************************)
(* Proofs about the agent team, for any number of workers, candidates and  *)
(* threads and for any budget: what main submits for validation is         *)
(* complete, a worker is resumed at most once, an audit that is over       *)
(* leaves nothing behind, and the budget is shared.  TeamInv is the        *)
(* inductive invariant of the first three.  The row of a worker and its    *)
(* thread go apart when the task is cancelled, since rows are then no      *)
(* longer saved, and again when the team is closed, since its waiting      *)
(* futures are cancelled before their rows are; Fits says what they have   *)
(* in common all the time.  The budget is a statement about sums; what     *)
(* SumFunctionOnSet computes is shown by induction over finite sets, that  *)
(* is, from a smallest counterexample (SmallestSet).                       *)
(***************************************************************************)
EXTENDS AgentTeam, FiniteSetTheorems, TLAPS

Closed == mpc \in {"shutdown", "end"}

\* A count that has reached its limit has already been acted upon.
Counted ==
  /\ bad = 3 => mpc = "close"
  /\ \A w \in Worker : werrs[w] = MaxErrors => wpc[w] = "leaving"

\* A worker's row and thread, and what main has of its results.
Fits(w) ==
  /\ wstat[w] = "none" => wpc[w] = "off"
  /\ wpc[w] = "waiting" => wstat[w] = "queued" /\ ~Closed
  /\ wstat[w] \in Ended => wpc[w] \in {"off", "leaving"}
  /\ wpc[w] \in {"off", "leaving"} => wstat[w] \in Ended \union {"none"} \/ cancelled \/ Closed
  /\ dprog[w] <= wprog[w]
  /\ dfinal[w] # "no" => wresume[w] \/ (dfinal[w] = wstat[w] /\ dprog[w] = wprog[w])

\* No review is submitted before the report is validated, nor waits after close.
ReviewsFit ==
  \A c \in Candidates : rpc[c] = "waiting" => ~Closed

TeamInv ==
  /\ TypeOK
  /\ Counted
  /\ \A w \in Worker : Fits(w)
  /\ ReviewsFit
  /\ ReportAfterDelivery
  /\ NothingLeftRunning

-----------------------------------------------------------------------------
(* The budget is a number, and a limit on it is one too. *)
LEMMA Steps == MaxSteps \in Nat /\ MaxSteps > 0 /\ MaxErrors \in Nat /\ MaxErrors > 0 /\ MaxProgress \in Nat
  BY BudgetAssumption, OptionsAssumption

(* Main and the reviews are agents, and so is every worker, each another one. *)
LEMMA Agents ==
  /\ Main \in Agent /\ \A w \in Worker : Main # <<"worker", w>>
  /\ \A c \in Candidates : /\ <<"review", c>> \in Agent
                            /\ \A w \in Worker : <<"review", c>> # <<"worker", w>>
  /\ \A w \in Worker : <<"worker", w>> \in Agent
  BY DEF Agent, Main

(* Whatever an agent's retry is set to, or left at, it stays a flag. *)
LEMMA RetryTyping ==
  ASSUME TypeOK, NEW a \in Agent,
         Retry(a) \/ ForgetRetry(a) \/ retried' \in {retried, [retried EXCEPT ![a] = 0]}
  PROVE  retried' \in [Agent -> 0..1]
  BY DEF TypeOK, Retry, ForgetRetry

(* A row is saved, or kept as it is. *)
LEMMA Saves ==
  ASSUME TypeOK, NEW w \in Worker, NEW s \in Ended \union {"queued", "running"},
         NEW r \in Reason, Save(w, s, r)
  PROVE  /\ wstat' \in [Worker -> Ended \union {"none", "queued", "running"}]
         /\ wreason' \in [Worker -> Reason]
         /\ \A v \in Worker : v # w => wstat'[v] = wstat[v]
         /\ wstat'[w] = IF cancelled THEN wstat[w] ELSE s
<1>1. CASE cancelled
  BY <1>1 DEF Save, TypeOK
<1>2. CASE ~cancelled
  BY <1>2 DEF Save, TypeOK
<1> QED
  BY <1>1, <1>2

(* The refusal of a request is a reason to stop. *)
LEMMA RefusalIsReason ==
  ASSUME NEW w \in Worker
  PROVE  Refusal(w) \in Reason
  BY DEF Refusal, Reason

(* What a worker's thread leaves alone, and where it can go. *)
LEMMA WorkerTouches ==
  ASSUME TypeOK, NEW w \in Worker, WorkerStep(w)
  PROVE  /\ UNCHANGED <<wresume, dprog, dfinal, mpc, turn, bad, outcome, rpc, rtry, late, stop>>
         /\ cancelled' \in BOOLEAN /\ (cancelled => cancelled')
         /\ wpc' \in [Worker -> {"off", "waiting", "loop", "asked", "lost", "leaving"}]
         /\ \A v \in Worker : v # w => wpc'[v] = wpc[v]
<1> DEFINE Places == {"off", "waiting", "loop", "asked", "lost", "leaving"}
<1>1. /\ UNCHANGED <<wresume, dprog, dfinal, mpc, turn, bad, outcome, rpc, rtry, late, stop>>
      /\ UNCHANGED cancelled \/ cancelled'
  BY DEF WorkerStep, WorkerStart, WorkerAsk, WorkerContinues, WorkerCompletes, WorkerErrs,
         WorkerRequestFails, WorkerFails, WorkerDone, CancelInside, budget, handed, mainv, review, clock
<1>2. \E p \in Places : Turn(w, p)
  BY DEF WorkerStep, WorkerStart, WorkerAsk, WorkerContinues, WorkerCompletes, WorkerErrs,
         WorkerRequestFails, WorkerFails, WorkerDone, Close
<1> QED
  BY <1>1, <1>2 DEF Turn, TypeOK

(* A worker's step starts its thread, goes on with its work, closes its row or  *)
(* ends the thread; only while it works does it save progress.                  *)
LEMMA WorkerMoves ==
  ASSUME TypeOK, NEW w \in Worker, WorkerStep(w)
  PROVE  /\ wstat' \in [Worker -> Ended \union {"none", "queued", "running"}]
         /\ wreason' \in [Worker -> Reason]
         /\ wprog' \in [Worker -> 0..MaxProgress]
         /\ \A v \in Worker : v # w => wstat'[v] = wstat[v] /\ wprog'[v] = wprog[v]
         /\ \/ /\ wpc[w] = "waiting" /\ wpc'[w] = "loop"
               /\ wstat'[w] = (IF cancelled THEN wstat[w] ELSE "running")
            \/ /\ wpc[w] \in {"loop", "asked", "lost"} /\ wpc'[w] \in {"loop", "asked", "lost"}
               /\ wstat'[w] = wstat[w] /\ wprog'[w] >= wprog[w]
            \/ /\ wpc[w] \in {"loop", "asked", "lost"} /\ wpc'[w] = "leaving" /\ wprog'[w] = wprog[w]
               /\ IF cancelled THEN wstat'[w] = wstat[w] ELSE wstat'[w] \in Ended
            \/ /\ wpc[w] = "leaving" /\ wpc'[w] = "off"
               /\ wstat'[w] = wstat[w]
         /\ wpc[w] \notin {"loop", "asked", "lost"} => wprog'[w] = wprog[w]
<1> DEFINE Rows == /\ wstat' \in [Worker -> Ended \union {"none", "queued", "running"}]
                   /\ wreason' \in [Worker -> Reason]
                   /\ wprog' \in [Worker -> 0..MaxProgress]
                   /\ \A v \in Worker : v # w => wstat'[v] = wstat[v] /\ wprog'[v] = wprog[v]
           Starts == /\ wpc[w] = "waiting" /\ wpc'[w] = "loop"
                     /\ wstat'[w] = (IF cancelled THEN wstat[w] ELSE "running")
           GoesOn == /\ wpc[w] \in {"loop", "asked", "lost"} /\ wpc'[w] \in {"loop", "asked", "lost"}
                     /\ wstat'[w] = wstat[w] /\ wprog'[w] >= wprog[w]
           Closes == /\ wpc[w] \in {"loop", "asked", "lost"} /\ wpc'[w] = "leaving" /\ wprog'[w] = wprog[w]
                     /\ IF cancelled THEN wstat'[w] = wstat[w] ELSE wstat'[w] \in Ended
           Leaves == /\ wpc[w] = "leaving" /\ wpc'[w] = "off"
                     /\ wstat'[w] = wstat[w]
           Idle == wpc[w] \notin {"loop", "asked", "lost"} => wprog'[w] = wprog[w]
<1>1. ASSUME UNCHANGED <<wstat, wreason>> PROVE
         /\ wstat' \in [Worker -> Ended \union {"none", "queued", "running"}]
         /\ wreason' \in [Worker -> Reason]
         /\ \A v \in Worker : wstat'[v] = wstat[v]
  BY <1>1 DEF TypeOK
<1>2. ASSUME UNCHANGED wprog PROVE
         /\ wprog' \in [Worker -> 0..MaxProgress]
         /\ \A v \in Worker : wprog'[v] = wprog[v] /\ wprog'[v] >= wprog[v]
  BY <1>2, Steps DEF TypeOK
<1>3. ASSUME NEW p \in {"off", "waiting", "loop", "asked", "lost", "leaving"}, Turn(w, p) PROVE wpc'[w] = p
  BY <1>3 DEF Turn, TypeOK
<1>4. ASSUME NEW s \in Ended, NEW r \in Reason, Close(w, s, r), UNCHANGED wprog,
             wpc[w] \in {"loop", "asked", "lost"}
      PROVE  Rows /\ Closes /\ Idle
  <2>1. Save(w, s, r) /\ wpc'[w] = "leaving"
    BY <1>3, <1>4 DEF Close
  <2>2. /\ wstat' \in [Worker -> Ended \union {"none", "queued", "running"}]
        /\ wreason' \in [Worker -> Reason]
        /\ \A v \in Worker : v # w => wstat'[v] = wstat[v]
        /\ wstat'[w] = IF cancelled THEN wstat[w] ELSE s
    BY <2>1, Saves
  <2> QED
    BY <1>2, <1>4, <2>1, <2>2
<1>5. /\ \A s \in {"completed", "failed", "stopped"} : s \in Ended
      /\ wreason[w] \in Reason /\ "other" \in Reason /\ "model_output_truncated" \in Reason
      /\ Refusal(w) \in Reason
  BY RefusalIsReason DEF Ended, Reason, TypeOK
<1>6. CASE WorkerStart(w)
  <2>1. Save(w, "running", wreason[w]) /\ wpc[w] = "waiting" /\ wpc'[w] = "loop" /\ UNCHANGED wprog
    BY <1>3, <1>6 DEF WorkerStart
  <2>2. /\ wstat' \in [Worker -> Ended \union {"none", "queued", "running"}]
        /\ wreason' \in [Worker -> Reason]
        /\ \A v \in Worker : v # w => wstat'[v] = wstat[v]
        /\ wstat'[w] = IF cancelled THEN wstat[w] ELSE "running"
    BY <1>5, <2>1, Saves
  <2> QED
    BY <1>2, <2>1, <2>2
<1>7. CASE WorkerAsk(w)
  <2>1. CASE Refusal(w) = "none"
    <3>1. UNCHANGED <<wstat, wreason, wprog>> /\ wpc'[w] \in {"asked", "lost"} /\ wpc[w] = "loop"
      BY <1>3, <1>7, <2>1 DEF WorkerAsk
    <3> QED
      BY <1>1, <1>2, <3>1
  <2>2. CASE Refusal(w) # "none"
    <3>1. Close(w, "stopped", Refusal(w)) /\ UNCHANGED wprog /\ wpc[w] \in {"loop", "asked", "lost"}
      BY <1>7, <2>2 DEF WorkerAsk
    <3> QED
      BY <1>4, <1>5, <3>1
  <2> QED
    BY <2>1, <2>2
<1>8. CASE WorkerContinues(w)
  <2>1. CASE Stopping
    <3>1. Close(w, "stopped", "other") /\ UNCHANGED wprog /\ wpc[w] \in {"loop", "asked", "lost"}
      BY <1>8, <2>1 DEF WorkerContinues
    <3> QED
      BY <1>4, <1>5, <3>1
  <2>2. CASE ~Stopping
    <3>1. /\ UNCHANGED <<wstat, wreason>> /\ wpc'[w] = "loop" /\ wpc[w] = "asked"
          /\ wprog' \in {wprog, [wprog EXCEPT ![w] = Least(@ + 1, MaxProgress)]}
      BY <1>3, <1>8, <2>2 DEF WorkerContinues
    <3>2. ASSUME NEW n \in 0..MaxProgress PROVE Least(n + 1, MaxProgress) \in n..MaxProgress
      BY <3>2, Steps DEF Least
    <3>3. /\ wprog' \in [Worker -> 0..MaxProgress]
          /\ \A v \in Worker : v # w => wprog'[v] = wprog[v]
          /\ wprog'[w] >= wprog[w]
      <4>1. CASE wprog' = wprog
        BY <1>2, <4>1
      <4>2. CASE wprog' = [wprog EXCEPT ![w] = Least(@ + 1, MaxProgress)]
        <5>1. wprog[w] \in 0..MaxProgress /\ Least(wprog[w] + 1, MaxProgress) \in wprog[w]..MaxProgress
          BY <3>2 DEF TypeOK
        <5> HIDE DEF Idle
        <5>2. Least(wprog[w] + 1, MaxProgress) \in 0..MaxProgress /\ Least(wprog[w] + 1, MaxProgress) >= wprog[w]
          BY <5>1, Steps
        <5> QED
          BY <4>2, <5>2 DEF TypeOK
      <4> QED
        BY <3>1, <4>1, <4>2
    <3> QED
      BY <1>1, <3>1, <3>3
  <2> QED
    BY <2>1, <2>2
<1>9. CASE WorkerCompletes(w)
  <2>1. Close(w, "completed", wreason[w]) /\ UNCHANGED wprog /\ wpc[w] \in {"loop", "asked", "lost"}
    BY <1>9 DEF WorkerCompletes
  <2> QED
    BY <1>4, <1>5, <2>1
<1>10. CASE WorkerErrs(w)
  <2>1. UNCHANGED wprog /\ wpc[w] = "asked"
    BY <1>10 DEF WorkerErrs
  <2>2. CASE \E reason \in {"model_output_truncated", "other"} : Close(w, "failed", reason)
    BY <1>4, <1>5, <2>1, <2>2
  <2>3. CASE Turn(w, "loop") /\ UNCHANGED <<wstat, wreason>>
    BY <1>1, <1>2, <1>3, <2>1, <2>3
  <2> QED
    BY <1>10, <2>2, <2>3 DEF WorkerErrs
<1>11. CASE WorkerRequestFails(w)
  <2>1. UNCHANGED wprog /\ wpc[w] = "asked"
    BY <1>11 DEF WorkerRequestFails
  <2>2. CASE Close(w, "failed", "other")
    BY <1>4, <1>5, <2>1, <2>2
  <2>3. CASE Turn(w, "loop") /\ UNCHANGED <<wstat, wreason>>
    BY <1>1, <1>2, <1>3, <2>1, <2>3
  <2> QED
    BY <1>11, <2>2, <2>3 DEF WorkerRequestFails
<1>12. CASE WorkerFails(w)
  <2>1. Close(w, "failed", "other") /\ UNCHANGED wprog /\ wpc[w] \in {"loop", "asked", "lost"}
    BY <1>12 DEF WorkerFails
  <2> QED
    BY <1>4, <1>5, <2>1
<1>13. CASE WorkerDone(w)
  <2>1. UNCHANGED <<wstat, wreason, wprog>> /\ wpc'[w] = "off" /\ wpc[w] = "leaving"
    BY <1>3, <1>13 DEF WorkerDone
  <2> QED
    BY <1>1, <1>2, <2>1
<1> QED
  BY <1>6, <1>7, <1>8, <1>9, <1>10, <1>11, <1>12, <1>13 DEF WorkerStep

(* A worker's step keeps its counters in bounds: one that has reached the limit *)
(* of errors leaves.                                                            *)
LEMMA WorkerCounts ==
  ASSUME TypeOK, Counted, NEW w \in Worker, WorkerStep(w)
  PROVE  /\ calls' \in 0..MaxSteps /\ sent' \in [Agent -> Nat]
         /\ retried' \in [Agent -> 0..1]
         /\ wcalls' \in [Worker -> Nat]
         /\ werrs' \in [Worker -> 0..MaxErrors]
         /\ \A v \in Worker : werrs'[v] = MaxErrors => wpc'[v] = "leaving"
<1>1. calls' \in 0..MaxSteps /\ sent' \in [Agent -> Nat] /\ wcalls' \in [Worker -> Nat]
  <2>1. CASE UNCHANGED <<calls, sent, wcalls>>
    BY <2>1 DEF TypeOK
  <2>2. CASE WorkerAsk(w) /\ Refusal(w) = "none"
    <3>1. calls < MaxSteps
      <4>1. calls \in Nat
        BY DEF TypeOK
      <4>2. ASSUME calls >= MaxSteps PROVE Refusal(w) = "other"
        <5>1. ~(calls < MaxSteps)
          BY <4>1, <4>2, Steps
        <5> QED
          BY <4>2, <5>1 DEF Refusal
      <4> QED
        BY <2>2, <4>1, <4>2, Steps
    <3>2. /\ calls' \in {calls, calls + 1} /\ sent' = [sent EXCEPT ![<<"worker", w>>] = @ + 1]
          /\ wcalls' \in {wcalls, [wcalls EXCEPT ![w] = @ + 1]}
      BY <2>2 DEF WorkerAsk, TakeWorker, Take, CancelInside
    <3>3. calls' \in 0..MaxSteps
      BY <3>1, <3>2, Steps DEF TypeOK
    <3>4. sent' \in [Agent -> Nat]
      BY <3>2, Agents DEF TypeOK
    <3>5. wcalls' \in [Worker -> Nat]
      BY <3>2 DEF TypeOK
    <3> QED
      BY <3>3, <3>4, <3>5
  <2> QED
    BY <2>1, <2>2 DEF WorkerStep, WorkerStart, WorkerAsk, WorkerContinues, WorkerCompletes, WorkerErrs,
         WorkerRequestFails, WorkerFails, WorkerDone, budget
<1>2. retried' \in [Agent -> 0..1]
  <2>1. CASE UNCHANGED retried
    BY <2>1 DEF TypeOK
  <2>2. CASE \/ Retry(<<"worker", w>>) \/ ForgetRetry(<<"worker", w>>)
             \/ retried' \in {retried, [retried EXCEPT ![<<"worker", w>>] = 0]}
    BY <2>2, Agents, RetryTyping
  <2> QED
    BY <2>1, <2>2 DEF WorkerStep, WorkerStart, WorkerAsk, WorkerContinues, WorkerCompletes, WorkerErrs,
         WorkerRequestFails, WorkerFails, WorkerDone, budget
<1>3. \A v \in Worker : v # w => wpc'[v] = wpc[v]
  BY WorkerTouches
<1>4. CASE WorkerErrs(w)
  <2>1. wpc[w] = "asked" /\ werrs' = [werrs EXCEPT ![w] = @ + 1]
    BY <1>4 DEF WorkerErrs
  <2>2. werrs[w] \in 0..MaxErrors /\ werrs[w] # MaxErrors
    BY <2>1 DEF Counted, TypeOK
  <2>3. werrs' \in [Worker -> 0..MaxErrors] /\ werrs'[w] = werrs[w] + 1
        /\ \A v \in Worker : v # w => werrs'[v] = werrs[v]
    BY <2>1, <2>2, Steps DEF TypeOK
  <2>4. werrs[w] + 1 >= MaxErrors => wpc'[w] = "leaving"
    BY <1>4 DEF WorkerErrs, Close, Turn, TypeOK
  <2>5. werrs'[w] = MaxErrors => wpc'[w] = "leaving"
    BY <2>2, <2>3, <2>4, Steps
  <2> QED
    BY <1>1, <1>2, <1>3, <2>3, <2>5 DEF Counted
<1>5. CASE werrs' = [werrs EXCEPT ![w] = 0]
  <2>1. 0 \in 0..MaxErrors /\ 0 # MaxErrors
    BY Steps
  <2>2. werrs' \in [Worker -> 0..MaxErrors] /\ werrs'[w] = 0
        /\ \A v \in Worker : v # w => werrs'[v] = werrs[v]
    BY <1>5, <2>1 DEF TypeOK
  <2> QED
    BY <1>1, <1>2, <1>3, <2>1, <2>2 DEF Counted
<1>6. CASE UNCHANGED werrs /\ wpc[w] # "leaving"
  <2>1. werrs' \in [Worker -> 0..MaxErrors] /\ werrs'[w] # MaxErrors
    BY <1>6 DEF Counted, TypeOK
  <2> QED
    BY <1>1, <1>2, <1>3, <1>6, <2>1 DEF Counted
<1> QED
  BY <1>4, <1>5, <1>6 DEF WorkerStep, WorkerStart, WorkerAsk, WorkerContinues, WorkerCompletes,
         WorkerRequestFails, WorkerFails, WorkerDone

(* A delivery brings main the next progress of a worker, or its result when all *)
(* its progress was delivered, or nothing.                                      *)
LEMMA Delivers ==
  ASSUME TypeOK, Deliver
  PROVE  /\ dprog' \in [Worker -> 0..MaxProgress]
         /\ dfinal' \in [Worker -> Ended \union {"no"}]
         /\ \A w \in Worker :
              \/ dprog'[w] = dprog[w] /\ dfinal'[w] = dfinal[w]
              \/ dprog[w] < wprog[w] /\ dprog'[w] = dprog[w] + 1 /\ dfinal'[w] = dfinal[w]
              \/ /\ dprog[w] >= wprog[w] /\ dprog'[w] = dprog[w]
                 /\ wstat[w] \in Ended /\ dfinal'[w] = wstat[w]
<1>1. CASE UNCHANGED handed
  BY <1>1 DEF handed, TypeOK
<1>2. ASSUME NEW w \in Worker, dprog[w] < wprog[w], dprog' = [dprog EXCEPT ![w] = @ + 1],
             UNCHANGED dfinal
      PROVE  /\ dprog' \in [Worker -> 0..MaxProgress] /\ dprog'[w] = dprog[w] + 1
             /\ \A v \in Worker : v # w => dprog'[v] = dprog[v]
  BY <1>2, Steps DEF TypeOK
<1>3. ASSUME NEW w \in Worker, ~(dprog[w] < wprog[w]), HasItem(w),
             dfinal' = [dfinal EXCEPT ![w] = wstat[w]], UNCHANGED dprog
      PROVE  /\ dfinal' \in [Worker -> Ended \union {"no"}]
             /\ wstat[w] \in Ended /\ dfinal'[w] = wstat[w]
             /\ dprog[w] >= wprog[w]
             /\ \A v \in Worker : v # w => dfinal'[v] = dfinal[v]
  <2>1. wstat[w] \in Ended
    BY <1>3 DEF HasItem
  <2>2. dprog[w] >= wprog[w]
    BY <1>3, Steps DEF TypeOK
  <2> QED
    BY <1>3, <2>1, <2>2 DEF TypeOK
<1>4. CASE ~UNCHANGED handed
  <2>1. PICK w \in Worker :
          /\ HasItem(w)
          /\ \/ dprog[w] < wprog[w] /\ dprog' = [dprog EXCEPT ![w] = @ + 1] /\ UNCHANGED dfinal
             \/ /\ ~(dprog[w] < wprog[w])
                /\ dfinal' = [dfinal EXCEPT ![w] = wstat[w]] /\ UNCHANGED dprog
    BY <1>4 DEF Deliver
  <2>2. CASE dprog[w] < wprog[w] /\ dprog' = [dprog EXCEPT ![w] = @ + 1] /\ UNCHANGED dfinal
    BY <1>2, <2>2 DEF TypeOK
  <2>3. CASE /\ ~(dprog[w] < wprog[w])
             /\ dfinal' = [dfinal EXCEPT ![w] = wstat[w]] /\ UNCHANGED dprog
    BY <1>3, <2>1, <2>3 DEF TypeOK
  <2> QED
    BY <2>1, <2>2, <2>3
<1> QED
  BY <1>1, <1>4

(* A worker that is resumed is queued again, and its future waits.  *)
LEMMA Resumes ==
  ASSUME TypeOK, NEW w \in Worker, Resume(w)
  PROVE  /\ wstat' \in [Worker -> Ended \union {"none", "queued", "running"}]
         /\ wreason' \in [Worker -> Reason]
         /\ wresume' \in [Worker -> BOOLEAN]
         /\ wpc' \in [Worker -> {"off", "waiting", "loop", "asked", "lost", "leaving"}]
         /\ wstat'[w] = "queued" /\ wresume'[w] /\ wpc'[w] = "waiting"
         /\ \A v \in Worker : v # w => /\ wstat'[v] = wstat[v] /\ wresume'[v] = wresume[v]
                                       /\ wpc'[v] = wpc[v]
<1>1. "none" \in Reason
  BY DEF Reason
<1>2. wresume' = [wresume EXCEPT ![w] = TRUE] /\ wresume \in [Worker -> BOOLEAN]
  BY DEF Resume, TypeOK
<1>3. wresume' \in [Worker -> BOOLEAN] /\ wresume'[w] /\ \A v \in Worker : v # w => wresume'[v] = wresume[v]
  BY <1>2
<1> QED
  BY <1>1, <1>3 DEF Resume, Turn, TypeOK

(* What main does to the rows of workers: it submits one, resumes one, or cancels *)
(* those that wait; what was left running is closed when the threads have ended.  *)
LEMMA MainRows ==
  ASSUME TypeOK, MainStep
  PROVE  /\ UNCHANGED <<wcalls, werrs, wprog, late, rtry>>
         /\ UNCHANGED cancelled \/ (MainAsk /\ cancelled')
         /\ \/ UNCHANGED <<wstat, wreason, wresume, wpc>>
            \/ /\ mpc = "asked" /\ mpc' = "step" /\ ~cancelled /\ UNCHANGED <<wreason, wresume, dprog, dfinal>>
               /\ \E w \in Worker : /\ wstat[w] = "none"
                                    /\ wstat' = [wstat EXCEPT ![w] = "queued"] /\ Turn(w, "waiting")
            \/ /\ mpc = "report" /\ mpc' = "waitReport" /\ ~cancelled /\ ~Pending /\ UNCHANGED <<dprog, dfinal>>
               /\ \E w \in Worker : Resumable(w) /\ Resume(w)
            \/ /\ CloseTeam
            \/ /\ Shutdown
<1>1. UNCHANGED <<wcalls, werrs, wprog, late, rtry>> /\ (UNCHANGED cancelled \/ (MainAsk /\ cancelled'))
  BY DEF MainStep, CancelInside, MainTurn, MainAsk, MainLost, MainTool, MainProposes, MainErrs, MainRequestFails, MainReport,
         MainWait, MainValidated, CloseTeam, Shutdown, rows, clock, review
<1>2. CASE MainTool
  <2>1. UNCHANGED <<wreason, wresume, dprog, dfinal>> /\ mpc = "asked"
    BY <1>2 DEF MainTool, handed
  <2>2. CASE UNCHANGED <<wstat, wpc>>
    BY <1>1, <2>1, <2>2
  <2>3. CASE ~UNCHANGED <<wstat, wpc>>
    BY <1>1, <1>2, <2>1, <2>3 DEF MainTool, Goto, Over
  <2> QED
    BY <2>2, <2>3
<1>3. CASE MainReport
  <2>1. UNCHANGED <<dprog, dfinal>> /\ mpc = "report"
    BY <1>3 DEF MainReport, handed
  <2>2. CASE UNCHANGED <<wstat, wreason, wresume, wpc>>
    BY <1>1, <2>2
  <2>3. CASE ~UNCHANGED <<wstat, wreason, wresume, wpc>>
    BY <1>1, <1>3, <2>1, <2>3 DEF MainReport, Goto, FirstResumable, MustWait, rows
  <2> QED
    BY <2>2, <2>3
<1> QED
  BY <1>1, <1>2, <1>3 DEF MainStep, MainTurn, MainAsk, MainLost, MainProposes, MainErrs, MainRequestFails,
         MainWait, MainValidated, rows

(* Main's step keeps the types of the rows. *)
LEMMA MainRowTyping ==
  ASSUME TypeOK, MainStep
  PROVE  /\ wstat' \in [Worker -> Ended \union {"none", "queued", "running"}]
         /\ wreason' \in [Worker -> Reason]
         /\ wresume' \in [Worker -> BOOLEAN]
         /\ wpc' \in [Worker -> {"off", "waiting", "loop", "asked", "lost", "leaving"}]
<1>1. CASE UNCHANGED <<wstat, wreason, wresume, wpc>>
  BY <1>1 DEF TypeOK
<1>2. CASE /\ UNCHANGED <<wreason, wresume>>
           /\ \E w \in Worker : /\ wstat' = [wstat EXCEPT ![w] = "queued"] /\ Turn(w, "waiting")
  BY <1>2 DEF TypeOK, Turn
<1>3. CASE \E w \in Worker : Resume(w)
  BY <1>3, Resumes
<1>4. CASE CloseTeam
  <2>1. UNCHANGED <<wstat, wreason, wresume>>
    BY <1>4 DEF CloseTeam
  <2>2. wpc' = [w \in Worker |-> IF wpc[w] = "waiting" THEN "off" ELSE wpc[w]]
    BY <1>4 DEF CloseTeam
  <2> QED
    BY <2>1, <2>2 DEF TypeOK
<1>5. CASE Shutdown
  <2>1. UNCHANGED <<wresume, wpc>>
    BY <1>5 DEF Shutdown
  <2> DEFINE left == {w \in Worker : ~cancelled /\ wstat[w] \in {"queued", "running"}}
  <2>2. /\ wstat' = [w \in Worker |-> IF w \in left THEN "stopped" ELSE wstat[w]]
        /\ wreason' = [w \in Worker |-> IF w \in left THEN "other" ELSE wreason[w]]
    BY <1>5 DEF Shutdown
  <2> HIDE DEF left
  <2>3. "stopped" \in Ended /\ "other" \in Reason
    BY DEF Ended, Reason
  <2> QED
    BY <2>1, <2>2, <2>3 DEF TypeOK
<1> QED
  BY <1>1, <1>2, <1>3, <1>4, <1>5, MainRows

(* Main's step keeps its counters in bounds: three corrections in a row end the *)
(* investigation, and the loop is left when the budget is used up.              *)
LEMMA MainCounts ==
  ASSUME TypeOK, Counted, MainStep
  PROVE  /\ calls' \in 0..MaxSteps /\ sent' \in [Agent -> Nat]
         /\ retried' \in [Agent -> 0..1]
         /\ turn' \in 0..MaxSteps
         /\ bad' \in 0..3 /\ (bad' = 3 => mpc' = "close")
<1>1. calls' \in 0..MaxSteps /\ sent' \in [Agent -> Nat]
  <2>1. CASE UNCHANGED <<calls, sent>>
    BY <2>1 DEF TypeOK
  <2>2. CASE calls < MaxSteps /\ (Take(Main) \/ CancelInside(Main))
    BY <2>2, Agents, Steps DEF Take, CancelInside, TypeOK
  <2> QED
    BY <2>1, <2>2 DEF MainStep, MainTurn, MainAsk, MainLost, MainTool, MainProposes, MainErrs, MainRequestFails,
         MainReport, MainWait, MainValidated, CloseTeam, Shutdown, budget
<1>2. retried' \in [Agent -> 0..1]
  <2>1. CASE UNCHANGED retried
    BY <2>1 DEF TypeOK
  <2>2. CASE Retry(Main) \/ ForgetRetry(Main) \/ retried' \in {retried, [retried EXCEPT ![Main] = 0]}
    BY <2>2, Agents, RetryTyping
  <2> QED
    BY <2>1, <2>2 DEF MainStep, MainTurn, MainAsk, MainLost, MainTool, MainProposes, MainErrs, MainRequestFails,
         MainReport, MainWait, MainValidated, CloseTeam, Shutdown, budget
<1>3. turn' \in 0..MaxSteps
  <2>1. CASE UNCHANGED turn
    BY <2>1 DEF TypeOK
  <2>2. CASE turn # MaxSteps /\ turn' = turn + 1
    BY <2>2, Steps DEF TypeOK
  <2>3. CASE turn' = 0
    BY <2>3, Steps
  <2> QED
    BY <2>1, <2>2, <2>3 DEF MainStep, MainTurn, MainAsk, MainLost, MainTool, MainProposes, MainErrs, MainRequestFails,
         MainReport, MainWait, MainValidated, CloseTeam, Shutdown
<1>4. bad' \in 0..3 /\ (bad' = 3 => mpc' = "close")
  <2>1. CASE UNCHANGED bad /\ mpc # "close"
    BY <2>1 DEF TypeOK, Counted
  <2>2. CASE mpc = "asked" /\ bad' = bad + 1 /\ (bad + 1 > 2 => mpc' = "close")
    <3>1. bad \in 0..3 /\ bad # 3
      BY <2>2 DEF TypeOK, Counted
    <3> QED
      BY <2>2, <3>1
  <2>3. CASE bad' = 0
    BY <2>3
  <2>4. CASE MainErrs
    BY <2>2, <2>4 DEF MainErrs, Conclude, Goto
  <2> QED
    BY <2>1, <2>3, <2>4 DEF MainStep, MainTurn, MainAsk, MainLost, MainTool, MainProposes, MainRequestFails,
         MainReport, MainWait, MainValidated, CloseTeam, Shutdown, Waits
<1> QED
  BY <1>1, <1>2, <1>3, <1>4

(* Main's step gives each other variable a value of its type. *)
LEMMA MainElse ==
  ASSUME TypeOK, MainStep
  PROVE  /\ dprog' \in [Worker -> 0..MaxProgress]
         /\ dfinal' \in [Worker -> Ended \union {"no"}]
         /\ mpc' \in {"step", "ask", "again", "asked", "lost", "report", "validate",
                      "close", "shutdown", "end"} \union Waits
         /\ outcome' \in {"running", "needs_review", "budget_exhausted", "failed", "cancelled"}
         /\ rpc' \in [Candidates -> {"off", "waiting", "ask", "asked", "lost", "done"}]
         /\ stop' \in BOOLEAN
<1>1. dprog' \in [Worker -> 0..MaxProgress] /\ dfinal' \in [Worker -> Ended \union {"no"}]
  <2>1. CASE UNCHANGED <<dprog, dfinal>>
    BY <2>1 DEF TypeOK
  <2>2. CASE Deliver
    BY <2>2, Delivers
  <2> QED
    BY <2>1, <2>2 DEF MainStep, MainTurn, MainAsk, MainLost, MainTool, MainProposes, MainErrs, MainRequestFails,
         MainReport, MainWait, MainValidated, CloseTeam, Shutdown, handed
<1>2. /\ mpc' \in {"step", "ask", "again", "asked", "lost", "report", "validate",
                   "close", "shutdown", "end"} \union Waits
  BY DEF MainStep, MainTurn, MainAsk, MainLost, MainTool, MainProposes, MainErrs, MainRequestFails,
         MainReport, MainWait, MainValidated, CloseTeam, Shutdown, Goto, Conclude, Waits
<1>3. outcome' \in {"running", "needs_review", "budget_exhausted", "failed", "cancelled"}
  <2>1. CASE UNCHANGED outcome
    BY <2>1 DEF TypeOK
  <2>2. CASE \E s \in {"needs_review", "budget_exhausted", "failed", "cancelled"} : Conclude(s)
    BY <2>2 DEF Conclude
  <2> QED
    BY <2>1, <2>2 DEF MainStep, MainTurn, MainAsk, MainLost, MainTool, MainProposes, MainErrs, MainRequestFails,
         MainReport, MainWait, MainValidated, CloseTeam, Shutdown
<1>4. rpc' \in [Candidates -> {"off", "waiting", "ask", "asked", "lost", "done"}]
  <2>1. CASE UNCHANGED rpc
    BY <2>1 DEF TypeOK
  <2>2. CASE rpc' \in [Candidates -> IF late THEN {"waiting", "done"} ELSE {"waiting"}]
    BY <2>2
  <2>3. CASE rpc' = [c \in Candidates |-> IF rpc[c] = "waiting" THEN "done" ELSE rpc[c]]
    BY <2>3 DEF TypeOK
  <2> QED
    BY <2>1, <2>2, <2>3 DEF MainStep, MainTurn, MainAsk, MainLost, MainTool, MainProposes, MainErrs, MainRequestFails,
         MainReport, MainWait, MainValidated, CloseTeam, Shutdown, review
<1>5. UNCHANGED stop \/ stop' = TRUE
  BY DEF MainStep, MainTurn, MainAsk, MainLost, MainTool, MainProposes, MainErrs, MainRequestFails,
         MainReport, MainWait, MainValidated, CloseTeam, Shutdown
<1> QED
  BY <1>1, <1>2, <1>3, <1>4, <1>5 DEF TypeOK

(* What a review's step leaves alone, and where it can go; of the budget it takes *)
(* one call at most.                                                              *)
LEMMA ReviewTouches ==
  ASSUME TypeOK, NEW c \in Candidates, ReviewStep(c)
  PROVE  /\ UNCHANGED <<rows, handed, mainv, late, stop>>
         /\ cancelled' \in BOOLEAN /\ (cancelled => cancelled')
         /\ calls' \in 0..MaxSteps /\ sent' \in [Agent -> Nat]
         /\ retried' \in [Agent -> 0..1]
         /\ rpc' \in [Candidates -> {"off", "waiting", "ask", "asked", "lost", "done"}]
         /\ rtry' \in [Candidates -> 1..2]
         /\ rpc'[c] # "waiting" /\ \A d \in Candidates : d # c => rpc'[d] = rpc[d]
         /\ rpc[c] \in {"waiting", "ask", "asked", "lost"}
<1>1. /\ UNCHANGED <<rows, handed, mainv, late, stop>> /\ rpc[c] \in {"waiting", "ask", "asked", "lost"}
      /\ UNCHANGED cancelled \/ cancelled' = TRUE
  BY DEF ReviewStep, ReviewStart, ReviewAsk, ReviewAnswer, ReviewRequestFails, ReviewLost, CancelInside, clock
<1>2. calls' \in 0..MaxSteps /\ sent' \in [Agent -> Nat]
  <2>1. CASE UNCHANGED <<calls, sent>>
    BY <2>1 DEF TypeOK
  <2>2. CASE calls < MaxSteps /\ (Take(<<"review", c>>) \/ CancelInside(<<"review", c>>))
    BY <2>2, Agents, Steps DEF Take, CancelInside, TypeOK
  <2> QED
    BY <2>1, <2>2 DEF ReviewStep, ReviewStart, ReviewAsk, ReviewAnswer, ReviewRequestFails, ReviewLost, budget
<1>3. retried' \in [Agent -> 0..1]
  <2>1. CASE UNCHANGED retried
    BY <2>1 DEF TypeOK
  <2>2. CASE Retry(<<"review", c>>) \/ ForgetRetry(<<"review", c>>)
    BY <2>2, Agents, RetryTyping
  <2> QED
    BY <2>1, <2>2 DEF ReviewStep, ReviewStart, ReviewAsk, ReviewAnswer, ReviewRequestFails, ReviewLost, budget
<1>4. \E p \in {"ask", "asked", "lost", "done"} : ReviewTo(c, p)
  BY DEF ReviewStep, ReviewStart, ReviewAsk, ReviewAnswer, ReviewRequestFails, ReviewLost
<1>5. /\ rpc' \in [Candidates -> {"off", "waiting", "ask", "asked", "lost", "done"}]
      /\ rpc'[c] # "waiting" /\ \A d \in Candidates : d # c => rpc'[d] = rpc[d]
  BY <1>4 DEF ReviewTo, TypeOK
<1>6. UNCHANGED rtry \/ rtry' = [rtry EXCEPT ![c] = 2]
  BY DEF ReviewStep, ReviewStart, ReviewAsk, ReviewAnswer, ReviewRequestFails, ReviewLost
<1>7. rtry' \in [Candidates -> 1..2]
  BY <1>6 DEF TypeOK
<1>8. cancelled' \in BOOLEAN /\ (cancelled => cancelled')
  <2>1. cancelled \in BOOLEAN
    BY DEF TypeOK
  <2>2. CASE UNCHANGED cancelled
    BY <2>1, <2>2
  <2>3. CASE cancelled' = TRUE
    BY <2>3
  <2> QED
    BY <1>1, <2>2, <2>3
<1> QED
  BY <1>1, <1>2, <1>3, <1>5, <1>7, <1>8

(* Giving up only concludes the investigation, and may happen before its end only. *)
LEMMA GivesUp ==
  ASSUME TypeOK, MainGivesUp
  PROVE  /\ UNCHANGED <<budget, rows, handed, turn, bad, review, clock, stop>>
         /\ mpc \in {"step", "asked", "report", "validate"} /\ mpc' = "close"
         /\ outcome' \in {"running", "needs_review", "budget_exhausted", "failed", "cancelled"}
  BY DEF MainGivesUp, Conclude, Goto

(* A thread that leaves is not turned back by main. *)
LEMMA LeavingStays ==
  ASSUME TypeOK, MainStep, NEW w \in Worker, Fits(w), wpc[w] = "leaving"
  PROVE  wpc'[w] = "leaving"
<1>1. CASE UNCHANGED wpc \/ CloseTeam \/ Shutdown
  BY <1>1 DEF CloseTeam, Shutdown
<1>2. ASSUME NEW v \in Worker, wstat[v] = "none", Turn(v, "waiting") PROVE wpc'[w] = "leaving"
  BY <1>2 DEF Fits, Turn, TypeOK
<1>3. ASSUME NEW v \in Worker, ~Pending PROVE FALSE
  BY <1>3 DEF Pending
<1> QED
  BY <1>1, <1>2, <1>3, MainRows

(* Every step keeps the types, and acts upon a count that reaches its limit. *)
LEMMA Typing ==
  TypeOK /\ Counted /\ (\A w \in Worker : Fits(w)) /\ [Next]_vars => TypeOK' /\ Counted'
<1> SUFFICES ASSUME TypeOK, Counted, \A w \in Worker : Fits(w), [Next]_vars PROVE TypeOK' /\ Counted'
  OBVIOUS
<1>1. CASE UNCHANGED vars
  BY <1>1 DEF vars, budget, rows, mainv, handed, review, clock, TypeOK, Counted
<1>2. CASE MainStep
  <2>1. UNCHANGED <<wcalls, werrs, wprog, late, rtry>> /\ (UNCHANGED cancelled \/ cancelled')
    BY <1>2, MainRows
  <2>2. TypeOK'
    <3>1. /\ wcalls' \in [Worker -> Nat] /\ werrs' \in [Worker -> 0..MaxErrors]
          /\ wprog' \in [Worker -> 0..MaxProgress] /\ rtry' \in [Candidates -> 1..2]
          /\ cancelled' \in BOOLEAN /\ late' \in BOOLEAN
      BY <2>1 DEF TypeOK
    <3> QED
      BY <1>2, <3>1, MainRowTyping, MainCounts, MainElse DEF TypeOK
  <2> QED
    BY <2>1, <2>2, <1>2, LeavingStays, MainCounts DEF Counted
<1>3. CASE MainGivesUp
  <2>1. mpc # "close" /\ UNCHANGED <<bad, werrs, wpc>>
    BY <1>3, GivesUp DEF rows
  <2>2. Counted'
    BY <2>1 DEF Counted
  <2> QED
    BY <1>3, <2>2, GivesUp DEF TypeOK, budget, rows, handed, review, clock
<1>4. CASE Outside
  <2>1. UNCHANGED <<budget, rows, handed, mainv, review, stop>>
    BY <1>4 DEF Outside
  <2>2. cancelled' \in BOOLEAN /\ late' \in BOOLEAN
    <3>1. CASE CancelTask
      BY <3>1 DEF CancelTask, TypeOK
    <3>2. CASE TimeIsUp
      BY <3>2 DEF TimeIsUp, TypeOK
    <3> QED
      BY <1>4, <3>1, <3>2 DEF Outside
  <2>3. Counted'
    BY <2>1 DEF Counted, rows, mainv
  <2> QED
    BY <2>1, <2>2, <2>3 DEF TypeOK, budget, rows, handed, mainv, review
<1>5. ASSUME NEW w \in Worker, WorkerStep(w) PROVE TypeOK' /\ Counted'
  <2>1. /\ UNCHANGED <<wresume, dprog, dfinal, mpc, turn, bad, outcome, rpc, rtry, late, stop>>
        /\ cancelled' \in BOOLEAN
    BY <1>5, WorkerTouches
  <2>2. /\ calls' \in 0..MaxSteps /\ sent' \in [Agent -> Nat]
        /\ retried' \in [Agent -> 0..1]
        /\ wcalls' \in [Worker -> Nat]
        /\ werrs' \in [Worker -> 0..MaxErrors]
        /\ \A v \in Worker : werrs'[v] = MaxErrors => wpc'[v] = "leaving"
    BY <1>5, WorkerCounts
  <2>3. Counted'
    BY <2>1, <2>2 DEF Counted
  <2> QED
    BY <1>5, <2>1, <2>2, <2>3, WorkerMoves, WorkerTouches DEF TypeOK
<1>6. ASSUME NEW c \in Candidates, ReviewStep(c) PROVE TypeOK' /\ Counted'
  <2>1. UNCHANGED <<rows, handed, mainv, late, stop>>
    BY <1>6, ReviewTouches
  <2>2. Counted'
    BY <2>1 DEF Counted, rows, mainv
  <2> QED
    BY <1>6, <2>1, <2>2, ReviewTouches DEF TypeOK, rows, handed, mainv, clock
<1> QED
  BY <1>1, <1>2, <1>3, <1>4, <1>5, <1>6 DEF Next

(* When the count of busy threads is zero no worker and no review is at work. *)
LEMMA NobodyBusy ==
  ASSUME Busy = 0
  PROVE  /\ \A w \in Worker : wpc[w] \notin {"loop", "asked", "lost", "leaving"}
         /\ \A c \in Candidates : rpc[c] \notin {"ask", "asked", "lost"}
<1> DEFINE ws == {w \in Worker : wpc[w] \in {"loop", "asked", "lost", "leaving"}}
           cs == {c \in Candidates : rpc[c] \in {"ask", "asked", "lost"}}
<1>1. IsFiniteSet(Worker)
  BY FS_Interval, MaxWorkersAssumption DEF Worker
<1>2. IsFiniteSet(ws) /\ IsFiniteSet(cs)
  BY <1>1, CandidatesAssumption, FS_Subset
<1>3. Cardinality(ws) \in Nat /\ Cardinality(cs) \in Nat
  BY <1>2, FS_CardinalityType
<1>4. Cardinality(ws) + Cardinality(cs) = 0
  BY DEF Busy
<1>5. Cardinality(ws) = 0 /\ Cardinality(cs) = 0
  <2> HIDE DEF ws, cs
  <2> QED
    BY <1>3, <1>4
<1>6. ws = {} /\ cs = {}
  <2> HIDE DEF ws, cs
  <2> QED
    BY <1>2, <1>5, FS_EmptySet
<1> QED
  BY <1>6

(* A row and its thread, and the deliveries, stay together in a worker's step ... *)
LEMMA WorkerFits ==
  ASSUME TypeOK, NEW w \in Worker, WorkerStep(w), \A v \in Worker : Fits(v)
  PROVE  \A v \in Worker : Fits(v)'
<1>1. /\ UNCHANGED <<wresume, dprog, dfinal, mpc>> /\ (cancelled => cancelled')
      /\ \A v \in Worker : v # w => wpc'[v] = wpc[v]
  BY WorkerTouches
<1>2. /\ \A v \in Worker : v # w => wstat'[v] = wstat[v] /\ wprog'[v] = wprog[v]
      /\ \/ /\ wpc[w] = "waiting" /\ wpc'[w] = "loop"
            /\ wstat'[w] = (IF cancelled THEN wstat[w] ELSE "running")
         \/ /\ wpc[w] \in {"loop", "asked", "lost"} /\ wpc'[w] \in {"loop", "asked", "lost"}
            /\ wstat'[w] = wstat[w] /\ wprog'[w] >= wprog[w]
         \/ /\ wpc[w] \in {"loop", "asked", "lost"} /\ wpc'[w] = "leaving" /\ wprog'[w] = wprog[w]
            /\ IF cancelled THEN wstat'[w] = wstat[w] ELSE wstat'[w] \in Ended
         \/ /\ wpc[w] = "leaving" /\ wpc'[w] = "off"
            /\ wstat'[w] = wstat[w]
      /\ wpc[w] \notin {"loop", "asked", "lost"} => wprog'[w] = wprog[w]
  BY WorkerMoves
<1>3. \A v \in Worker : v # w => Fits(v)'
  BY <1>1, <1>2 DEF Fits, Closed
<1>4. wprog'[w] >= wprog[w] /\ wprog'[w] \in Nat /\ wprog[w] \in Nat /\ dprog[w] \in Nat
  <2>1. wprog' \in [Worker -> 0..MaxProgress]
    BY WorkerMoves
  <2>2. wprog'[w] \in Nat /\ wprog[w] \in Nat /\ dprog[w] \in Nat
    BY <2>1, Steps DEF TypeOK
  <2> QED
    BY <1>2, <2>2
<1>5. dprog'[w] <= wprog'[w]
  BY <1>1, <1>4 DEF Fits
<1>6. dfinal[w] # "no" /\ ~wresume[w] => wpc[w] \in {"off", "leaving"}
  BY DEF Fits, TypeOK
<1>7. dfinal'[w] # "no" => wresume'[w] \/ (dfinal'[w] = wstat'[w] /\ dprog'[w] = wprog'[w])
  BY <1>1, <1>2, <1>6 DEF Fits
<1>8. wstat[w] # "none" /\ wpc[w] # "off"
  BY <1>2 DEF Fits
<1>9. wstat'[w] # "none"
  BY <1>2, <1>8 DEF Ended
<1>10. /\ wpc'[w] = "waiting" => wstat'[w] = "queued" /\ ~Closed'
       /\ wstat'[w] \in Ended => wpc'[w] \in {"off", "leaving"}
       /\ wpc'[w] \in {"off", "leaving"} => wstat'[w] \in Ended \union {"none"} \/ cancelled' \/ Closed'
  <2>1. wpc[w] = "waiting" => wstat[w] = "queued" /\ wstat[w] \notin Ended /\ "running" \notin Ended
    BY DEF Fits, Ended
  <2>2. Closed' <=> Closed
    BY <1>1 DEF Closed
  <2> QED
    BY <1>1, <1>2, <2>1, <2>2 DEF Fits
<1> QED
  BY <1>3, <1>5, <1>7, <1>9, <1>10 DEF Fits

(* ... and in main's: it takes a result over only when it has the progress, and   *)
(* submits only workers whose thread has ended.                                   *)
LEMMA MainFits ==
  ASSUME TypeOK, MainStep, \A v \in Worker : Fits(v)
  PROVE  \A v \in Worker : Fits(v)'
<1>1. UNCHANGED wprog /\ (cancelled => cancelled')
  BY MainRows
<1>2. \/ mpc \notin {"shutdown", "end"} /\ (Closed' => mpc = "close")
      \/ Shutdown
  BY DEF MainStep, MainTurn, MainAsk, MainLost, MainTool, MainProposes, MainErrs, MainRequestFails, MainReport,
         MainWait, MainValidated, CloseTeam, Closed, Conclude, Goto, Waits
<1>3. \A v \in Worker : dprog[v] \in Nat /\ wprog[v] \in Nat
  BY Steps DEF TypeOK
<1>4. CASE CloseTeam
  <2>1. /\ UNCHANGED <<wstat, wresume, wprog, dprog, dfinal, cancelled>>
        /\ mpc = "close" /\ mpc' = "shutdown"
        /\ \A v \in Worker : wpc'[v] = IF wpc[v] = "waiting" THEN "off" ELSE wpc[v]
    BY <1>4 DEF CloseTeam, handed, clock, Goto
  <2> QED
    BY <2>1 DEF Fits, Closed
<1>5. CASE Shutdown
  <2>1. /\ UNCHANGED <<wpc, wresume, wprog, dprog, dfinal, cancelled>>
        /\ mpc = "shutdown" /\ mpc' = "end" /\ Busy = 0
    BY <1>5 DEF Shutdown, handed, clock, Goto
  <2>2. \A v \in Worker : wpc[v] = "off"
    BY <2>1, NobodyBusy DEF Fits, Closed, TypeOK
  <2>3. \A v \in Worker : wstat'[v] = wstat[v] \/ (wstat[v] \in {"queued", "running"} /\ wstat'[v] = "stopped")
    BY <1>5 DEF Shutdown
  <2>4. ASSUME NEW v \in Worker, dfinal[v] # "no" PROVE wresume[v] \/ wstat'[v] = wstat[v]
    BY <2>3, <2>4 DEF Fits, TypeOK, Ended
  <2>5. Closed' /\ Closed
    BY <2>1 DEF Closed
  <2>6. ASSUME NEW v \in Worker PROVE Fits(v)'
    <3>1. wstat'[v] = "none" <=> wstat[v] = "none"
      BY <2>3
    <3> QED
      BY <1>1, <2>1, <2>2, <2>4, <2>5, <3>1 DEF Fits
  <2> QED
    BY <2>6
<1>6. CASE UNCHANGED <<wstat, wresume, wpc>> /\ ~CloseTeam /\ ~Shutdown
  <2>1. Closed' => FALSE
    BY <1>6 DEF MainStep, MainTurn, MainAsk, MainLost, MainTool, MainProposes, MainErrs, MainRequestFails, MainReport,
         MainWait, MainValidated, CloseTeam, Closed, Conclude, Goto, Waits
  <2>2. ~Closed
    BY <1>2, <1>6 DEF Closed
  <2>3. CASE UNCHANGED <<dprog, dfinal>>
    BY <1>1, <1>6, <2>1, <2>2, <2>3 DEF Fits
  <2>4. CASE Deliver
    <3>1. \A w \in Worker :
              \/ dprog'[w] = dprog[w] /\ dfinal'[w] = dfinal[w]
              \/ dprog[w] < wprog[w] /\ dprog'[w] = dprog[w] + 1 /\ dfinal'[w] = dfinal[w]
              \/ /\ dprog[w] >= wprog[w] /\ dprog'[w] = dprog[w]
                 /\ wstat[w] \in Ended /\ dfinal'[w] = wstat[w]
      BY <2>4, Delivers
    <3>2. ASSUME NEW w \in Worker PROVE Fits(w)'
      <4>1. /\ dprog'[w] <= wprog[w]
            /\ dfinal'[w] # "no" => wresume[w] \/ (dfinal'[w] = wstat[w] /\ dprog'[w] = wprog[w])
        BY <1>3, <3>1 DEF Fits
      <4> QED
        BY <1>1, <1>6, <2>1, <2>2, <4>1 DEF Fits
    <3> QED
      BY <3>2
  <2> QED
    BY <1>6, <2>3, <2>4 DEF MainStep, MainTurn, MainAsk, MainLost, MainTool, MainProposes, MainErrs, MainRequestFails,
         MainReport, MainWait, MainValidated, handed
<1>7. ASSUME mpc = "asked", mpc' = "step", UNCHANGED <<wresume, dprog, dfinal>>, NEW w \in Worker,
             wstat[w] = "none", wstat' = [wstat EXCEPT ![w] = "queued"], Turn(w, "waiting")
      PROVE  \A v \in Worker : Fits(v)'
  <2>1. /\ wstat'[w] = "queued" /\ wpc'[w] = "waiting"
        /\ \A v \in Worker : v # w => wstat'[v] = wstat[v] /\ wpc'[v] = wpc[v]
    BY <1>7 DEF Turn, TypeOK
  <2>2. ~Closed' /\ ~Closed /\ "queued" \notin Ended /\ "none" \notin Ended
    BY <1>7 DEF Closed, Ended
  <2>3. dfinal[w] # "no" => wresume[w]
    BY <1>7, <2>2 DEF Fits, TypeOK
  <2> QED
    BY <1>1, <1>7, <2>1, <2>2, <2>3 DEF Fits
<1>8. ASSUME mpc = "report", mpc' = "waitReport", UNCHANGED <<dprog, dfinal>>, NEW w \in Worker,
             Resume(w)
      PROVE  \A v \in Worker : Fits(v)'
  <2>1. /\ wstat'[w] = "queued" /\ wresume'[w] /\ wpc'[w] = "waiting"
        /\ \A v \in Worker : v # w => /\ wstat'[v] = wstat[v] /\ wresume'[v] = wresume[v]
                                      /\ wpc'[v] = wpc[v]
    BY <1>8, Resumes
  <2>2. ~Closed' /\ ~Closed /\ "queued" \notin Ended
    BY <1>8 DEF Closed, Ended
  <2> QED
    BY <1>1, <1>8, <2>1, <2>2 DEF Fits
<1> QED
  BY <1>4, <1>5, <1>6, <1>7, <1>8, MainRows

(* So they do in every step. *)
LEMMA Fitting ==
  ASSUME TypeOK, [Next]_vars, \A v \in Worker : Fits(v)
  PROVE  \A v \in Worker : Fits(v)'
<1>1. CASE UNCHANGED vars
  BY <1>1 DEF vars, rows, mainv, handed, clock, Fits, Closed
<1>2. CASE MainGivesUp
  <2>1. UNCHANGED <<wstat, wpc, wresume, wprog, dprog, dfinal, cancelled>> /\ ~Closed /\ ~Closed'
    BY <1>2, GivesUp DEF rows, handed, clock, Closed
  <2> QED
    BY <2>1 DEF Fits
<1>3. CASE Outside
  <2>1. /\ UNCHANGED <<wstat, wpc, wresume, wprog, dprog, dfinal, mpc>> /\ (cancelled => cancelled')
    BY <1>3 DEF Outside, CancelTask, TimeIsUp, rows, handed, mainv
  <2> QED
    BY <2>1 DEF Fits, Closed
<1>4. ASSUME NEW c \in Candidates, ReviewStep(c) PROVE \A v \in Worker : Fits(v)'
  BY <1>4, ReviewTouches DEF rows, handed, mainv, clock, Fits, Closed
<1> QED
  BY <1>1, <1>2, <1>3, <1>4, WorkerFits, MainFits DEF Next

(* Reviews are submitted when the report is validated, and those that still wait *)
(* when the team is closed are cancelled.                                        *)
LEMMA ReviewsFitting ==
  ASSUME TypeOK, ReviewsFit, [Next]_vars
  PROVE  ReviewsFit'
<1>1. CASE UNCHANGED <<rpc, mpc>>
  BY <1>1 DEF ReviewsFit, Closed
<1>2. CASE mpc' \notin {"shutdown", "end"}
  BY <1>2 DEF ReviewsFit, Closed
<1>3. CASE MainStep
  <2>1. CASE CloseTeam
    BY <2>1 DEF CloseTeam, ReviewsFit
  <2>2. CASE Shutdown
    BY <2>2 DEF Shutdown, ReviewsFit, Closed, review
  <2>3. CASE ~CloseTeam /\ ~Shutdown
    <3>1. mpc' \notin {"shutdown", "end"}
      BY <1>3, <2>3 DEF MainStep, MainTurn, MainAsk, MainLost, MainTool, MainProposes, MainErrs, MainRequestFails,
         MainReport, MainWait, MainValidated, Conclude, Goto
    <3> QED
      BY <1>2, <3>1
  <2> QED
    BY <2>1, <2>2, <2>3
<1>4. ASSUME NEW c \in Candidates, ReviewStep(c) PROVE ReviewsFit'
  BY <1>4, ReviewTouches DEF ReviewsFit, Closed, mainv
<1>5. ASSUME NEW w \in Worker, WorkerStep(w) PROVE UNCHANGED <<rpc, mpc>>
  BY <1>5, WorkerTouches
<1>6. CASE UNCHANGED vars \/ Outside
  BY <1>1, <1>6 DEF Outside, vars, review, mainv
<1> QED
  BY <1>1, <1>2, <1>3, <1>4, <1>5, <1>6, GivesUp DEF Next

(* The report reaches validation only from where it was found complete, and no    *)
(* worker is left that could add to it.                                           *)
LEMMA Reporting ==
  ASSUME TypeOK, \A w \in Worker : Fits(w), ReportAfterDelivery, [Next]_vars
  PROVE  ReportAfterDelivery'
<1>1. CASE UNCHANGED <<mpc, wstat, wpc, wresume, wprog, dprog, dfinal>>
  BY <1>1 DEF ReportAfterDelivery, Pending
<1>2. CASE mpc' # "validate"
  BY <1>2 DEF ReportAfterDelivery
<1>3. CASE MainStep /\ mpc' = "validate"
  <2>1. /\ MainReport /\ ~cancelled /\ ~MustWait
        /\ UNCHANGED <<wstat, wpc, wresume, wprog, dprog, dfinal>> /\ ~Closed
    BY <1>3 DEF MainStep, MainTurn, MainAsk, MainLost, MainTool, MainProposes, MainErrs, MainRequestFails,
         MainReport, MainWait, MainValidated, CloseTeam, Shutdown, Conclude, Goto, rows, handed, Closed
  <2>2. ~Pending /\ \A w \in Worker : wpc[w] = "off"
    BY <2>1 DEF MustWait, Pending
  <2>3. ~Pending'
    BY <2>1, <2>2 DEF Pending
  <2>4. ASSUME NEW w \in Worker, wstat[w] # "none"
        PROVE  /\ wstat[w] \in Ended /\ dfinal[w] # "no"
               /\ ~wresume[w] => dfinal[w] = wstat[w] /\ dprog[w] = wprog[w]
    BY <2>1, <2>2, <2>4 DEF Fits, MustWait, Undelivered
  <2> QED
    BY <2>1, <2>3, <2>4 DEF ReportAfterDelivery
<1>4. ASSUME NEW w \in Worker, WorkerStep(w) PROVE mpc' # "validate"
  BY <1>4, WorkerTouches, WorkerMoves DEF ReportAfterDelivery, Pending
<1>5. ASSUME NEW c \in Candidates, ReviewStep(c)
      PROVE  UNCHANGED <<mpc, wstat, wpc, wresume, wprog, dprog, dfinal>>
  BY <1>5, ReviewTouches DEF mainv, rows, handed
<1>6. CASE UNCHANGED vars \/ Outside
  BY <1>1, <1>6 DEF Outside, vars, rows, mainv, handed
<1> QED
  BY <1>1, <1>2, <1>3, <1>4, <1>5, <1>6, GivesUp DEF Next

(* The team is shut down when its threads have ended, and then none starts. *)
LEMMA Ending ==
  ASSUME TypeOK, \A w \in Worker : Fits(w), ReviewsFit, NothingLeftRunning, [Next]_vars
  PROVE  NothingLeftRunning'
<1>1. CASE UNCHANGED <<mpc, wstat, wpc, rpc>> /\ (cancelled => cancelled')
  <2>1. Busy' = Busy
    BY <1>1 DEF Busy
  <2> QED
    BY <1>1, <2>1 DEF NothingLeftRunning
<1>2. CASE mpc' # "end"
  BY <1>2 DEF NothingLeftRunning
<1>3. CASE MainStep /\ mpc' = "end"
  <2>1. Shutdown
    BY <1>3 DEF MainStep, MainTurn, MainAsk, MainLost, MainTool, MainProposes, MainErrs, MainRequestFails,
         MainReport, MainWait, MainValidated, CloseTeam, Conclude, Goto
  <2>2. Busy = 0 /\ UNCHANGED <<wpc, rpc, cancelled>> /\ Closed
    BY <2>1 DEF Shutdown, review, clock, Closed
  <2>3. Busy' = 0
    BY <2>2 DEF Busy
  <2>4. \A w \in Worker : wpc'[w] = "off"
    BY <2>2, NobodyBusy DEF Fits, TypeOK
  <2>5. \A w \in Worker : ~cancelled => wstat'[w] \notin {"queued", "running"}
    BY <2>1 DEF Shutdown
  <2> QED
    BY <2>2, <2>3, <2>4, <2>5 DEF NothingLeftRunning
<1>4. ASSUME NEW w \in Worker, WorkerStep(w) PROVE mpc' # "end"
  BY <1>4, WorkerTouches, WorkerMoves DEF NothingLeftRunning
<1>5. ASSUME NEW c \in Candidates, ReviewStep(c) PROVE mpc' # "end"
  <2>1. mpc' = mpc /\ rpc[c] \in {"waiting", "ask", "asked", "lost"}
    BY <1>5, ReviewTouches DEF mainv
  <2>2. mpc = "end" => Busy = 0 /\ rpc[c] # "waiting"
    BY DEF NothingLeftRunning, ReviewsFit, Closed
  <2> QED
    BY <2>1, <2>2, NobodyBusy
<1>6. CASE UNCHANGED vars \/ Outside
  BY <1>1, <1>6 DEF Outside, CancelTask, TimeIsUp, vars, rows, mainv, review, clock
<1> QED
  BY <1>1, <1>2, <1>3, <1>4, <1>5, <1>6, GivesUp DEF Next

(* The first state has all of it. *)
LEMMA Initially ==
  Init => TeamInv
<1> SUFFICES ASSUME Init PROVE TeamInv
  OBVIOUS
<1>1. TypeOK
  <2>1. "none" \in Reason /\ 0 \in 0..MaxProgress /\ 0 \in 0..MaxErrors /\ 0 \in 0..MaxSteps
    BY Steps DEF Reason
  <2>2. /\ calls \in 0..MaxSteps /\ sent \in [Agent -> Nat] /\ retried \in [Agent -> 0..1]
        /\ turn \in 0..MaxSteps /\ bad \in 0..3 /\ rtry \in [Candidates -> 1..2]
        /\ wcalls \in [Worker -> Nat] /\ werrs \in [Worker -> 0..MaxErrors]
        /\ wprog \in [Worker -> 0..MaxProgress] /\ dprog \in [Worker -> 0..MaxProgress]
    BY <2>1 DEF Init
  <2>3. /\ wstat \in [Worker -> Ended \union {"none", "queued", "running"}]
        /\ wreason \in [Worker -> Reason]
        /\ wpc \in [Worker -> {"off", "waiting", "loop", "asked", "lost", "leaving"}]
        /\ dfinal \in [Worker -> Ended \union {"no"}]
        /\ rpc \in [Candidates -> {"off", "waiting", "ask", "asked", "lost", "done"}]
    BY <2>1 DEF Init
  <2>4. /\ wresume \in [Worker -> BOOLEAN]
        /\ cancelled \in BOOLEAN /\ late \in BOOLEAN /\ stop \in BOOLEAN
    BY DEF Init
  <2>5. mpc = "step" /\ outcome = "running"
    BY DEF Init
  <2> QED
    BY <2>2, <2>3, <2>4, <2>5 DEF TypeOK
<1>2. Counted /\ ReviewsFit /\ ReportAfterDelivery /\ NothingLeftRunning
  BY Steps DEF Init, Counted, ReviewsFit, ReportAfterDelivery, NothingLeftRunning
<1>3. ASSUME NEW w \in Worker PROVE Fits(w)
  BY DEF Init, Fits, Ended, Closed
<1> QED
  BY <1>1, <1>2, <1>3 DEF TeamInv

(* The invariant is inductive. *)
LEMMA Inductive ==
  TeamInv /\ [Next]_vars => TeamInv'
<1> SUFFICES ASSUME TeamInv, [Next]_vars PROVE TeamInv'
  OBVIOUS
<1>1. TypeOK /\ Counted /\ ReviewsFit /\ ReportAfterDelivery /\ NothingLeftRunning
      /\ \A w \in Worker : Fits(w)
  BY DEF TeamInv
<1>2. \A w \in Worker : Fits(w)'
  BY <1>1, Fitting
<1> QED
  BY <1>1, <1>2, Typing, ReviewsFitting, Reporting, Ending DEF TeamInv

(* A worker's row has ended before it is queued again, once, and main is then at  *)
(* its report, not behind it.                                                     *)
LEMMA Resuming ==
  ASSUME TypeOK, \A w \in Worker : Fits(w), [Next]_vars, NEW w \in Worker,
         wstat[w] \in Ended, wstat'[w] \notin Ended
  PROVE  ~wresume[w] /\ mpc # "validate"
<1>1. ASSUME NEW v \in Worker, WorkerStep(v) PROVE FALSE
  <2>1. w # v => wstat'[w] = wstat[w]
    BY <1>1, WorkerMoves
  <2>2. wpc[w] \in {"off", "leaving"}
    BY DEF Fits
  <2>3. w = v => wstat'[w] = wstat[w]
    BY <1>1, <2>2, WorkerMoves
  <2> QED
    BY <2>1, <2>3
<1>2. CASE MainStep
  <2>1. CASE CloseTeam \/ Shutdown
    <3>1. wstat'[w] = wstat[w] \/ wstat'[w] = "stopped"
      BY <2>1 DEF CloseTeam, Shutdown
    <3> QED
      BY <3>1 DEF Ended
  <2>2. ASSUME NEW v \in Worker, wstat[v] = "none", wstat' = [wstat EXCEPT ![v] = "queued"] PROVE FALSE
    BY <2>2 DEF Ended, TypeOK
  <2>3. ASSUME NEW v \in Worker, Resumable(v), Resume(v), mpc = "report"
        PROVE  ~wresume[w] /\ mpc # "validate"
    <3>1. w = v
      BY <2>3, Resumes
    <3> QED
      BY <2>3, <3>1 DEF Resumable
  <2> QED
    BY <1>2, <2>1, <2>2, <2>3, MainRows
<1>3. ASSUME NEW c \in Candidates, ReviewStep(c) PROVE FALSE
  BY <1>3, ReviewTouches DEF rows
<1>4. CASE MainGivesUp
  BY <1>4, GivesUp DEF rows
<1>5. CASE UNCHANGED vars \/ Outside
  BY <1>5 DEF Outside, vars, rows
<1> QED
  BY <1>1, <1>2, <1>3, <1>4, <1>5 DEF Next

(* The invariant holds, of any number of workers, candidates and threads and for  *)
(* any budget.                                                                    *)
THEOREM Invariance == Spec => []TeamInv
<1>1. Init => TeamInv
  BY Initially
<1>2. TeamInv /\ [Next]_vars => TeamInv'
  BY Inductive
<1> QED
  BY <1>1, <1>2, PTL DEF Spec

(* Every variable keeps its type; in particular the calls never go over the limit *)
(* that the user has set.                                                         *)
THEOREM TypeCorrect == Spec => []TypeOK
<1>1. TeamInv => TypeOK
  BY DEF TeamInv
<1> QED
  BY <1>1, Invariance, PTL

(* A report under validation has everything the workers have produced that were   *)
(* not resumed, and a result of each that was (MainReport).                       *)
THEOREM ReportIsComplete == Spec => []ReportAfterDelivery
<1>1. TeamInv => ReportAfterDelivery
  BY DEF TeamInv
<1> QED
  BY <1>1, Invariance, PTL

(* An audit that is over has no thread at work and, unless it was cancelled, no   *)
(* row that looks as if it had one (CloseTeam, Shutdown).                         *)
THEOREM TeamIsClosed == Spec => []NothingLeftRunning
<1>1. TeamInv => NothingLeftRunning
  BY DEF TeamInv
<1> QED
  BY <1>1, Invariance, PTL

(* A worker that has ended is queued again once at most (resume_for_validation),  *)
(* and never while the report is under validation.                                *)
THEOREM ResumedOnce == Spec => ResumedAtMostOnce
<1>1. ASSUME TypeOK, \A w \in Worker : Fits(w), [Next]_vars
      PROVE  [\A w \in Worker : wstat[w] \in Ended /\ wstat'[w] \notin Ended =>
                ~wresume[w] /\ mpc # "validate"]_vars
  BY <1>1, Resuming
<1>2. TeamInv /\ [Next]_vars => [\A w \in Worker : wstat[w] \in Ended /\ wstat'[w] \notin Ended =>
                ~wresume[w] /\ mpc # "validate"]_vars
  BY <1>1 DEF TeamInv
<1> QED
  BY <1>2, Invariance, PTL DEF Spec, ResumedAtMostOnce
(* The sum of a function over a set is computed by a function of the subsets. *)
Chosen(s) == CHOOSE x \in s : TRUE
IsSum(g, f, S) ==
  g = [s \in SUBSET S |-> IF s = {} THEN 0 ELSE f[Chosen(s)] + g[s \ {Chosen(s)}]]

(* That is how SumFunctionOnSet is defined. *)
LEMMA SumUnfolds ==
  ASSUME NEW f, NEW S
  PROVE  SumFunctionOnSet(f, S) = (CHOOSE g : IsSum(g, f, S))[S]
  BY DEF SumFunctionOnSet, FoldFunctionOnSet, MapThenFoldSet, IsSum, Chosen

(* Every non-empty set of finite sets has one without any of its proper subsets. *)
LEMMA SmallestSet ==
  ASSUME NEW S, IsFiniteSet(S), NEW T \in SUBSET SUBSET S, T # {}
  PROVE  \E s \in T : \A u \in T : u \subseteq s => u = s
<1>1. IsWellFoundedOn(StrictSubsetOrdering(S), FiniteSubsetsOf(S))
  BY FS_StrictSubsetOrderingWellFounded
<1>2. T \subseteq FiniteSubsetsOf(S)
  BY FS_Subset DEF FiniteSubsetsOf
<1>3. \E x \in T : \A y \in T : ~ (<<y, x>> \in StrictSubsetOrdering(S))
  BY <1>1, <1>2, WFMin
<1> QED
  BY <1>3 DEF StrictSubsetOrdering

(* Two such functions agree on the subsets that they share. *)
LEMMA SumUnique ==
  ASSUME NEW f, NEW S, NEW U, NEW g, NEW h, IsFiniteSet(S),
         IsSum(g, f, S), IsSum(h, f, U), S \subseteq U
  PROVE  \A s \in SUBSET S : g[s] = h[s]
<1> DEFINE T == {s \in SUBSET S : g[s] # h[s]}
<1>1. SUFFICES ASSUME T # {} PROVE FALSE
  OBVIOUS
<1>2. PICK s \in T : \A u \in T : u \subseteq s => u = s
  <2>1. T \in SUBSET SUBSET S
    OBVIOUS
  <2> HIDE DEF T
  <2> QED
    BY <1>1, <2>1, SmallestSet
<1>3. s \in SUBSET S /\ s \in SUBSET U /\ g[s] # h[s]
  BY <1>2
<1>4. /\ g[s] = IF s = {} THEN 0 ELSE f[Chosen(s)] + g[s \ {Chosen(s)}]
      /\ h[s] = IF s = {} THEN 0 ELSE f[Chosen(s)] + h[s \ {Chosen(s)}]
  BY <1>3 DEF IsSum
<1>5. s # {}
  BY <1>3, <1>4
<1>6. Chosen(s) \in s
  BY <1>5 DEF Chosen
<1>7. g[s \ {Chosen(s)}] = h[s \ {Chosen(s)}]
  BY <1>2, <1>3, <1>6
<1> QED
  BY <1>3, <1>4, <1>7

(* There is such a function for every finite set. *)
LEMMA SumExists ==
  ASSUME NEW f, NEW S, IsFiniteSet(S)
  PROVE  \E g : IsSum(g, f, S)
<1> DEFINE T == {s \in SUBSET S : ~ \E g : IsSum(g, f, s)}
<1>1. SUFFICES ASSUME T # {} PROVE FALSE
  OBVIOUS
<1>2. PICK s \in T : \A u \in T : u \subseteq s => u = s
  <2>1. T \in SUBSET SUBSET S
    OBVIOUS
  <2> HIDE DEF T
  <2> QED
    BY <1>1, <2>1, SmallestSet
<1> DEFINE H(u) == CHOOSE g : IsSum(g, f, u)
           V(u) == IF u = {} THEN 0 ELSE f[Chosen(u)] + H(u \ {Chosen(u)})[u \ {Chosen(u)}]
           G == [u \in SUBSET s |-> V(u)]
<1>3. s \in SUBSET S /\ ~ \E g : IsSum(g, f, s)
  BY <1>2
<1>4. \A u \in SUBSET s : u # s => IsSum(H(u), f, u)
  BY <1>2, <1>3
<1>5. ASSUME NEW u \in SUBSET s, u # s
      PROVE  H(u)[u] = V(u)
  <2>1. IsSum(H(u), f, u)
    BY <1>4, <1>5
  <2>2. H(u)[u] = IF u = {} THEN 0 ELSE f[Chosen(u)] + H(u)[u \ {Chosen(u)}]
    <3> HIDE DEF H
    <3> QED
      BY <2>1 DEF IsSum
  <2>3. CASE u = {}
    BY <2>2, <2>3
  <2>4. CASE u # {}
    <3> DEFINE v == u \ {Chosen(u)}
    <3>1. v \in SUBSET s /\ v # s /\ v \subseteq u /\ IsFiniteSet(v)
      <4>1. v \subseteq u
        OBVIOUS
      <4>2. v \in SUBSET S /\ v # s
        BY <1>3, <1>5, <2>4 DEF Chosen
      <4> QED
        BY <1>5, <4>1, <4>2, FS_Subset
    <3>2. IsSum(H(v), f, v)
      BY <1>4, <3>1
    <3>3. H(v)[v] = H(u)[v]
      <4> HIDE DEF H, v
      <4> QED
        BY <2>1, <3>1, <3>2, SumUnique
    <3> HIDE DEF H
    <3> QED
      BY <2>2, <2>4, <3>3
  <2> QED
    BY <2>3, <2>4
<1>6. ASSUME NEW u \in SUBSET s
      PROVE  G[u] = IF u = {} THEN 0 ELSE f[Chosen(u)] + G[u \ {Chosen(u)}]
  <2>1. CASE u = {}
    BY <2>1
  <2>2. CASE u # {}
    <3> DEFINE v == u \ {Chosen(u)}
    <3>1. v \in SUBSET s /\ v # s
      BY <2>2 DEF Chosen
    <3>2. H(v)[v] = V(v)
      <4> HIDE DEF H, V, v
      <4> QED
        BY <1>5, <3>1
    <3>3. G[v] = V(v)
      <4> HIDE DEF V, v
      <4> QED
        BY <3>1
    <3>4. G[u] = f[Chosen(u)] + H(v)[v]
      <4>1. G[u] = V(u)
        <5> HIDE DEF V
        <5> QED
          OBVIOUS
      <4>2. V(u) = f[Chosen(u)] + H(v)[v]
        BY <2>2
      <4> QED
        BY <4>1, <4>2
    <3> HIDE DEF G, H, V
    <3> QED
      BY <2>2, <3>2, <3>3, <3>4
  <2> QED
    BY <2>1, <2>2
<1>7. IsSum(G, f, s)
  <2>1. G = [u \in SUBSET s |-> G[u]]
    <3> HIDE DEF V
    <3> QED
      OBVIOUS
  <2> HIDE DEF G
  <2> QED
    BY <1>6, <2>1 DEF IsSum
<1> QED
  BY <1>3, <1>7

(* The sum over the empty set is zero, over another it is taken element by element. *)
LEMMA SumAt ==
  ASSUME NEW f, NEW S, IsFiniteSet(S)
  PROVE  /\ SumFunctionOnSet(f, {}) = 0
         /\ S # {} => SumFunctionOnSet(f, S)
                        = f[Chosen(S)] + SumFunctionOnSet(f, S \ {Chosen(S)})
<1> DEFINE H(u) == CHOOSE g : IsSum(g, f, u)
<1>1. \A u : IsFiniteSet(u) => IsSum(H(u), f, u)
  BY SumExists
<1>2. \A u : SumFunctionOnSet(f, u) = H(u)[u]
  BY SumUnfolds
<1> HIDE DEF H
<1>3. SumFunctionOnSet(f, {}) = 0
  <2>1. IsSum(H({}), f, {})
    BY <1>1, FS_EmptySet
  <2>2. H({})[{}] = 0
    BY <2>1 DEF IsSum
  <2> QED
    BY <1>2, <2>2
<1>4. ASSUME S # {} PROVE SumFunctionOnSet(f, S) = f[Chosen(S)] + SumFunctionOnSet(f, S \ {Chosen(S)})
  <2> DEFINE v == S \ {Chosen(S)}
  <2>1. v \subseteq S /\ IsFiniteSet(v)
    BY FS_Subset
  <2>2. IsSum(H(S), f, S) /\ IsSum(H(v), f, v)
    BY <1>1, <2>1
  <2>3. H(S)[S] = f[Chosen(S)] + H(S)[v]
    BY <1>4, <2>2 DEF IsSum
  <2>4. H(S)[v] = H(v)[v]
    <3> HIDE DEF v
    <3> QED
      BY <2>1, <2>2, SumUnique
  <2> QED
    BY <1>2, <2>3, <2>4
<1> QED
  BY <1>3, <1>4

(* The sum of natural numbers is one, and any element may be taken out first. *)
LEMMA SumRemove ==
  ASSUME NEW D, NEW f \in [D -> Nat], NEW S \in SUBSET D, IsFiniteSet(S)
  PROVE  /\ SumFunctionOnSet(f, S) \in Nat
         /\ \A y \in S : SumFunctionOnSet(f, S) = f[y] + SumFunctionOnSet(f, S \ {y})
<1> DEFINE Sum(s) == SumFunctionOnSet(f, s)
           P(s) == Sum(s) \in Nat /\ \A y \in s : Sum(s) = f[y] + Sum(s \ {y})
           T == {s \in SUBSET S : ~P(s)}
<1>1. SUFFICES ASSUME T # {} PROVE FALSE
  OBVIOUS
<1>2. PICK s \in T : \A u \in T : u \subseteq s => u = s
  <2>1. T \in SUBSET SUBSET S
    OBVIOUS
  <2> HIDE DEF T
  <2> QED
    BY <1>1, <2>1, SmallestSet
<1>3. s \in SUBSET S /\ ~P(s) /\ IsFiniteSet(s)
  BY <1>2, FS_Subset
<1>4. \A u \in SUBSET s : u # s => P(u)
  BY <1>2, <1>3
<1>5. Sum({}) = 0 /\ (s # {} => Sum(s) = f[Chosen(s)] + Sum(s \ {Chosen(s)}))
  BY <1>3, SumAt
<1>6. s # {}
  BY <1>3, <1>5
<1> HIDE DEF Sum, T
<1> DEFINE x == Chosen(s)
<1>7. x \in s /\ x \in D /\ f[x] \in Nat
  BY <1>3, <1>6 DEF Chosen
<1> HIDE DEF x
<1>8. Sum(s) = f[x] + Sum(s \ {x})
  BY <1>5, <1>6 DEF x
<1>9. Sum(s \ {x}) \in Nat
  BY <1>4, <1>7
<1>10. ASSUME NEW y \in s PROVE Sum(s) = f[y] + Sum(s \ {y})
  <2>1. CASE y = x
    BY <1>8, <2>1
  <2>2. CASE y # x
    <3>1. f[y] \in Nat
      BY <1>3
    <3>2. P(s \ {x}) /\ P(s \ {y}) /\ y \in s \ {x} /\ x \in s \ {y}
      BY <1>4, <1>7, <2>2
    <3>3. Sum(s \ {x}) = f[y] + Sum((s \ {x}) \ {y})
      BY <3>2
    <3>4. Sum(s \ {y}) = f[x] + Sum((s \ {y}) \ {x})
      BY <3>2
    <3>5. (s \ {x}) \ {y} = (s \ {y}) \ {x}
      OBVIOUS
    <3>6. P((s \ {x}) \ {y})
      BY <1>4, <1>7
    <3> DEFINE n == Sum((s \ {x}) \ {y})
    <3>7. n \in Nat /\ Sum(s) = f[x] + (f[y] + n) /\ Sum(s \ {y}) = f[x] + n
      BY <1>8, <3>3, <3>4, <3>5, <3>6
    <3> HIDE DEF n
    <3> QED
      BY <1>7, <3>1, <3>7
  <2> QED
    BY <2>1, <2>2
<1>11. Sum(s) \in Nat
  BY <1>7, <1>8, <1>9
<1> QED
  BY <1>3, <1>10, <1>11

(* Functions that agree on a set have the same sum over it. *)
LEMMA SumSame ==
  ASSUME NEW f, NEW g, NEW S, IsFiniteSet(S), \A x \in S : f[x] = g[x]
  PROVE  SumFunctionOnSet(f, S) = SumFunctionOnSet(g, S)
<1> DEFINE T == {s \in SUBSET S : SumFunctionOnSet(f, s) # SumFunctionOnSet(g, s)}
<1>1. SUFFICES ASSUME T # {} PROVE FALSE
  OBVIOUS
<1>2. PICK s \in T : \A u \in T : u \subseteq s => u = s
  <2>1. T \in SUBSET SUBSET S
    OBVIOUS
  <2> HIDE DEF T
  <2> QED
    BY <1>1, <2>1, SmallestSet
<1>3. s \in SUBSET S /\ IsFiniteSet(s) /\ SumFunctionOnSet(f, s) # SumFunctionOnSet(g, s)
  BY <1>2, FS_Subset
<1>4. s # {}
  BY <1>3, SumAt
<1>5. Chosen(s) \in s
  BY <1>4 DEF Chosen
<1>6. SumFunctionOnSet(f, s \ {Chosen(s)}) = SumFunctionOnSet(g, s \ {Chosen(s)})
  BY <1>2, <1>3, <1>5
<1>7. /\ SumFunctionOnSet(f, s) = f[Chosen(s)] + SumFunctionOnSet(f, s \ {Chosen(s)})
      /\ SumFunctionOnSet(g, s) = g[Chosen(s)] + SumFunctionOnSet(g, s \ {Chosen(s)})
  BY <1>3, <1>4, SumAt
<1> QED
  BY <1>3, <1>5, <1>6, <1>7

(* One more at an element of the set is one more in the sum. *)
LEMMA SumAdd ==
  ASSUME NEW D, NEW f \in [D -> Nat], NEW S \in SUBSET D, IsFiniteSet(S), NEW y \in D,
         NEW g \in [D -> Nat], g[y] = f[y] + 1, \A x \in D : x # y => g[x] = f[x]
  PROVE  /\ y \in S => SumFunctionOnSet(g, S) = SumFunctionOnSet(f, S) + 1
         /\ y \notin S => SumFunctionOnSet(g, S) = SumFunctionOnSet(f, S)
<1>1. f[y] \in Nat
  OBVIOUS
<1>2. IsFiniteSet(S \ {y})
  BY FS_Subset
<1>3. SumFunctionOnSet(g, S \ {y}) = SumFunctionOnSet(f, S \ {y})
  BY <1>2, SumSame
<1>4. CASE y \notin S
  <2>1. S \ {y} = S
    BY <1>4
  <2> QED
    BY <1>3, <1>4, <2>1
<1>5. CASE y \in S
  <2>1. SumFunctionOnSet(g, S) = g[y] + SumFunctionOnSet(g, S \ {y})
    BY <1>1, <1>5, SumRemove
  <2>2. SumFunctionOnSet(f, S) = f[y] + SumFunctionOnSet(f, S \ {y})
    BY <1>5, SumRemove
  <2>3. SumFunctionOnSet(f, S \ {y}) \in Nat
    BY <1>2, SumRemove
  <2> QED
    BY <1>1, <1>3, <1>5, <2>1, <2>2, <2>3
<1> QED
  BY <1>4, <1>5

(* The sum over fewer elements is no greater. *)
LEMMA SumLess ==
  ASSUME NEW D, NEW f \in [D -> Nat], NEW S \in SUBSET D, IsFiniteSet(S), NEW R \in SUBSET S
  PROVE  SumFunctionOnSet(f, R) <= SumFunctionOnSet(f, S)
<1> DEFINE T == {s \in SUBSET S : R \subseteq s /\ ~(SumFunctionOnSet(f, R) <= SumFunctionOnSet(f, s))}
<1>1. SUFFICES ASSUME T # {} PROVE FALSE
  OBVIOUS
<1>2. PICK s \in T : \A u \in T : u \subseteq s => u = s
  <2>1. T \in SUBSET SUBSET S
    OBVIOUS
  <2> HIDE DEF T
  <2> QED
    BY <1>1, <2>1, SmallestSet
<1>3. /\ s \in SUBSET S /\ R \subseteq s /\ IsFiniteSet(s) /\ IsFiniteSet(R)
      /\ ~(SumFunctionOnSet(f, R) <= SumFunctionOnSet(f, s))
  BY <1>2, FS_Subset
<1>4. SumFunctionOnSet(f, R) \in Nat /\ SumFunctionOnSet(f, s) \in Nat
  BY <1>3, SumRemove
<1>5. R # s
  BY <1>3, <1>4
<1>6. PICK y \in s : y \notin R
  BY <1>3, <1>5
<1>7. SumFunctionOnSet(f, s) = f[y] + SumFunctionOnSet(f, s \ {y}) /\ f[y] \in Nat
  BY <1>3, SumRemove
<1>8. SumFunctionOnSet(f, R) <= SumFunctionOnSet(f, s \ {y})
  BY <1>2, <1>3, <1>6
<1>9. SumFunctionOnSet(f, s \ {y}) \in Nat
  BY <1>3, FS_Subset, SumRemove
<1> QED
  BY <1>3, <1>4, <1>7, <1>8, <1>9

(* A function that is zero on a set has the sum zero over it. *)
LEMMA SumZero ==
  ASSUME NEW f, NEW S, IsFiniteSet(S), \A x \in S : f[x] = 0
  PROVE  SumFunctionOnSet(f, S) = 0
<1> DEFINE T == {s \in SUBSET S : SumFunctionOnSet(f, s) # 0}
<1>1. SUFFICES ASSUME T # {} PROVE FALSE
  OBVIOUS
<1>2. PICK s \in T : \A u \in T : u \subseteq s => u = s
  <2>1. T \in SUBSET SUBSET S
    OBVIOUS
  <2> HIDE DEF T
  <2> QED
    BY <1>1, <2>1, SmallestSet
<1>3. s \in SUBSET S /\ IsFiniteSet(s) /\ SumFunctionOnSet(f, s) # 0
  BY <1>2, FS_Subset
<1>4. s # {}
  BY <1>3, SumAt
<1>5. Chosen(s) \in s
  BY <1>4 DEF Chosen
<1>6. SumFunctionOnSet(f, s \ {Chosen(s)}) = 0
  BY <1>2, <1>3, <1>5
<1> QED
  BY <1>3, <1>4, <1>5, <1>6, SumAt

(* The agents are finitely many, and so are those of any workers. *)
LEMMA FiniteTeam ==
  /\ IsFiniteSet(Agent)
  /\ \A ws \in SUBSET Worker : AgentsOf(ws) \subseteq Agent /\ IsFiniteSet(AgentsOf(ws))
<1> DEFINE R == {<<"review", c>> : c \in Candidates}
           f == [c \in Candidates |-> <<"review", c>>]
           W == {<<"worker", w>> : w \in Worker}
           g == [w \in Worker |-> <<"worker", w>>]
<1>1. f \in Surjection(Candidates, R) /\ g \in Surjection(Worker, W)
  BY DEF Surjection
<1>2. IsFiniteSet(Worker)
  BY FS_Interval, MaxWorkersAssumption DEF Worker
<1>3. IsFiniteSet(R) /\ IsFiniteSet(W)
  <2> HIDE DEF f, R, g, W
  <2> QED
    BY <1>1, <1>2, CandidatesAssumption, FS_Surjection
<1>4. IsFiniteSet({Main})
  BY FS_Singleton
<1>5. Agent = ({Main} \union R) \union W
  BY DEF Agent
<1>6. IsFiniteSet(Agent)
  <2> HIDE DEF R, W
  <2> QED
    BY <1>3, <1>4, <1>5, FS_Union
<1>7. \A ws \in SUBSET Worker : AgentsOf(ws) \subseteq Agent
  BY DEF AgentsOf, Agent
<1> QED
  BY <1>6, <1>7, FS_Subset

(* The reserve is two calls at least. *)
LEMMA ReserveSize == Reserve \in Nat /\ Reserve >= 2
<1>1. MaxSteps \div 4 \in Nat
  BY Steps
<1> DEFINE q == MaxSteps \div 4
<1> HIDE DEF q
<1>2. q \in Nat /\ Reserve = Least(8, Most(2, q))
  BY <1>1 DEF q, Reserve
<1> QED
  BY <1>2 DEF Least, Most

(* A worker's request is admitted only when there are calls left for main. *)
LEMMA Admission ==
  ASSUME TypeOK, NEW w \in Worker, Refusal(w) = "none"
  PROVE  calls + (IF wresume[w] THEN 1 ELSE Reserve) < MaxSteps
<1>1. calls \in Nat /\ wresume[w] \in BOOLEAN
  BY DEF TypeOK
<1>2. ~Stopping /\ calls < MaxSteps
  <2>1. ASSUME Stopping \/ calls >= MaxSteps PROVE Refusal(w) = "other"
    <3>1. ~(~Stopping /\ calls < MaxSteps)
      BY <1>1, <2>1, Steps
    <3> QED
      BY <2>1, <3>1 DEF Refusal
  <2> QED
    BY <1>1, <2>1, Steps
<1>3. CASE wresume[w]
  <2>1. Refusal(w) = IF calls + 1 >= MaxSteps THEN "reserved_for_main" ELSE "none"
    <3>1. ~(Stopping \/ calls >= MaxSteps)
      BY <1>1, <1>2, Steps
    <3> QED
      BY <1>2, <1>3, <3>1 DEF Refusal
  <2> QED
    BY <1>1, <1>3, <2>1, Steps
<1>4. CASE ~wresume[w]
  <2>1. Refusal(w) = IF calls + Reserve >= MaxSteps THEN "reserved_for_main"
                     ELSE IF wcalls[w] >= WorkerCallLimit THEN "worker_step_limit" ELSE "none"
    <3>1. ~(Stopping \/ calls >= MaxSteps)
      BY <1>1, <1>2, Steps
    <3> QED
      BY <1>2, <1>4, <3>1 DEF Refusal
  <2> QED
    BY <1>1, <1>4, <2>1, Steps, ReserveSize
<1> QED
  BY <1>1, <1>3, <1>4

(* What a step takes from the budget: nothing, or one request of one agent within   *)
(* the limit, of a worker only when it was admitted; it is counted, or the task is   *)
(* cancelled from then on.                                                           *)
Charge(a) ==
  /\ ~cancelled /\ calls < MaxSteps
  /\ sent' = [sent EXCEPT ![a] = @ + 1]
  /\ calls' = calls + 1 \/ (cancelled' /\ calls' = calls)
  /\ \/ UNCHANGED wcalls /\ \A w \in Worker : a # <<"worker", w>>
     \/ \E w \in Worker : /\ a = <<"worker", w>> /\ Refusal(w) = "none"
                          /\ ~cancelled' => wcalls' = [wcalls EXCEPT ![w] = @ + 1]

LEMMA Charges ==
  ASSUME TypeOK, [Next]_vars
  PROVE  /\ \A w \in Worker : wresume[w] => wresume'[w]
         /\ \/ UNCHANGED <<calls, sent, wcalls>> /\ (cancelled => cancelled')
            \/ UNCHANGED wresume /\ \E a \in Agent : Charge(a)
<1>1. CASE UNCHANGED vars \/ MainGivesUp \/ Outside
  BY <1>1, GivesUp DEF vars, Outside, CancelTask, TimeIsUp, budget, rows, clock
<1>2. CASE MainStep
  <2>1. \A w \in Worker : wresume[w] => wresume'[w]
    <3>1. ASSUME NEW w \in Worker, Resume(w) PROVE \A v \in Worker : wresume[v] => wresume'[v]
      BY <3>1, Resumes
    <3>2. CASE CloseTeam \/ Shutdown
      BY <3>2 DEF CloseTeam, Shutdown
    <3> QED
      BY <1>2, <3>1, <3>2, MainRows
  <2>2. \/ UNCHANGED <<calls, sent, wcalls>> /\ (cancelled => cancelled')
        \/ /\ ~Over /\ calls < MaxSteps /\ UNCHANGED <<wcalls, wresume>>
           /\ Take(Main) \/ CancelInside(Main)
    BY <1>2, MainRows DEF MainStep, MainTurn, MainAsk, MainLost, MainTool, MainProposes, MainErrs, MainRequestFails,
         MainReport, MainWait, MainValidated, CloseTeam, Shutdown, budget, rows
  <2>3. ASSUME ~Over, calls < MaxSteps, UNCHANGED wcalls, Take(Main) \/ CancelInside(Main) PROVE Charge(Main)
    BY <2>3, Agents DEF Charge, Over, Take, CancelInside
  <2> QED
    BY <2>1, <2>2, <2>3, Agents
<1>3. ASSUME NEW c \in Candidates, ReviewStep(c)
      PROVE  /\ UNCHANGED wresume
             /\ \/ UNCHANGED <<calls, sent, wcalls>> /\ (cancelled => cancelled')
                \/ Charge(<<"review", c>>)
  <2>1. UNCHANGED <<wresume, wcalls>> /\ (cancelled => cancelled')
    BY <1>3, ReviewTouches DEF rows
  <2>2. \/ UNCHANGED <<calls, sent>>
        \/ /\ ~Stopping /\ calls < MaxSteps
           /\ Take(<<"review", c>>) \/ CancelInside(<<"review", c>>)
    BY <1>3 DEF ReviewStep, ReviewStart, ReviewAsk, ReviewAnswer, ReviewRequestFails, ReviewLost, budget
  <2>3. ASSUME ~Stopping, calls < MaxSteps, Take(<<"review", c>>) \/ CancelInside(<<"review", c>>)
        PROVE  Charge(<<"review", c>>)
    BY <2>1, <2>3, Agents DEF Charge, Stopping, Over, Take, CancelInside
  <2> QED
    BY <2>1, <2>2, <2>3
<1>4. ASSUME NEW w \in Worker, WorkerStep(w)
      PROVE  /\ UNCHANGED wresume
             /\ \/ UNCHANGED <<calls, sent, wcalls>> /\ (cancelled => cancelled')
                \/ Charge(<<"worker", w>>)
  <2>1. UNCHANGED wresume /\ (cancelled => cancelled')
    BY <1>4, WorkerTouches
  <2>2. CASE WorkerAsk(w) /\ Refusal(w) = "none"
    <3>1. /\ \/ TakeWorker(w) /\ UNCHANGED cancelled
             \/ CancelInside(<<"worker", w>>)
      BY <2>2 DEF WorkerAsk, clock
    <3>2. ~cancelled /\ calls < MaxSteps
      <4>1. ASSUME Stopping \/ calls >= MaxSteps PROVE Refusal(w) = "other"
        <5>1. ~(~Stopping /\ calls < MaxSteps)
          BY <4>1, Steps DEF TypeOK
        <5> QED
          BY <4>1, <5>1 DEF Refusal
      <4> QED
        BY <2>2, <4>1, Steps DEF TypeOK, Stopping, Over
    <3>3. Charge(<<"worker", w>>)
      BY <2>2, <3>1, <3>2 DEF Charge, TakeWorker, Take, CancelInside
    <3> QED
      BY <2>1, <3>3
  <2>3. CASE ~(WorkerAsk(w) /\ Refusal(w) = "none")
    BY <1>4, <2>1, <2>3 DEF WorkerStep, WorkerStart, WorkerAsk, WorkerContinues, WorkerCompletes, WorkerErrs,
         WorkerRequestFails, WorkerFails, WorkerDone, budget
  <2> QED
    BY <2>2, <2>3
<1> QED
  BY <1>1, <1>2, <1>3, <1>4, Agents DEF Next

(* So the limit holds for what is sent, and the workers stay out of the reserve. *)
LEMMA Budgeting ==
  ASSUME TypeOK, SharedBudget, ReserveKept, [Next]_vars
  PROVE  SharedBudget' /\ ReserveKept'
<1> DEFINE Of(f, S) == SumFunctionOnSet(f, S)
           Fresh == AgentsOf({w \in Worker : ~wresume[w]})
           All == AgentsOf(Worker)
<1>1. /\ IsFiniteSet(Agent) /\ Fresh \in SUBSET Agent /\ IsFiniteSet(Fresh)
      /\ All \in SUBSET Agent /\ IsFiniteSet(All) /\ Fresh \subseteq All
  BY FiniteTeam DEF AgentsOf
<1>2. sent \in [Agent -> Nat] /\ wcalls \in [Worker -> Nat] /\ calls \in Nat /\ wresume \in [Worker -> BOOLEAN]
  BY DEF TypeOK
<1>3. /\ Of(sent, Agent) <= MaxSteps /\ Of(sent, Agent) \in calls..(calls + 1)
      /\ ~cancelled => calls = Of(sent, Agent) /\ \A w \in Worker : wcalls[w] = sent[<<"worker", w>>]
      /\ Of(sent, Fresh) <= Most(0, MaxSteps - Reserve) /\ Of(sent, All) < MaxSteps
  BY DEF SharedBudget, ReserveKept, Requests
<1>4. Fresh' \in SUBSET Fresh
  BY Charges DEF AgentsOf
<1>5. SUFFICES /\ Of(sent', Agent) <= MaxSteps /\ Of(sent', Agent) \in calls'..(calls' + 1)
               /\ ~cancelled' => calls' = Of(sent', Agent) /\ \A w \in Worker : wcalls'[w] = sent'[<<"worker", w>>]
               /\ Of(sent', Fresh') <= Most(0, MaxSteps - Reserve) /\ Of(sent', All) < MaxSteps
  <2>1. Requests(Agent)' = Of(sent', Agent)
    BY DEF Requests
  <2>2. Requests(AgentsOf({w \in Worker : ~wresume[w]}))' = Of(sent', Fresh')
    BY DEF Requests
  <2>3. Requests(AgentsOf(Worker))' = Of(sent', All)
    BY DEF Requests, AgentsOf
  <2> HIDE DEF Of, Fresh, All
  <2> QED
    BY <2>1, <2>2, <2>3 DEF SharedBudget, ReserveKept
<1>6. /\ Of(sent, Agent) \in Nat /\ Of(sent, Fresh) \in Nat /\ Of(sent, All) \in Nat
      /\ Of(sent, Fresh) <= Of(sent, Agent) /\ Of(sent, All) <= Of(sent, Agent)
      /\ Of(sent, Fresh') <= Of(sent, Fresh) /\ Of(sent, Fresh') \in Nat
  BY <1>1, <1>2, <1>4, FS_Subset, SumRemove, SumLess
<1>7. Most(0, MaxSteps - Reserve) \in Int
  BY Steps, ReserveSize DEF Most
<1> HIDE DEF Of
<1>8. CASE UNCHANGED <<calls, sent, wcalls>> /\ (cancelled => cancelled')
  <2> HIDE DEF Fresh, All
  <2> QED
    BY <1>3, <1>6, <1>7, <1>8
<1>9. ASSUME NEW a \in Agent, UNCHANGED wresume, Charge(a)
      PROVE  /\ Of(sent', Agent) <= MaxSteps /\ Of(sent', Agent) \in calls'..(calls' + 1)
             /\ ~cancelled' => calls' = Of(sent', Agent) /\ \A w \in Worker : wcalls'[w] = sent'[<<"worker", w>>]
             /\ Of(sent', Fresh') <= Most(0, MaxSteps - Reserve) /\ Of(sent', All) < MaxSteps
  <2>1. /\ sent' \in [Agent -> Nat] /\ sent'[a] = sent[a] + 1
        /\ \A x \in Agent : x # a => sent'[x] = sent[x]
    BY <1>2, <1>9 DEF Charge
  <2>2. ASSUME NEW S \in SUBSET Agent, IsFiniteSet(S)
        PROVE  /\ a \in S => Of(sent', S) = Of(sent, S) + 1
               /\ a \notin S => Of(sent', S) = Of(sent, S)
    BY <1>2, <2>1, <2>2, SumAdd DEF Of
  <2>3. Fresh' = Fresh
    BY <1>9 DEF Fresh
  <2>4. /\ ~cancelled /\ calls < MaxSteps
        /\ calls' = calls + 1 \/ (cancelled' /\ calls' = calls)
    BY <1>9 DEF Charge
  <2>5. /\ Of(sent', Agent) <= MaxSteps /\ Of(sent', Agent) \in calls'..(calls' + 1)
        /\ ~cancelled' => calls' = Of(sent', Agent)
    <3>1. Of(sent', Agent) = calls + 1
      BY <1>1, <1>3, <2>2, <2>4
    <3> QED
      BY <1>2, <2>4, <3>1, Steps
  <2>6. ASSUME ~cancelled', NEW w \in Worker PROVE wcalls'[w] = sent'[<<"worker", w>>]
    <3>1. wcalls[w] = sent[<<"worker", w>>] /\ <<"worker", w>> \in Agent
      BY <1>3, <2>4, Agents
    <3>2. CASE UNCHANGED wcalls /\ \A v \in Worker : a # <<"worker", v>>
      BY <2>1, <3>1, <3>2
    <3>3. ASSUME NEW v \in Worker, a = <<"worker", v>>, wcalls' = [wcalls EXCEPT ![v] = @ + 1]
          PROVE  wcalls'[w] = sent'[<<"worker", w>>]
      <4>1. CASE v = w
        BY <1>2, <2>1, <3>1, <3>3, <4>1
      <4>2. CASE v # w
        <5>1. a # <<"worker", w>>
          BY <3>3, <4>2
        <5> QED
          BY <1>2, <2>1, <3>1, <3>3, <4>2, <5>1
      <4> QED
        BY <4>1, <4>2
    <3> QED
      BY <1>9, <2>6, <3>2, <3>3 DEF Charge
  <2>7. CASE \A v \in Worker : a # <<"worker", v>>
    <3>1. a \notin Fresh /\ a \notin All
      BY <2>7 DEF AgentsOf
    <3>2. Of(sent', Fresh) = Of(sent, Fresh) /\ Of(sent', All) = Of(sent, All)
      BY <1>1, <2>2, <3>1
    <3> HIDE DEF Fresh, All
    <3> QED
      BY <1>3, <2>3, <2>5, <2>6, <3>2
  <2>8. ASSUME NEW v \in Worker, a = <<"worker", v>>, Refusal(v) = "none"
        PROVE  Of(sent', Fresh') <= Most(0, MaxSteps - Reserve) /\ Of(sent', All) < MaxSteps
    <3>1. calls + (IF wresume[v] THEN 1 ELSE Reserve) < MaxSteps
      BY <2>8, Admission
    <3>2. calls + 1 < MaxSteps /\ (~wresume[v] => calls + Reserve < MaxSteps)
      BY <1>2, <3>1, Steps, ReserveSize
    <3>3. a \in Fresh <=> ~wresume[v]
      BY <2>8 DEF AgentsOf
    <3>4. /\ Of(sent', All) <= Of(sent, All) + 1
          /\ a \in Fresh => Of(sent', Fresh) = Of(sent, Fresh) + 1
          /\ a \notin Fresh => Of(sent', Fresh) = Of(sent, Fresh)
      <4>1. Of(sent', All) \in {Of(sent, All), Of(sent, All) + 1}
        BY <1>1, <2>2
      <4>2. Of(sent, All) \in Nat
        BY <1>6
      <4> HIDE DEF Fresh, All
      <4>3. Of(sent', All) <= Of(sent, All) + 1
        BY <4>1, <4>2
      <4> QED
        BY <1>1, <2>2, <4>3
    <3>5. Of(sent', All) \in Nat
      <4>1. Of(sent', All) \in {Of(sent, All), Of(sent, All) + 1}
        BY <1>1, <2>2
      <4> HIDE DEF Fresh, All
      <4> QED
        BY <1>6, <4>1
    <3> HIDE DEF Fresh, All
    <3>6. calls = Of(sent, Agent)
      BY <1>3, <2>4
    <3>7. Of(sent', All) < MaxSteps
      BY <1>2, <1>6, <3>2, <3>4, <3>5, <3>6, Steps
    <3>8. Of(sent', Fresh) <= Most(0, MaxSteps - Reserve)
      <4>1. CASE wresume[v]
        BY <1>3, <3>3, <3>4, <4>1
      <4>2. CASE ~wresume[v]
        <5>1. Of(sent', Fresh) = Of(sent, Fresh) + 1 /\ calls + Reserve < MaxSteps
          BY <3>2, <3>3, <3>4, <4>2
        <5> QED
          BY <1>2, <1>6, <3>6, <5>1, Steps, ReserveSize DEF Most
      <4> QED
        BY <4>1, <4>2
    <3> QED
      BY <2>3, <3>7, <3>8
  <2> HIDE DEF Fresh, All
  <2> QED
    BY <1>9, <2>5, <2>6, <2>7, <2>8 DEF Charge
<1> QED
  BY <1>8, <1>9, Charges

(* No request is sent at first. *)
LEMMA NothingSpent ==
  Init => SharedBudget /\ ReserveKept
<1> SUFFICES ASSUME Init PROVE SharedBudget /\ ReserveKept
  OBVIOUS
<1>1. /\ \A a \in Agent : sent[a] = 0
      /\ \A w \in Worker : wcalls[w] = 0
      /\ calls = 0
  BY DEF Init
<1>2. Requests(Agent) = 0
  BY <1>1, FiniteTeam, SumZero DEF Requests
<1>3. ASSUME NEW ws \in SUBSET Worker PROVE Requests(AgentsOf(ws)) = 0
  BY <1>1, FiniteTeam, SumZero DEF Requests
<1>4. \A w \in Worker : wcalls[w] = sent[<<"worker", w>>]
  BY <1>1, Agents
<1> QED
  BY <1>1, <1>2, <1>3, <1>4, Steps, ReserveSize DEF SharedBudget, ReserveKept, Most

(* Main, the workers and the reviews together never send more requests than the   *)
(* user has allowed; a cancel inside a request loses the count of one at most     *)
(* (AgentTeam.request, AuditStore.update).                                        *)
THEOREM BudgetIsShared == Spec => []SharedBudget
<1>1. TeamInv => TypeOK
  BY DEF TeamInv
<1>2. TypeOK /\ SharedBudget /\ ReserveKept /\ [Next]_vars => SharedBudget' /\ ReserveKept'
  BY Budgeting
<1> QED
  BY <1>1, <1>2, NothingSpent, Invariance, PTL DEF Spec

(* The workers that were not resumed never get at the reserve, and all of them    *)
(* leave main a call for its report.                                              *)
THEOREM ReserveIsKept == Spec => []ReserveKept
<1>1. TeamInv => TypeOK
  BY DEF TeamInv
<1>2. TypeOK /\ SharedBudget /\ ReserveKept /\ [Next]_vars => SharedBudget' /\ ReserveKept'
  BY Budgeting
<1> QED
  BY <1>1, <1>2, NothingSpent, Invariance, PTL DEF Spec
=============================================================================
