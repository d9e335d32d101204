----------------------------- MODULE AgentTeam -----------------------------
(***************************************************************************)
(* One collaborative audit: services/agent_team.py, agent_worker.py and    *)
(* the team's side of services/audit_runner.py.                            *)
(*                                                                         *)
(* The main investigator, the workers and the independent reviews run in   *)
(* threads of their own and share a budget of model calls, taken under     *)
(* team.lock.  Workers leave progress and results in their rows; main      *)
(* takes them over one at a time and may not submit its report before it   *)
(* has them all.  The model is that of a new task without the path         *)
(* pipeline.                                                               *)
(***************************************************************************)
EXTENDS Naturals, FiniteSets, Functions, FiniteSetsExt

CONSTANTS MaxWorkers,    \* subtasks ever submitted (64 or 16 in the code)
          StartWorkers,  \* submitted by AgentTeam.start: a baseline if wanted, first,
                         \* and the architecture analysis
          Candidates,    \* supported candidates that get an independent review
          Threads,       \* parallel_agents - 1
          MaxSteps,      \* the budget of model calls
          MaxErrors,     \* format errors in a row that end a worker
          MaxProgress    \* bound: progress results of one worker

ASSUME MaxWorkersAssumption == MaxWorkers \in Nat
ASSUME StartAssumption == StartWorkers \in 1..MaxWorkers
ASSUME BudgetAssumption == MaxSteps \in Nat \ {0}
ASSUME OptionsAssumption ==
  /\ Threads \in Nat \ {0} /\ MaxErrors \in Nat \ {0} /\ MaxProgress \in Nat
ASSUME CandidatesAssumption == IsFiniteSet(Candidates)

Worker == 1..MaxWorkers   \* a worker is its place in agent_tasks
Main == <<"main", 0>>
Agent == {Main} \union {<<"review", c>> : c \in Candidates}
           \union {<<"worker", w>> : w \in Worker}

VARIABLES
  calls,            \* model_calls
  sent,             \* requests each agent has really sent to the model
  retried,          \* request_retries
  wstat, wreason,   \* status and stop_reason of a worker's row
  wcalls, werrs,    \* its own count of calls; format errors in a row
  wresume,          \* validation_resume
  wprog,            \* number of its progress_results
  wpc,              \* its future and thread
  dprog, dfinal,    \* team_deliveries: progress, and the status delivered
  mpc, turn, bad,   \* main: place, loop index, consecutive_corrections
  outcome,          \* status of the task
  rpc, rtry,        \* a review: future and thread, attempt
  cancelled,        \* the task reads as cancelled: nothing more is saved
  late, stop        \* max_seconds have passed; team.stop

budget == <<calls, sent, retried>>
rows   == <<wstat, wreason, wcalls, werrs, wresume, wprog, wpc>>
mainv  == <<mpc, turn, bad, outcome>>
handed == <<dprog, dfinal>>
review == <<rpc, rtry>>
clock  == <<cancelled, late>>
vars   == <<budget, rows, handed, mainv, review, clock, stop>>

Ended  == {"completed", "failed", "stopped"}
Reason == {"none", "reserved_for_main", "worker_step_limit",
           "model_output_truncated", "other"}
Waits  == {"waitTool", "waitReport"}

\* Every variable keeps its type, and a worker's row and thread fit together.
TypeOK ==
  /\ calls \in 0..MaxSteps
  /\ sent \in [Agent -> Nat]
  /\ retried \in [Agent -> 0..1]
  /\ wstat \in [Worker -> Ended \union {"none", "queued", "running"}]
  /\ wreason \in [Worker -> Reason]
  /\ wcalls \in [Worker -> Nat]
  /\ werrs \in [Worker -> 0..MaxErrors]
  /\ wresume \in [Worker -> BOOLEAN]
  /\ wprog \in [Worker -> 0..MaxProgress]
  /\ wpc \in [Worker -> {"off", "waiting", "loop", "asked", "lost", "leaving"}]
  /\ dprog \in [Worker -> 0..MaxProgress]
  /\ dfinal \in [Worker -> Ended \union {"no"}]
  /\ mpc \in {"step", "ask", "again", "asked", "lost", "report", "validate",
              "close", "shutdown", "end"} \union Waits
  /\ turn \in 0..MaxSteps
  /\ bad \in 0..3
  /\ outcome \in {"running", "needs_review", "budget_exhausted", "failed", "cancelled"}
  /\ rpc \in [Candidates -> {"off", "waiting", "ask", "asked", "lost", "done"}]
  /\ rtry \in [Candidates -> 1..2]
  /\ cancelled \in BOOLEAN /\ late \in BOOLEAN /\ stop \in BOOLEAN

Init ==
  /\ calls = 0
  /\ sent = [a \in Agent |-> 0]
  /\ retried = [a \in Agent |-> 0]
  /\ wstat = [w \in Worker |-> IF w <= StartWorkers THEN "queued" ELSE "none"]
  /\ wreason = [w \in Worker |-> "none"]
  /\ wcalls = [w \in Worker |-> 0]
  /\ werrs = [w \in Worker |-> 0]
  /\ wresume = [w \in Worker |-> FALSE]
  /\ wprog = [w \in Worker |-> 0]
  /\ wpc = [w \in Worker |-> IF w <= StartWorkers THEN "waiting" ELSE "off"]
  /\ dprog = [w \in Worker |-> 0]
  /\ dfinal = [w \in Worker |-> "no"]
  /\ mpc = "step" /\ turn = 0 /\ bad = 0
  /\ outcome = "running"
  /\ rpc = [c \in Candidates |-> "off"]
  /\ rtry = [c \in Candidates |-> 1]
  /\ cancelled = FALSE /\ late = FALSE /\ stop = FALSE

-----------------------------------------------------------------------------
(* The budget: AgentTeam.request under team.lock *)

Least(a, b) == IF a <= b THEN a ELSE b
Most(a, b)  == IF a >= b THEN a ELSE b

Reserve == Least(8, Most(2, MaxSteps \div 4))
WorkerCallLimit == Most(3, Least(5, MaxSteps \div 5))   \* nothing was seeded

Over == cancelled \/ late
Stopping == Over \/ stop   \* check_running raises TeamStopped

Take(agent) ==
  /\ calls' = calls + 1
  /\ sent' = [sent EXCEPT ![agent] = @ + 1]

\* (faulty variant) a worker's call counts for the worker only.
TakeWorkerUncounted(w) ==
  /\ sent' = [sent EXCEPT ![<<"worker", w>>] = @ + 1]
  /\ wcalls' = [wcalls EXCEPT ![w] = @ + 1]
  /\ UNCHANGED calls

\* A worker's call is saved twice: in its row, then in the shared counter.
TakeWorker(w) ==
  /\ Take(<<"worker", w>>)
  /\ wcalls' = [wcalls EXCEPT ![w] = @ + 1]

\* A cancel takes no team.lock: it may come after check_running, and what is
\* saved after it is dropped (AuditStore.update), yet the request is sent.
\* All of it is one step, since team.lock keeps the other requests out.
CancelInside(agent) ==
  /\ outcome = "running"
  /\ cancelled' = TRUE
  /\ sent' = [sent EXCEPT ![agent] = @ + 1]
  /\ UNCHANGED <<calls, late>>

\* (faulty variant) a worker keeps its own limit only.
RefusalWithoutReserve(w) ==
  CASE Stopping \/ calls >= MaxSteps -> "other"
    [] ~Stopping /\ calls < MaxSteps /\ wcalls[w] >= WorkerCallLimit -> "worker_step_limit"
    [] OTHER -> "none"

\* Why a worker's request is refused; "none" when it is admitted.
Refusal(w) ==
  CASE Stopping \/ calls >= MaxSteps -> "other"
    [] ~Stopping /\ calls < MaxSteps /\ wresume[w] ->
         IF calls + 1 >= MaxSteps THEN "reserved_for_main" ELSE "none"
    [] OTHER ->
         IF calls + Reserve >= MaxSteps THEN "reserved_for_main"
         ELSE IF wcalls[w] >= WorkerCallLimit THEN "worker_step_limit" ELSE "none"

\* A model request that failed is repeated once, as a call of its own.
MayRetry(agent) == retried[agent] = 0
Retry(agent) == retried' = [retried EXCEPT ![agent] = 1]
ForgetRetry(agent) == retried' = [retried EXCEPT ![agent] = 0]

Busy == Cardinality({w \in Worker : wpc[w] \in {"loop", "asked", "lost", "leaving"}})
          + Cardinality({c \in Candidates : rpc[c] \in {"ask", "asked", "lost"}})

\* pending: the futures of workers, not those of reviews
Pending == \E w \in Worker : wpc[w] # "off"

-----------------------------------------------------------------------------
(* A worker's thread: run_worker *)

Turn(w, place) == wpc' = [wpc EXCEPT ![w] = place]

\* update_worker: AuditStore.update leaves a cancelled task as it is.
Save(w, status, reason) ==
  IF cancelled THEN UNCHANGED <<wstat, wreason>>
  ELSE /\ wstat' = [wstat EXCEPT ![w] = status]
       /\ wreason' = [wreason EXCEPT ![w] = reason]

Close(w, status, reason) == Save(w, status, reason) /\ Turn(w, "leaving")

WorkerStart(w) ==
  /\ wpc[w] = "waiting" /\ Busy < Threads
  /\ Save(w, "running", wreason[w])
  /\ Turn(w, "loop")
  /\ UNCHANGED <<budget, wcalls, werrs, wresume, wprog, handed, mainv, review, clock, stop>>

WorkerAsk(w) ==
  /\ wpc[w] = "loop"
  /\ \/ /\ Refusal(w) = "none" /\ TakeWorker(w)
        /\ Turn(w, "asked") /\ UNCHANGED <<wstat, wreason, clock>>
     \/ /\ Refusal(w) = "none" /\ CancelInside(<<"worker", w>>)
        /\ wcalls' \in {wcalls, [wcalls EXCEPT ![w] = @ + 1]}
        /\ Turn(w, "lost") /\ UNCHANGED <<wstat, wreason>>
     \/ /\ Refusal(w) # "none" /\ Close(w, "stopped", Refusal(w))
        /\ UNCHANGED <<calls, sent, wcalls, clock>>
  /\ UNCHANGED <<retried, werrs, wresume, wprog, handed, mainv, review, stop>>

\* The model answered, and the answer is a read tool or progress to save ...
WorkerContinues(w) ==
  /\ wpc[w] = "asked"
  /\ ForgetRetry(<<"worker", w>>)
  /\ IF Stopping THEN Close(w, "stopped", "other") /\ UNCHANGED <<werrs, wprog>>
     ELSE /\ werrs' = [werrs EXCEPT ![w] = 0]
          /\ wprog' \in {wprog, [wprog EXCEPT ![w] = Least(@ + 1, MaxProgress)]}
          /\ Turn(w, "loop")
          /\ UNCHANGED <<wstat, wreason>>
  /\ UNCHANGED <<calls, sent, wcalls, wresume, handed, mainv, review, clock, stop>>

\* ... or the final result ...
WorkerCompletes(w) ==
  /\ wpc[w] = "asked" /\ ~Stopping
  /\ ForgetRetry(<<"worker", w>>)
  /\ Close(w, "completed", wreason[w])
  /\ UNCHANGED <<calls, sent, wcalls, werrs, wresume, wprog, handed, mainv, review, clock, stop>>

\* ... or not what was asked for ...
WorkerErrs(w) ==
  /\ wpc[w] = "asked"
  /\ retried' \in {retried, [retried EXCEPT ![<<"worker", w>>] = 0]}
  /\ werrs' = [werrs EXCEPT ![w] = @ + 1]
  /\ IF werrs[w] + 1 >= MaxErrors
     THEN \E reason \in {"model_output_truncated", "other"} : Close(w, "failed", reason)
     ELSE Turn(w, "loop") /\ UNCHANGED <<wstat, wreason>>
  /\ UNCHANGED <<calls, sent, wcalls, wresume, wprog, handed, mainv, review, clock, stop>>

\* ... or the request failed.
WorkerRequestFails(w) ==
  /\ wpc[w] = "asked"
  /\ IF MayRetry(<<"worker", w>>)
     THEN Retry(<<"worker", w>>) /\ Turn(w, "loop") /\ UNCHANGED <<wstat, wreason>>
     ELSE ForgetRetry(<<"worker", w>>) /\ Close(w, "failed", "other")
  /\ UNCHANGED <<calls, sent, wcalls, werrs, wresume, wprog, handed, mainv, review, clock, stop>>

\* No model could be opened, a tool could not reach its evidence, or the
\* record of the request is not there when its answer is to be noted.
WorkerFails(w) ==
  /\ wpc[w] \in {"loop", "asked", "lost"}
  /\ retried' \in {retried, [retried EXCEPT ![<<"worker", w>>] = 0]}
  /\ Close(w, "failed", "other")
  /\ UNCHANGED <<calls, sent, wcalls, werrs, wresume, wprog, handed, mainv, review, clock, stop>>

WorkerDone(w) ==
  /\ wpc[w] = "leaving"
  /\ Turn(w, "off")
  /\ werrs' = [werrs EXCEPT ![w] = 0]
  /\ UNCHANGED <<budget, wstat, wreason, wcalls, wresume, wprog, handed, mainv>>
  /\ UNCHANGED <<review, clock, stop>>

-----------------------------------------------------------------------------
(* Deliveries *)

Undelivered == \E w \in Worker : wstat[w] # "none" /\ dfinal[w] = "no"

HasItem(w) == dprog[w] < wprog[w] \/ (wstat[w] \in Ended /\ dfinal[w] = "no")

\* deliver: one item, progress before the result, in the order of the rows.
Deliver ==
  IF ~cancelled /\ \E w \in Worker : HasItem(w)
  THEN \E w \in Worker :
         /\ HasItem(w) /\ \A v \in 1..(w - 1) : ~HasItem(v)
         /\ IF dprog[w] < wprog[w]
            THEN dprog' = [dprog EXCEPT ![w] = @ + 1] /\ UNCHANGED dfinal
            ELSE dfinal' = [dfinal EXCEPT ![w] = wstat[w]] /\ UNCHANGED dprog
  ELSE UNCHANGED handed

-----------------------------------------------------------------------------
(* The main investigator: _run_task *)

Goto(place) == mpc' = place

Conclude(status) ==
  /\ outcome' = IF cancelled THEN "cancelled" ELSE status
  /\ Goto("close")

MainTurn ==
  /\ mpc = "step"
  /\ IF Over \/ turn = MaxSteps
     THEN Conclude("budget_exhausted") /\ UNCHANGED <<turn, handed>>
     ELSE Goto("ask") /\ turn' = turn + 1 /\ Deliver /\ UNCHANGED outcome
  /\ UNCHANGED <<budget, rows, bad, review, clock, stop>>

\* The context is full, or something _run_task does not expect was raised.
MainGivesUp ==
  /\ mpc \in {"step", "asked", "report", "validate"}
  /\ \E status \in {"budget_exhausted", "failed"} : Conclude(status)
  /\ UNCHANGED <<budget, rows, handed, turn, bad, review, clock, stop>>

\* With few calls left, and all candidates detailed, the report is written
\* without asking the model.
MayFinalize == ~Pending /\ ~Undelivered /\ MaxSteps - calls <= 3

MainAsk ==
  /\ mpc \in {"ask", "again"}
  /\ \/ /\ mpc = "ask" /\ MayFinalize
        /\ Goto("report") /\ UNCHANGED <<calls, sent, outcome, clock>>
     \/ /\ Over \/ calls >= MaxSteps
        /\ Conclude("budget_exhausted") /\ UNCHANGED <<calls, sent, clock>>
     \/ /\ ~Over /\ calls < MaxSteps
        /\ \/ Take(Main) /\ Goto("asked") /\ UNCHANGED clock
           \/ CancelInside(Main) /\ Goto("lost")
        /\ UNCHANGED outcome
  /\ UNCHANGED <<retried, rows, handed, turn, bad, review, stop>>

\* The record of main's request is not there when its answer is to be noted.
MainLost ==
  /\ mpc = "lost"
  /\ Conclude("failed")
  /\ UNCHANGED <<budget, rows, handed, turn, bad, review, clock, stop>>

\* The model chose a tool: a new worker, waiting for one, or the main's own.
MainTool ==
  /\ mpc = "asked"
  /\ ForgetRetry(Main)
  /\ bad' = 0
  /\ \/ /\ ~Over
        /\ \E w \in Worker :
             /\ wstat[w] = "none" /\ \A v \in 1..(w - 1) : wstat[v] # "none"
             /\ wstat' = [wstat EXCEPT ![w] = "queued"]
             /\ Turn(w, "waiting")
        /\ Goto("step")
     \/ mpc' \in {"waitTool", "step"} /\ UNCHANGED <<wstat, wpc>>
  /\ UNCHANGED <<calls, sent, wreason, wcalls, werrs, wresume, wprog, handed>>
  /\ UNCHANGED <<turn, outcome, review, clock, stop>>

MainProposes ==
  /\ mpc = "asked"
  /\ ForgetRetry(Main)
  /\ bad' = 0
  /\ Goto("report")
  /\ UNCHANGED <<calls, sent, rows, handed, turn, outcome, review, clock, stop>>

MainErrs ==
  /\ mpc = "asked"
  /\ retried' \in {retried, [retried EXCEPT ![Main] = 0]}
  /\ bad' = bad + 1
  /\ IF bad + 1 > 2 THEN Conclude("failed") ELSE Goto("step") /\ UNCHANGED outcome
  /\ UNCHANGED <<calls, sent, rows, handed, turn, review, clock, stop>>

MainRequestFails ==
  /\ mpc = "asked"
  /\ IF MayRetry(Main) THEN Retry(Main) /\ Goto("again") /\ UNCHANGED outcome
                       ELSE ForgetRetry(Main) /\ Conclude("failed")
  /\ UNCHANGED <<calls, sent, rows, handed, turn, bad, review, clock, stop>>

\* (faulty variant) a worker that was resumed before is resumed again.
ResumableAgain(w) ==
  \/ wstat[w] = "stopped" /\ wreason[w] \in {"reserved_for_main", "worker_step_limit"}
  \/ wstat[w] = "failed" /\ wreason[w] = "model_output_truncated"

\* resume_for_validation: a worker that was stopped for lack of budget gets one
\* more chance.
Resumable(w) ==
  /\ \/ wstat[w] = "stopped" /\ wreason[w] \in {"reserved_for_main", "worker_step_limit"}
     \/ wstat[w] = "failed" /\ wreason[w] = "model_output_truncated"
  /\ ~wresume[w]

CanResume == MaxSteps - calls >= 2 /\ \E w \in Worker : Resumable(w)

\* The baseline, preferred by the code, is the first row of a new task.
FirstResumable(w) == Resumable(w) /\ \A v \in 1..(w - 1) : ~Resumable(v)

Resume(w) ==
  /\ wstat' = [wstat EXCEPT ![w] = "queued"]
  /\ wreason' = [wreason EXCEPT ![w] = "none"]
  /\ wresume' = [wresume EXCEPT ![w] = TRUE]
  /\ Turn(w, "waiting")

\* (faulty variant) results that wait for main are overlooked.
MustWaitForThreads == Pending

MustWait == Pending \/ Undelivered

\* A report has to wait for running workers and undelivered results; then the
\* reviews are submitted, as long as there is time.
MainReport ==
  /\ mpc = "report"
  /\ \/ /\ cancelled
        /\ Conclude("cancelled") /\ UNCHANGED <<rows, rpc>>
     \/ /\ ~cancelled /\ MustWait
        /\ Goto("waitReport") /\ UNCHANGED <<rows, rpc, outcome>>
     \/ /\ ~cancelled /\ ~MustWait /\ CanResume
        /\ \E w \in Worker : FirstResumable(w) /\ Resume(w)
        /\ Goto("waitReport") /\ UNCHANGED <<wcalls, werrs, wprog, rpc, outcome>>
     \/ /\ ~cancelled /\ ~MustWait /\ ~CanResume
        /\ rpc' \in [Candidates -> IF late THEN {"waiting", "done"} ELSE {"waiting"}]
        /\ Goto("validate") /\ UNCHANGED <<rows, outcome>>
  /\ UNCHANGED <<budget, handed, turn, bad, rtry, clock, stop>>

\* (faulty variant) the wait is for an item, even when nobody is left to bring one.
MainWaitForItem ==
  /\ mpc \in Waits
  /\ \E w \in Worker : HasItem(w)
  /\ Goto("step")
  /\ IF mpc = "waitReport" THEN Deliver ELSE UNCHANGED handed
  /\ UNCHANGED <<budget, rows, turn, bad, outcome, review, clock, stop>>

\* wait_for_result looks for an item while something is pending.
MainWait ==
  /\ mpc \in Waits
  /\ IF Pending /\ Over
     THEN Conclude("budget_exhausted") /\ UNCHANGED handed
     ELSE /\ ~Pending \/ \E w \in Worker : HasItem(w)
          /\ Goto("step")
          /\ IF mpc = "waitReport" THEN Deliver ELSE UNCHANGED handed
          /\ UNCHANGED outcome
  /\ UNCHANGED <<budget, rows, turn, bad, review, clock, stop>>

MainValidated ==
  /\ mpc = "validate"
  /\ \/ \A c \in Candidates : rpc[c] = "done"
     \/ cancelled /\ \E c \in Candidates : rpc[c] = "done"
  /\ Conclude("needs_review")
  /\ UNCHANGED <<budget, rows, handed, turn, bad, review, clock, stop>>

\* AgentTeam.close: waiting futures are cancelled, running threads awaited.
CloseTeam ==
  /\ mpc = "close"
  /\ stop' = TRUE
  /\ wpc' = [w \in Worker |-> IF wpc[w] = "waiting" THEN "off" ELSE wpc[w]]
  /\ rpc' = [c \in Candidates |-> IF rpc[c] = "waiting" THEN "done" ELSE rpc[c]]
  /\ Goto("shutdown")
  /\ turn' = 0 /\ bad' = 0   \* locals of the _run_task that has returned
  /\ ForgetRetry(Main)
  /\ UNCHANGED <<calls, sent, wstat, wreason, wcalls, werrs, wresume, wprog, handed>>
  /\ UNCHANGED <<outcome, rtry, clock>>

\* (faulty variant) the pool is shut down without waiting for its threads.
ShutdownAtOnce ==
  /\ mpc = "shutdown"
  /\ Goto("end")
  /\ UNCHANGED <<budget, rows, handed, turn, bad, outcome, review, clock, stop>>

Shutdown ==
  /\ mpc = "shutdown"
  /\ Busy = 0
  /\ LET left == {w \in Worker : ~cancelled /\ wstat[w] \in {"queued", "running"}}
     IN /\ wstat' = [w \in Worker |-> IF w \in left THEN "stopped" ELSE wstat[w]]
        /\ wreason' = [w \in Worker |-> IF w \in left THEN "other" ELSE wreason[w]]
  /\ Goto("end")
  /\ UNCHANGED <<budget, wcalls, werrs, wresume, wprog, wpc, handed, turn, bad, outcome>>
  /\ UNCHANGED <<review, clock, stop>>

-----------------------------------------------------------------------------
(* An independent review: run_team_review, two attempts *)

ReviewTo(c, place) == rpc' = [rpc EXCEPT ![c] = place]

ReviewStart(c) ==
  /\ rpc[c] = "waiting" /\ Busy < Threads
  /\ ReviewTo(c, "ask")
  /\ UNCHANGED <<budget, rows, handed, mainv, rtry, clock, stop>>

ReviewAsk(c) ==
  /\ rpc[c] = "ask"
  /\ \/ /\ Stopping \/ calls >= MaxSteps
        /\ ReviewTo(c, "done") /\ UNCHANGED <<calls, sent, clock>>
     \/ /\ ~Stopping /\ calls < MaxSteps
        /\ \/ Take(<<"review", c>>) /\ ReviewTo(c, "asked") /\ UNCHANGED clock
           \/ CancelInside(<<"review", c>>) /\ ReviewTo(c, "lost")
  /\ UNCHANGED <<retried, rows, handed, mainv, rtry, stop>>

ReviewAnswer(c) ==
  /\ rpc[c] = "asked"
  /\ ForgetRetry(<<"review", c>>)
  /\ \/ ReviewTo(c, "done") /\ UNCHANGED rtry
     \/ ReviewTo(c, "ask") /\ UNCHANGED rtry    \* it reads more evidence
     \/ IF rtry[c] = 1 THEN ReviewTo(c, "ask") /\ rtry' = [rtry EXCEPT ![c] = 2]
                       ELSE ReviewTo(c, "done") /\ UNCHANGED rtry
  /\ UNCHANGED <<calls, sent, rows, handed, mainv, clock, stop>>

ReviewRequestFails(c) ==
  /\ rpc[c] = "asked" /\ MayRetry(<<"review", c>>)
  /\ Retry(<<"review", c>>)
  /\ ReviewTo(c, "ask")
  /\ UNCHANGED <<calls, sent, rows, handed, mainv, rtry, clock, stop>>

\* The record of its request is not there when its answer is to be noted.
ReviewLost(c) ==
  /\ rpc[c] = "lost"
  /\ ReviewTo(c, "done")
  /\ UNCHANGED <<budget, rows, handed, mainv, rtry, clock, stop>>

-----------------------------------------------------------------------------
\* A user cancels the task, or max_seconds have passed.
CancelTask == ~cancelled /\ outcome = "running" /\ cancelled' = TRUE /\ UNCHANGED late
TimeIsUp   == ~late /\ mpc # "end" /\ late' = TRUE /\ UNCHANGED cancelled

Outside ==
  /\ CancelTask \/ TimeIsUp
  /\ UNCHANGED <<budget, rows, handed, mainv, review, stop>>

MainStep ==
  \/ MainTurn \/ MainAsk \/ MainLost \/ MainTool \/ MainProposes \/ MainErrs
  \/ MainRequestFails \/ MainReport \/ MainWait \/ MainValidated
  \/ CloseTeam \/ Shutdown

WorkerStep(w) ==
  \/ WorkerStart(w) \/ WorkerAsk(w) \/ WorkerContinues(w) \/ WorkerCompletes(w)
  \/ WorkerErrs(w) \/ WorkerRequestFails(w) \/ WorkerFails(w)
  \/ WorkerDone(w)

ReviewStep(c) ==
  \/ ReviewStart(c) \/ ReviewAsk(c) \/ ReviewAnswer(c) \/ ReviewRequestFails(c)
  \/ ReviewLost(c)

Next ==
  \/ MainStep \/ MainGivesUp \/ Outside
  \/ \E w \in Worker : WorkerStep(w)
  \/ \E c \in Candidates : ReviewStep(c)

Spec == Init /\ [][Next]_vars

\* Threads run, and a model request returns or fails (its client has a timeout).
Fairness ==
  /\ WF_vars(MainStep)
  /\ \A w \in Worker : WF_vars(WorkerStep(w))
  /\ \A c \in Candidates : WF_vars(ReviewStep(c))

FairSpec == Spec /\ Fairness

-----------------------------------------------------------------------------
(* Properties *)

\* The budget is shared and holds whatever is cancelled: main, the workers and
\* the reviews together never send more requests than the user has allowed.
\* As long as the task is not cancelled the shared counter is the number of
\* requests sent and each worker's counter that of its own; a cancel in the
\* middle of a request loses the record of that one, and of no other.
Requests(agents) == SumFunctionOnSet(sent, agents)
SharedBudget ==
  /\ Requests(Agent) <= MaxSteps
  /\ Requests(Agent) \in calls..(calls + 1)
  /\ ~cancelled => /\ calls = Requests(Agent)
                   /\ \A w \in Worker : wcalls[w] = sent[<<"worker", w>>]

\* The reserve is for main, the reviews and the workers resumed on main's
\* behalf: the workers together never get at it, and a resumed one leaves main
\* the last call for its report.
AgentsOf(ws) == {<<"worker", w>> : w \in ws}
ReserveKept ==
  /\ Requests(AgentsOf({w \in Worker : ~wresume[w]})) <= Most(0, MaxSteps - Reserve)
  /\ Requests(AgentsOf(Worker)) < MaxSteps

\* The report goes to validation only when no worker is left running and main
\* has got all that the workers which were never resumed have produced.
ReportAfterDelivery ==
  mpc = "validate" =>
    /\ ~Pending
    /\ \A w \in Worker : wstat[w] # "none" =>
         wstat[w] \in Ended /\ dfinal[w] # "no"
           /\ (~wresume[w] => dfinal[w] = wstat[w] /\ dprog[w] = wprog[w])

\* A worker that has ended starts again at most once, and not behind the back
\* of a report under validation.
ResumedAtMostOnce ==
  [][\A w \in Worker : wstat[w] \in Ended /\ wstat'[w] \notin Ended =>
       ~wresume[w] /\ mpc # "validate"]_vars

\* When the audit is over nothing of it is still running or looks as if it were.
NothingLeftRunning ==
  mpc = "end" =>
    /\ Busy = 0
    /\ \A w \in Worker : wpc[w] = "off" /\ (~cancelled => wstat[w] \notin {"queued", "running"})

\* Every audit ends: no wait of main's is for ever.
AuditEnds == <>(mpc = "end")

\* agent_team.py, deliver: deliveries are "neither missed nor injected twice":
\* main has the result of every completed worker when its report is validated.
ResultsReachMain ==
  mpc = "validate" =>
    \A w \in Worker : wstat[w] = "completed" => dfinal[w] = "completed"
=============================================================================
