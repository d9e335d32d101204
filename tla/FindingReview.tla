--------------------------- MODULE FindingReview ---------------------------
(***************************************************************************)
(* From a candidate to a finding: the ledger of the main investigation     *)
(* (services/audit_runner.py), the independent review of each candidate    *)
(* (independent_review.py), the report assembled from both                 *)
(* (finding_report.py, report_coverage.py) and the continuation of a       *)
(* stopped task or of a partial report (audit_service.py,                  *)
(* audit_checkpoint.py).                                                   *)
(*                                                                         *)
(* A task runs "alone" (one agent), with a "team", or with a team that     *)
(* keeps a durable ledger of "paths".  In the last two the reviews are run *)
(* by the threads of a pool, which read the ledger's evidence while the    *)
(* main thread merges the evidence of the reviews that have ended.  An id  *)
(* of evidence names what was read and its content; within one source      *)
(* snapshot it never means anything else.                                  *)
(***************************************************************************)
EXTENDS Naturals, FiniteSets, Sequences, SequencesExt

CONSTANTS
  MaxCandidates,  \* bound on investigations
  Needs,          \* what the reviewer's prefetch adds for each candidate
  Routes, Place,  \* of each candidate: HTTP routes, and the sink and file
  MaxRecords,     \* bound on the changes of the ledger in each task
  MaxTasks        \* bound on a task and its continuations

Candidates == 1 .. MaxCandidates
Own(c) == <<"own", c>>           \* the evidence an investigation starts from
Extra == {<<"batch", 0>>, <<"read", 0>>}   \* a row of a batch, a file's chunk

ASSUME ReviewAssumption ==
  /\ MaxCandidates \in Nat /\ MaxRecords \in Nat /\ MaxTasks \in Nat \ {0}
  /\ Needs \in [Candidates -> SUBSET Extra]

VARIABLES
  mode,      \* "alone", "team" or "paths"
  task,      \* the number of the task in its chain of continuations
  status,    \* "running", "stopped", "failed" or "needs_review"
  place,     \* main: "investigate", "save", "validate" or "over"
  ledger,    \* what the task's document holds
  saved,     \* the ledger in its checkpoint
  records,   \* changes made to the ledger in this task
  previous,  \* previous_independent_reviews
  job,       \* of each candidate: how far its review is
  tries,     \* failed attempts of its review
  packet,    \* the evidence its reviewer was given
  result,    \* the review its job has returned
  reviews,   \* independent_reviews
  report     \* the findings and the lists of the coverage

vars == <<mode, task, status, place, ledger, saved, records, previous, job,
          tries, packet, result, reviews, report>>
validation == <<job, tries, packet, result, reviews>>

Outcome == {"supported", "refuted", "inconclusive"}
NoReview == [outcome |-> "none"]
NoReport == [findings |-> <<>>, deferred |-> {}, unresolved |-> {}, rejected |-> {}]
JobState == {"none", "start", "ask", "ended", "done"}

\* What review_packet hashes for a candidate: the investigation with its
\* opinions, its detail, and the evidence of the packet.
Input(l, c, given) ==
  [of |-> c, status |-> l.status[c], opinions |-> l.opinions[c],
   detail |-> l.detail[c], given |-> given]

Review(input, outcome, cites) ==
  [input |-> input, outcome |-> outcome, cites |-> cites, error |-> FALSE,
   reused |-> FALSE]
FailedReview(c) ==
  [outcome |-> "inconclusive", cites |-> {}, error |-> TRUE, reused |-> FALSE]

EmptyLedger ==
  [status   |-> [c \in Candidates |-> "absent"],
   opinions |-> [c \in Candidates |-> 0],
   detail   |-> [c \in Candidates |-> 0],
   refs     |-> [c \in Candidates |-> {Own(c)}],
   evidence |-> {Own(c) : c \in Candidates}]

Evidence == Extra \union {Own(c) : c \in Candidates}

TypeOK ==
  /\ mode \in {"alone", "team", "paths"}
  /\ task \in 1 .. MaxTasks /\ records \in 0 .. MaxRecords
  /\ status \in {"running", "stopped", "failed", "needs_review"}
  /\ place \in {"investigate", "save", "validate", "over"}
  /\ ledger.evidence \subseteq Evidence /\ saved.evidence \subseteq Evidence
  /\ \A c \in Candidates :
       /\ ledger.status[c] \in Outcome \union {"absent", "open"}
       /\ job[c] \in JobState
       /\ tries[c] \in 0 .. 1
       /\ packet[c] \subseteq Evidence
       /\ ledger.refs[c] \subseteq ledger.evidence

NoReviewYet ==
  /\ job = [c \in Candidates |-> "none"]
  /\ tries = [c \in Candidates |-> 0]
  /\ packet = [c \in Candidates |-> {}]
  /\ result = [c \in Candidates |-> NoReview]
  /\ reviews = [c \in Candidates |-> NoReview]

Init ==
  /\ mode \in {"alone", "team", "paths"}
  /\ task = 1 /\ status = "running" /\ place = "investigate"
  /\ ledger = EmptyLedger /\ saved = EmptyLedger
  /\ records = 0 /\ previous = {}
  /\ NoReviewYet
  /\ report = NoReport

-----------------------------------------------------------------------------
(* The investigation: each accepted action changes the ledger, saves it    *)
(* and then saves the checkpoint.                                          *)

Record(new) ==
  /\ place = "investigate" /\ records < MaxRecords
  /\ ledger' = new
  /\ records' = records + 1
  /\ place' = "save"
  /\ UNCHANGED <<mode, task, status, saved, previous, validation, report>>

RecordInvestigation(c) ==
  /\ ledger.status[c] = "absent"
  /\ \A d \in 1 .. (c - 1) : ledger.status[d] # "absent"
  /\ Record([ledger EXCEPT !.status[c] = "open"])

\* apply_review: the opinion of the same model replaces the status and is
\* added to the investigation.
ReviewInvestigation(c) ==
  /\ ledger.status[c] # "absent"
  /\ \E o \in Outcome :
       Record([ledger EXCEPT !.status[c] = o, !.opinions[c] = @ + 1])

\* parse_finding_detail: a detail belongs to an investigation and cites only
\* evidence that was read.
Citable(c) == {Own(c)} \union (Needs[c] \intersect ledger.evidence)

RecordDetail(c) ==
  /\ ledger.status[c] # "absent"
  /\ \E refs \in SUBSET Citable(c) :
       /\ Own(c) \in refs
       /\ Record([ledger EXCEPT !.detail[c] = @ + 1, !.refs[c] = refs])

ReadEvidence(e) ==
  /\ e \notin ledger.evidence
  /\ Record([ledger EXCEPT !.evidence = @ \union {e}])

SaveCheckpoint ==
  /\ place = "save"
  /\ saved' = ledger
  /\ place' = "investigate"
  /\ UNCHANGED <<mode, task, status, ledger, records, previous, validation, report>>

-----------------------------------------------------------------------------
(* The validation *)

\* The report was proposed.  Main goes through the supported candidates in
\* the order of the ledger until the time is up; one without a detail gets a
\* failed review at once.  `validations` starts empty, so that the branch for
\* an existing row is never taken.
SubmitReport ==
  /\ place = "investigate"
  /\ place' = "validate"
  /\ \E last \in 0 .. MaxCandidates :
       LET due == {c \in 1 .. last : ledger.status[c] = "supported"}
       IN /\ job' = [c \in Candidates |->
                       IF c \in due /\ ledger.detail[c] > 0 THEN "start" ELSE "none"]
          /\ reviews' = [c \in Candidates |->
                       IF c \in due /\ ledger.detail[c] = 0 THEN FailedReview(c) ELSE NoReview]
  /\ records' = 0
  /\ UNCHANGED <<mode, task, status, ledger, saved, previous, tries, packet,
                 result, report>>

\* A single agent reviews one candidate after the other.
Turn(c) == mode = "alone" => \A d \in 1 .. (c - 1) : job[d] \in {"none", "done"}

\* (faulty variant) the investigation's own opinions are not in the identity.
SameDetail(r, input) ==
  ~r.error /\ r.input.of = input.of /\ r.input.detail = input.detail

\* Only a finished review of the very same input is taken over.
SameInput(r, input) == ~r.error /\ r.input = input

\* review_evidence_matches: all that the reviewer saw is in the ledger.
EvidenceHolds(r, evidence) == r.input.given \subseteq evidence

\* _prefetch_candidate_dependencies and _context; a query or a read may give
\* nothing.
Prefetched(c) == SUBSET (Needs[c] \ ledger.refs[c])

\* save_validation_tool keeps what read_file gave and not what a batch gave;
\* in a team the evidence stays with the reviewer.
KeptAtOnce(rows) == IF mode = "alone" THEN rows \ {<<"batch", 0>>} ELSE {}

\* review_packet up to its first request.
Gather(c) ==
  /\ job[c] = "start" /\ Turn(c)
  /\ \E rows \in Prefetched(c) :
       LET given == ledger.refs[c] \union rows
           evidence == ledger.evidence \union KeptAtOnce(rows)
           same == {r \in previous : SameInput(r, Input(ledger, c, given))
                                       /\ EvidenceHolds(r, evidence)}
       IN /\ packet' = [packet EXCEPT ![c] = given]
          /\ ledger' = [ledger EXCEPT !.evidence = evidence]
          /\ IF same # {}
             THEN /\ job' = [job EXCEPT ![c] = "ended"]
                  /\ \E r \in same : result' = [result EXCEPT ![c] = [r EXCEPT !.reused = TRUE]]
             ELSE /\ job' = [job EXCEPT ![c] = "ask"]
                  /\ UNCHANGED result
  /\ UNCHANGED <<mode, task, status, place, saved, records, previous, tries,
                 reviews, report>>

End(c, review) ==
  /\ job' = [job EXCEPT ![c] = "ended"]
  /\ result' = [result EXCEPT ![c] = review]
  /\ UNCHANGED tries

\* The rest of review_packet: at most two requests, the second when the first
\* answer was invalid, and of a team's review a second attempt; a budget that
\* is used up ends it at once.
Answer(c) ==
  /\ job[c] = "ask"
  /\ \/ \E o \in Outcome, cites \in (SUBSET packet[c]) \ {{}} :
          End(c, Review(Input(ledger, c, packet[c]), o, cites))
     \/ /\ mode # "alone" /\ tries[c] = 0
        /\ tries' = [tries EXCEPT ![c] = 1]
        /\ job' = [job EXCEPT ![c] = "start"]
        /\ UNCHANGED result
     \/ End(c, FailedReview(c))
  /\ UNCHANGED <<mode, task, status, place, ledger, saved, records, previous,
                 packet, reviews, report>>

\* The locals of a review end with it.
Forget(c) ==
  /\ tries' = [tries EXCEPT ![c] = 0]
  /\ packet' = [packet EXCEPT ![c] = {}]
  /\ result' = [result EXCEPT ![c] = NoReview]

\* (faulty variant) the evidence stays in the reviewer's own buffer.
CollectReviewOnly(c) ==
  /\ job[c] = "ended"
  /\ job' = [job EXCEPT ![c] = "done"]
  /\ reviews' = [reviews EXCEPT ![c] = result[c]]
  /\ Forget(c)
  /\ UNCHANGED <<mode, task, status, place, ledger, saved, records, previous,
                 report>>

\* Main takes over the reviews as they end, a team's with its evidence.
Collect(c) ==
  /\ job[c] = "ended"
  /\ job' = [job EXCEPT ![c] = "done"]
  /\ reviews' = [reviews EXCEPT ![c] = result[c]]
  /\ ledger' = IF mode = "alone" \/ result[c].error THEN ledger
               ELSE [ledger EXCEPT !.evidence = @ \union packet[c]]
  /\ Forget(c)
  /\ UNCHANGED <<mode, task, status, place, saved, records, previous, report>>

-----------------------------------------------------------------------------
(* The report *)

Reviewed == {c \in Candidates : reviews[c].outcome # "none"}
InState(s) == {c \in Candidates : ledger.status[c] = s}
Said(o) == {c \in Reviewed : reviews[c].outcome = o}

\* report_coverage, and the gaps that assemble_findings adds: supported
\* candidates whose review is not one of their current detail.
ReviewCoversDetail(c) ==
  c \in Reviewed /\ ~reviews[c].error /\ reviews[c].input.detail = ledger.detail[c]

Failed == {c \in Reviewed : reviews[c].error}

\* (faulty variant) a review that failed counts as one that could not decide.
CoverageNoErrors(findings) ==
  [findings   |-> findings,
   deferred   |-> InState("open") \union (InState("supported") \ Reviewed),
   unresolved |-> InState("inconclusive") \union Said("inconclusive"),
   rejected   |-> InState("refuted") \union Said("refuted")]

Coverage(findings) ==
  [findings   |-> findings,
   deferred   |-> InState("open") \union (InState("supported") \ Reviewed) \union Failed
                    \union {c \in InState("supported") : ~ReviewCoversDetail(c)},
   unresolved |-> InState("inconclusive") \union (Said("inconclusive") \ Failed),
   rejected   |-> InState("refuted") \union Said("refuted")]

\* _same_finding: by the routes, or without them by sink and file.
SameFinding(f, g) ==
  IF f.routes # {} /\ g.routes # {} THEN f.routes \intersect g.routes # {}
                                    ELSE f.place # "" /\ f.place = g.place

\* _deduplicate_findings: into the first of the findings that is the same.
Merge(findings, f) ==
  LET same == {i \in DOMAIN findings : SameFinding(findings[i], f)}
  IN IF same = {} THEN Append(findings, f)
     ELSE LET i == CHOOSE i \in same : \A k \in same : i <= k
          IN [findings EXCEPT ![i].candidates = @ \union f.candidates,
                              ![i].routes = @ \union f.routes]

Finding(c) == [candidates |-> {c}, routes |-> Routes[c], place |-> Place[c]]

Promoted ==
  {c \in Candidates : /\ ledger.status[c] = "supported"
                      /\ ReviewCoversDetail(c) /\ reviews[c].outcome = "supported"}

\* The loop over the investigations, in the order of the ledger.
AddFinding(findings, c) ==
  IF c \in Promoted THEN Merge(findings, Finding(c)) ELSE findings

Findings == FoldLeft(AddFinding, <<>>, [c \in Candidates |-> c])

\* Main has collected every review.
ReviewsAreIn ==
  place = "validate" /\ \A c \in Candidates : job[c] \in {"none", "done"}

\* assemble_findings; it looks up all that a promoted candidate and its review
\* cite, and a missing row ends the task in the handler for all exceptions.
AssembleReport ==
  /\ ReviewsAreIn
  /\ place' = "over"
  /\ IF \A c \in Promoted : reviews[c].cites \subseteq ledger.evidence
     THEN /\ status' = "needs_review"
          /\ report' = Coverage(Findings)
     ELSE /\ status' = "failed"
          /\ UNCHANGED report
  /\ UNCHANGED <<mode, task, ledger, saved, records, previous, validation>>

-----------------------------------------------------------------------------
\* The task ends without a report.
GiveUp(outcome) ==
  /\ status' = outcome /\ place' = "over"
  /\ records' = 0
  /\ job' = [c \in Candidates |-> "none"]
  /\ tries' = [c \in Candidates |-> 0]
  /\ packet' = [c \in Candidates |-> {}]
  /\ result' = [c \in Candidates |-> NoReview]
  /\ UNCHANGED <<mode, task, saved, previous, reviews, report>>

\* A cancellation, a restart or a used-up budget.
Stop == place # "over" /\ GiveUp("stopped") /\ UNCHANGED ledger

\* The model or the evidence of the investigation does not answer.
InvestigationFails ==
  place = "investigate" /\ GiveUp("failed") /\ UNCHANGED ledger

\* The evidence service fails in the prefetch of a review, after some rows: no
\* handler of the review catches that, a team's reaches main by its future.
PrefetchFails(c) ==
  /\ job[c] = "start" /\ Turn(c)
  /\ \E rows \in Prefetched(c) :
       ledger' = [ledger EXCEPT !.evidence = @ \union KeptAtOnce(rows)]
  /\ GiveUp("failed")

\* resume: a stopped task, or a report with something left to do (files,
\* packets and baseline questions count too).  The new task starts from the
\* checkpoint, or from the ledger of paths, with the reviews of its parent.
Resume ==
  /\ place = "over" /\ task < MaxTasks
  /\ task' = task + 1 /\ status' = "running" /\ place' = "investigate"
  /\ ledger' = IF mode = "paths" THEN ledger ELSE saved
  /\ saved' = ledger'
  /\ previous' = {reviews[c] : c \in Reviewed}
  /\ job' = [c \in Candidates |-> "none"]
  /\ reviews' = [c \in Candidates |-> NoReview]
  /\ report' = NoReport
  /\ UNCHANGED <<mode, records, tries, packet, result>>

Investigate ==
  \/ \E c \in Candidates :
       RecordInvestigation(c) \/ ReviewInvestigation(c) \/ RecordDetail(c)
  \/ \E e \in Extra : ReadEvidence(e)
  \/ SaveCheckpoint

Validate ==
  \/ SubmitReport
  \/ \E c \in Candidates : Gather(c) \/ PrefetchFails(c) \/ Answer(c) \/ Collect(c)
  \/ AssembleReport

Next == Investigate \/ InvestigationFails \/ Validate \/ Stop \/ Resume

Spec == Init /\ [][Next]_vars

-----------------------------------------------------------------------------
(* Properties *)

\* finding_report.py: only candidates are promoted that main still holds for
\* supported and of which an independent reviewer, now or in an earlier task,
\* has supported exactly the current detail and investigation; a review that
\* was taken over rests on evidence that this task's ledger has too.
FindingsAreReviewed ==
  \A i \in DOMAIN report.findings : \A c \in report.findings[i].candidates :
    LET r == reviews[c]
    IN /\ ledger.status[c] = "supported"
       /\ r.outcome = "supported" /\ ~r.error
       /\ r.input = Input(ledger, c, r.input.given)
       /\ r.reused => r.input.given \subseteq ledger.evidence

\* No candidate gets lost between the ledger and the report: each is in one
\* finding, or rejected, unresolved or deferred; and when nothing is deferred
\* every supported candidate had a review that was not cut short.
NoCandidateLost ==
  status = "needs_review" =>
    LET found == UNION {report.findings[i].candidates : i \in DOMAIN report.findings}
        listed == report.rejected \union report.unresolved \union report.deferred
    IN /\ found \intersect listed = {}
       /\ found \union listed = Candidates \ InState("absent")
       /\ \A i, k \in DOMAIN report.findings :
            i # k => report.findings[i].candidates \intersect report.findings[k].candidates = {}
       /\ report.deferred = {} =>
            \A c \in InState("supported") : ReviewCoversDetail(c)

\* In a team, the evidence that a collected review cites is in the ledger,
\* whichever of the concurrent reviews ended first and whatever they read.
CitedEvidenceKept ==
  mode # "alone" =>
    \A c \in Candidates : job[c] = "done" => reviews[c].cites \subseteq ledger.evidence

\* audit_runner.py:384: a review "must not silently erase an otherwise
\* validated candidate": once all reviews are in, the task does not fail.
ReviewKeepsReport == [][ReviewsAreIn => status' # "failed"]_vars

\* A team keeps that promise: whatever its concurrent reviews read and cite,
\* the assembly finds every row of a promoted candidate and of its review; it
\* may fail as long as reviews are under way.
TeamReportAssembles == [][mode # "alone" /\ ReviewsAreIn => status' # "failed"]_vars
=============================================================================
