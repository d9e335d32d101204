---------------------------- MODULE PathPackets ----------------------------
(***************************************************************************)
(* The path pipeline of a collaborative audit:                             *)
(* services/path_validation_pipeline.py and the methods of AgentTeam that  *)
(* feed it.                                                                *)
(*                                                                         *)
(* Workers report path sketches, with their progress or with their result. *)
(* Each report rebuilds the list of validation packets from the sketches   *)
(* that are still queued; a packet is known by the paths it holds.  Packets*)
(* are validated by runs in the threads of the team, and main waits for    *)
(* all of it.  The paths are those of one surface and candidate_type:      *)
(* others have packets of their own.  Cancellation and the time limit are  *)
(* AgentTeam's subject.                                                    *)
(***************************************************************************)
EXTENDS Naturals, FiniteSets

CONSTANTS Workers,      \* the workers of the team
          ScopeWorkers, \* those that a parent without the pipeline split by scope
          MaxPaths,     \* bound: path sketches ever reported
          BatchSize,    \* paths in a packet: max_paths, 6 in the code
          Threads,      \* parallel_agents - 1
          MaxRuns,      \* bound: runs of packets at a time
          MaxResumes    \* bound: continuations of the audit

ASSUME ActorAssumption == "main" \notin Workers
ASSUME ScopeAssumption == ScopeWorkers \subseteq Workers
ASSUME BatchAssumption == BatchSize \in Nat \ {0}
ASSUME BoundAssumption ==
  MaxPaths \in Nat /\ MaxRuns \in Nat /\ MaxResumes \in Nat /\ Threads \in Nat \ {0}

Path   == 1..MaxPaths    \* a path is its place in path_sketches
Packet == SUBSET Path    \* a packet's id is the hash of its path_ids
Run    == 1..MaxRuns
Main   == "main"
Actor  == Workers \union {Main}

VARIABLES
  sketch,           \* a path's status
  packet,           \* validation_packets: the status of each
  unscheduled,      \* packets that a progress report has put on the list
  rpacket, rpc,     \* the runs: packet and place
  tracked, keys,    \* runs that futures holds; packets that are its keys
  broken,           \* packets of which a run raised before its try block
  place, retried,   \* where workers and main are; workers with a retry_count
  todo, chosen,     \* schedule_path_validations: packets left, packet at hand
  grew, seen,       \* main: futures has grown under its scan; packets it writes back
  resumes

ledger == <<sketch, packet, unscheduled>>
runs   == <<rpacket, rpc, tracked, keys, broken>>
actors == <<place, todo, chosen, retried>>
waitv  == <<grew, seen>>
vars   == <<ledger, runs, actors, waitv, resumes>>

PacketStatus == {"none", "queued", "completed", "failed"}
Scheduling   == {"read", "schedule", "submit"}
Ended        == {"completed", "failed", "stopped"}

\* Every variable keeps its type, and a run that is off has no packet.
TypeOK ==
  /\ sketch \in [Path -> {"none", "queued", "decided", "failed"}]
  /\ packet \in [Packet -> PacketStatus]
  /\ unscheduled \subseteq Packet
  /\ rpacket \in [Run -> Packet]
  /\ rpc \in [Run -> {"off", "waiting", "supplement", "ask"}]
  /\ \A r \in Run : rpc[r] = "off" => rpacket[r] = {} /\ r \notin tracked
  /\ tracked \subseteq Run
  /\ keys \subseteq Packet /\ broken \subseteq Packet
  /\ place \in [Actor -> {"waiting", "work", "wait", "scan", "append", "report", "raised"}
                            \union Scheduling \union Ended]
  /\ retried \subseteq ScopeWorkers
  /\ todo \in [Actor -> SUBSET Packet] /\ chosen \in [Actor -> Packet]
  /\ grew \in BOOLEAN
  /\ seen \in [Packet -> PacketStatus]
  /\ resumes \in 0..MaxResumes

NoPackets == [p \in Packet |-> "none"]

Init ==
  /\ sketch = [i \in Path |-> "none"]
  /\ packet = NoPackets /\ unscheduled = {}
  /\ rpacket = [r \in Run |-> {}] /\ rpc = [r \in Run |-> "off"]
  /\ tracked = {} /\ keys = {} /\ broken = {}
  /\ place = [a \in Actor |-> IF a = Main THEN "wait" ELSE "waiting"] /\ retried = {}
  /\ todo = [a \in Actor |-> {}] /\ chosen = [a \in Actor |-> {}]
  /\ grew = FALSE /\ seen = NoPackets
  /\ resumes = 0

Goto(a, there) == place' = [place EXCEPT ![a] = there]

Busy == Cardinality({w \in Workers : place[w] \notin Ended \union {"waiting"}})
          + Cardinality({r \in Run : rpc[r] \in {"supplement", "ask"}})

-----------------------------------------------------------------------------
(* Packets: build_validation_packets *)

\* The paths of a report that are in one packet with path i: they are taken in
\* the order of path_sketches, BatchSize to a packet.
Batch(paths, i) ==
  LET Number(j) == Cardinality({k \in paths : k < j}) \div BatchSize
  IN {j \in paths : Number(j) = Number(i)}

\* (faulty variant) the last packet of a report is made only if it is full.
BuildFull(paths) == {b \in {Batch(paths, i) : i \in paths} : Cardinality(b) = BatchSize}

Build(paths) == {Batch(paths, i) : i \in paths}

QueuedPaths(sketches) == {i \in Path : sketches[i] = "queued"}

\* (faulty variant) the packets of a report are added to the list.
RebuildAdding(sketches) ==
  packet' = [p \in Packet |-> IF p \in Build(QueuedPaths(sketches)) THEN "queued" ELSE packet[p]]

\* What is not queued is no longer in the list afterwards.
Rebuild(sketches) ==
  packet' = [p \in Packet |-> IF p \in Build(QueuedPaths(sketches)) THEN "queued" ELSE "none"]

\* _merge_path_sketches: the paths of a report that are new.
NewPaths ==
  {new \in SUBSET Path : \A i \in new : sketch[i] = "none"
                           /\ \A j \in 1..(i - 1) : sketch[j] # "none" \/ j \in new}

Merge(new) == sketch' = [i \in Path |-> IF i \in new THEN "queued" ELSE sketch[i]]

-----------------------------------------------------------------------------
(* Workers *)

WorkerStart(w) ==
  /\ place[w] = "waiting" /\ Busy < Threads
  /\ Goto(w, "work")
  /\ UNCHANGED <<ledger, runs, todo, chosen, retried, waitv, resumes>>

\* submit_worker_progress, which schedules nothing
WorkerProgress(w) ==
  /\ place[w] = "work"
  /\ \E new \in NewPaths : Merge(new) /\ Rebuild(sketch')
  /\ unscheduled' = {p \in Packet : packet'[p] = "queued"
                                      /\ (p \in unscheduled \/ packet[p] # "queued")}
  /\ UNCHANGED <<runs, actors, waitv, resumes>>

\* A result without sketches, or no result at all.
WorkerEnds(w) ==
  /\ place[w] = "work"
  /\ \E end \in Ended : Goto(w, end)
  /\ UNCHANGED <<ledger, runs, todo, chosen, retried, waitv, resumes>>

\* (faulty variant) the worker does not schedule what it has put on the list.
WorkerResultKept(w) ==
  /\ place[w] = "work"
  /\ \E new \in NewPaths : Merge(new) /\ Rebuild(sketch')
  /\ unscheduled' = {}
  /\ Goto(w, "completed")
  /\ UNCHANGED <<runs, todo, chosen, retried, waitv, resumes>>

\* persist_path_sketches, up to the call of schedule_path_validations
WorkerResult(w) ==
  /\ place[w] = "work"
  /\ \E new \in NewPaths : Merge(new) /\ Rebuild(sketch')
  /\ unscheduled' = {}
  /\ Goto(w, "read")
  /\ UNCHANGED <<runs, todo, chosen, retried, waitv, resumes>>

-----------------------------------------------------------------------------
(* schedule_path_validations, which takes no lock *)

ReadPackets(a) ==
  /\ place[a] = "read"
  /\ todo' = [todo EXCEPT ![a] = {p \in Packet : packet[p] = "queued"}]
  /\ Goto(a, "schedule")
  /\ UNCHANGED <<ledger, runs, chosen, retried, waitv, resumes>>

\* previous is None or previous.done()
Free(p) == \A r \in tracked : rpacket[r] # p

PickPacket(a) ==
  /\ place[a] = "schedule" /\ todo[a] # {}
  /\ \E p \in todo[a] :
       /\ todo' = [todo EXCEPT ![a] = @ \ {p}]
       /\ IF Free(p) THEN chosen' = [chosen EXCEPT ![a] = p] /\ Goto(a, "submit")
                     ELSE UNCHANGED <<chosen, place>>
  /\ UNCHANGED <<ledger, runs, retried, waitv, resumes>>

\* The future of another run of the packet is overwritten.
Submit(a) ==
  /\ place[a] = "submit"
  /\ \E r \in Run :
       /\ rpc[r] = "off" /\ \A q \in 1..(r - 1) : rpc[q] # "off"
       /\ rpc' = [rpc EXCEPT ![r] = "waiting"]
       /\ rpacket' = [rpacket EXCEPT ![r] = chosen[a]]
       /\ tracked' = {q \in tracked : rpacket[q] # chosen[a]} \union {r}
  /\ keys' = keys \union {chosen[a]}
  /\ grew' = (grew \/ (place[Main] = "scan" /\ chosen[a] \notin keys))
  /\ chosen' = [chosen EXCEPT ![a] = {}]
  /\ Goto(a, "schedule")
  /\ UNCHANGED <<ledger, broken, todo, retried, seen, resumes>>

Scheduled(a) ==
  /\ place[a] = "schedule" /\ todo[a] = {}
  /\ Goto(a, IF a = Main THEN "wait" ELSE "completed")
  /\ UNCHANGED <<ledger, runs, todo, chosen, retried, waitv, resumes>>

-----------------------------------------------------------------------------
(* run_validation_packet *)

RunEnds(r) ==
  /\ rpc' = [rpc EXCEPT ![r] = "off"]
  /\ rpacket' = [rpacket EXCEPT ![r] = {}]
  /\ tracked' = tracked \ {r}

\* The list no longer has the packet: next() raises StopIteration.
Dropped(r) == packet[rpacket[r]] = "none"

RunStart(r) ==
  /\ rpc[r] = "waiting" /\ Busy < Threads
  /\ IF Dropped(r) THEN RunEnds(r)
     ELSE rpc' = [rpc EXCEPT ![r] = "supplement"] /\ UNCHANGED <<rpacket, tracked>>
  /\ UNCHANGED <<ledger, keys, broken, actors, waitv, resumes>>

\* supplement_packet_evidence, and what it found is saved with the packet
RunSupplements(r) ==
  /\ rpc[r] = "supplement"
  /\ IF Dropped(r) THEN RunEnds(r)
     ELSE rpc' = [rpc EXCEPT ![r] = "ask"] /\ UNCHANGED <<rpacket, tracked>>
  /\ UNCHANGED <<ledger, keys, broken, actors, waitv, resumes>>

\* The evidence service, or the model's factory, raises before the try block.
RunBreaks(r) ==
  /\ rpc[r] = "supplement"
  /\ broken' = broken \union {rpacket[r]}
  /\ RunEnds(r)
  /\ UNCHANGED <<ledger, keys, actors, waitv, resumes>>

Settle(r, packetStatus, outcome) ==
  IF Dropped(r) THEN UNCHANGED <<packet, sketch>>
  ELSE /\ packet' = [packet EXCEPT ![rpacket[r]] = packetStatus]
       /\ sketch' = [i \in Path |-> IF i \in rpacket[r] THEN outcome ELSE sketch[i]]

\* persist_path_validation
RunPersists(r) ==
  /\ rpc[r] = "ask"
  /\ Settle(r, "completed", "decided")
  /\ RunEnds(r)
  /\ UNCHANGED <<unscheduled, keys, broken, actors, waitv, resumes>>

\* except Exception
RunFails(r) ==
  /\ rpc[r] = "ask"
  /\ Settle(r, "failed", "failed")
  /\ RunEnds(r)
  /\ UNCHANGED <<unscheduled, keys, broken, actors, waitv, resumes>>

-----------------------------------------------------------------------------
(* Main: wait_for_all *)

\* (faulty variant) main looks at the packets, not at their futures.
PendingPackets ==
  (\E w \in Workers : place[w] \notin Ended) \/ \E p \in Packet : packet[p] = "queued"

\* The futures are those of the workers and of the tracked runs.
Pending == (\E w \in Workers : place[w] \notin Ended) \/ tracked # {}

MainScan ==
  /\ place[Main] = "wait"
  /\ Goto(Main, "scan")
  /\ UNCHANGED <<ledger, runs, todo, chosen, retried, waitv, resumes>>

\* A dictionary that grows while it is iterated over raises RuntimeError.
MainScanRaises ==
  /\ place[Main] = "scan" /\ grew
  /\ \E w \in Workers : place[w] \in Ended
  /\ Goto(Main, "raised")
  /\ UNCHANGED <<ledger, runs, todo, chosen, retried, waitv, resumes>>

Covered == UNION {p \in Packet : packet[p] = "queued"}
Missing == QueuedPaths(sketch) \ Covered

Retryable == {w \in ScopeWorkers \ retried : place[w] = "failed"}

MainRetries(w) ==
  /\ place[Main] = "scan" /\ ~Pending /\ ~grew
  /\ w \in Retryable
  /\ place' = [place EXCEPT ![w] = "waiting", ![Main] = "wait"]
  /\ retried' = retried \union {w}
  /\ UNCHANGED <<ledger, runs, todo, chosen, waitv, resumes>>

\* A scan under which futures has grown did not get to the end.
MainLooks ==
  /\ place[Main] = "scan"
  /\ IF Pending \/ grew THEN Goto(Main, "wait") /\ UNCHANGED seen
     ELSE /\ Retryable = {}
          /\ IF Missing = {} THEN Goto(Main, "report") /\ UNCHANGED seen
             ELSE /\ seen' = [p \in Packet |-> IF p \in Build(Missing) THEN "queued" ELSE packet[p]]
                  /\ Goto(Main, "append")
  /\ grew' = FALSE
  /\ UNCHANGED <<ledger, runs, todo, chosen, retried, resumes>>

MainAppends ==
  /\ place[Main] = "append"
  /\ packet' = seen /\ seen' = NoPackets
  /\ Goto(Main, "read")
  /\ UNCHANGED <<sketch, unscheduled, runs, todo, chosen, retried, grew, resumes>>

-----------------------------------------------------------------------------
\* AuditService._create and AgentTeam.start for the continuation of an audit
\* whose team is closed; workers that did not complete may run again.
Continue ==
  /\ place[Main] \in {"report", "raised"} /\ resumes < MaxResumes
  /\ \A w \in Workers : place[w] \in Ended
  /\ \A r \in Run : rpc[r] = "off"
  /\ sketch' = [i \in Path |-> IF sketch[i] = "failed" THEN "queued" ELSE sketch[i]]
  /\ packet' = [p \in Packet |-> IF packet[p] = "failed" THEN "queued" ELSE packet[p]]
  /\ \E again \in SUBSET {w \in Workers : place[w] # "completed"} :
       place' = [a \in Actor |-> IF a = Main THEN "read"
                                 ELSE IF a \in again THEN "waiting" ELSE place[a]]
  /\ unscheduled' = {} /\ keys' = {} /\ broken' = {} /\ grew' = FALSE
  /\ resumes' = resumes + 1
  /\ UNCHANGED <<rpacket, rpc, tracked, todo, chosen, retried, seen>>

WorkerFinishes(w) == WorkerEnds(w) \/ WorkerResult(w)

ScheduleStep(a) == ReadPackets(a) \/ PickPacket(a) \/ Submit(a) \/ Scheduled(a)

RunStep(r) ==
  RunStart(r) \/ RunSupplements(r) \/ RunBreaks(r) \/ RunPersists(r) \/ RunFails(r)

MainStep ==
  \/ MainScan \/ MainScanRaises \/ MainLooks \/ MainAppends
  \/ \E w \in Workers : MainRetries(w)

Next ==
  \/ MainStep \/ Continue
  \/ \E w \in Workers : WorkerStart(w) \/ WorkerProgress(w) \/ WorkerFinishes(w)
  \/ \E a \in Actor : ScheduleStep(a)
  \/ \E r \in Run : RunStep(r)

Spec == Init /\ [][Next]_vars

\* Threads run; a worker ends, for its calls are limited.
Fairness ==
  /\ WF_vars(MainStep) /\ \A a \in Actor : WF_vars(ScheduleStep(a))
  /\ \A w \in Workers : WF_vars(WorkerStart(w)) /\ WF_vars(WorkerFinishes(w))
  /\ \A r \in Run : WF_vars(RunStep(r))

FairSpec == Spec /\ Fairness

-----------------------------------------------------------------------------
(* Properties *)

Open == {p \in Packet : packet[p] = "queued"}

\* No path is in two packets that are to be validated, although the list is
\* rebuilt while its packets are under way.
PacketsDisjoint == \A p, q \in Open : p # q => p \cap q = {}

\* Until the audit is continued, and again when main has waited, every path
\* still to be validated is in a packet.
QueuedIsCovered ==
  (resumes = 0 \/ place[Main] = "report") => QueuedPaths(sketch) \subseteq UNION Open

\* When main goes on to its report, a packet is left only if a progress report
\* brought it, or if its run broke off.
NothingForgotten ==
  place[Main] = "report" => Open \subseteq unscheduled \union broken

\* Main does not wait for ever.
WaitEnds == place[Main] = "wait" ~> place[Main] \in {"report", "raised"}

\* agent_team.py, wait_for_all: "until discovery and every validation packet
\* reach a terminal state".
WaitForAllMeansTerminal == place[Main] = "report" => Open = {}
=============================================================================
