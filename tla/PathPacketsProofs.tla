------------------------- MODULE PathPacketsProofs -------------------------
(***************************************************************************)
(* Proofs about the packets of the path pipeline, for any workers, paths,  *)
(* batch size, threads, runs and continuations.  PacketInv is the inductive*)
(* invariant.  A run may be under way whose future was overwritten, so its *)
(* packet may be settled after main has waited, and a packet that was      *)
(* settled may be settled again; what is disjoint is therefore more than   *)
(* the packets that are queued: those that may be queued again as well.    *)
(***************************************************************************)
EXTENDS PathPackets, TLAPS

Disjoint(packets) == \A p, q \in packets : p # q => p \cap q = {}

\* A run of the packet is under way, or somebody is about to submit one.
Riding(p) ==
  \/ \E r \in Run : rpc[r] # "off" /\ rpacket[r] = p
  \/ \E a \in Actor : p \in todo[a] \/ (place[a] = "submit" /\ chosen[a] = p)

\* Packets that the continuation of the audit, or a run and then the
\* continuation, would put back on a list.
AtRisk(list) == {p \in Packet : list[p] = "failed" \/ (list[p] = "completed" /\ Riding(p))}

Live(list) == {p \in Packet : list[p] = "queued"} \union AtRisk(list)

\* No path is in two packets of a list that may be validated, and the paths of
\* one that was settled are.
Sound(list) ==
  /\ Disjoint(Live(list))
  /\ \A p \in AtRisk(list) : \A i \in p : sketch[i] # "queued"

AllEnded == \A w \in Workers : place[w] \in Ended

\* Who does not schedule has no packets at hand; main looks at the packets, and
\* reports, when the workers have ended.
AtRest ==
  /\ \A a \in Actor : place[a] \notin {"schedule", "submit"} => todo[a] = {}
  /\ place[Main] \in {"append", "report"} => AllEnded
  /\ place[Main] = "report" => tracked = {}

\* Somebody schedules the packet, or will read it off the list, unless a progress
\* report brought it or its run broke off.
CaredFor(p) ==
  \/ p \in unscheduled \union broken
  \/ \E r \in tracked : rpacket[r] = p
  \/ \E a \in Actor : p \in todo[a] \/ (place[a] = "submit" /\ chosen[a] = p) \/ place[a] = "read"
  \/ place[Main] = "append"

PacketInv ==
  /\ TypeOK
  /\ AtRest
  /\ Sound(packet)
  /\ place[Main] = "append" => Sound(seen) /\ resumes # 0
  /\ QueuedIsCovered
  /\ \A p \in Open : CaredFor(p)

-----------------------------------------------------------------------------
(* The batches of a set of paths hold these paths and no other, each path once. *)
LEMMA Batches ==
  ASSUME NEW paths \in SUBSET Path
  PROVE  /\ Build(paths) \subseteq SUBSET paths
         /\ paths \subseteq UNION Build(paths)
         /\ Disjoint(Build(paths))
<1> DEFINE N(j) == Cardinality({k \in paths : k < j}) \div BatchSize
<1>1. \A i \in paths : Batch(paths, i) = {j \in paths : N(j) = N(i)}
  BY DEF Batch
<1> HIDE DEF N
<1>2. Build(paths) \subseteq SUBSET paths
  BY <1>1 DEF Build
<1>3. paths \subseteq UNION Build(paths)
  BY <1>1 DEF Build
<1>4. ASSUME NEW i \in paths, NEW j \in paths, NEW k \in Batch(paths, i) \cap Batch(paths, j)
      PROVE  Batch(paths, i) = Batch(paths, j)
  BY <1>1, <1>4
<1>5. Disjoint(Build(paths))
  BY <1>4 DEF Build, Disjoint
<1> QED
  BY <1>2, <1>3, <1>5

(* What is on the list once it is rebuilt. *)
LEMMA Rebuilds ==
  ASSUME TypeOK, Rebuild(sketch')
  PROVE  /\ packet' \in [Packet -> {"queued", "none"}]
         /\ Disjoint(Open')
         /\ QueuedPaths(sketch') \subseteq UNION Open'
<1>1. QueuedPaths(sketch') \in SUBSET Path
  BY DEF QueuedPaths
<1>2. /\ packet' \in [Packet -> {"queued", "none"}]
      /\ \A p \in Packet : packet'[p] = "queued" <=> p \in Build(QueuedPaths(sketch'))
  BY DEF Rebuild
<1>3. Build(QueuedPaths(sketch')) \subseteq Packet
  BY <1>1, Batches DEF Packet
<1>4. Open' = Build(QueuedPaths(sketch'))
  BY <1>2, <1>3 DEF Open
<1> QED
  BY <1>1, <1>2, <1>4, Batches

(* The two outcomes of a packet that is still on the list. *)
LEMMA Settles ==
  ASSUME TypeOK, NEW r \in Run, NEW s \in {"completed", "failed"}, NEW o \in {"decided", "failed"},
         Settle(r, s, o)
  PROVE  \/ packet[rpacket[r]] = "none" /\ UNCHANGED <<packet, sketch>>
         \/ /\ packet[rpacket[r]] # "none" /\ rpacket[r] \in Packet
            /\ packet' \in [Packet -> PacketStatus]
            /\ packet'[rpacket[r]] = s /\ \A p \in Packet : p # rpacket[r] => packet'[p] = packet[p]
            /\ sketch' \in [Path -> {"none", "queued", "decided", "failed"}]
            /\ \A i \in Path : sketch'[i] = IF i \in rpacket[r] THEN o ELSE sketch[i]
<1>1. rpacket[r] \in Packet
  BY DEF TypeOK
<1>2. CASE packet[rpacket[r]] = "none"
  BY <1>2 DEF Settle, Dropped
<1>3. CASE packet[rpacket[r]] # "none"
  <2>1. /\ packet' = [packet EXCEPT ![rpacket[r]] = s]
        /\ sketch' = [i \in Path |-> IF i \in rpacket[r] THEN o ELSE sketch[i]]
    BY <1>3 DEF Settle, Dropped
  <2>2. packet' \in [Packet -> PacketStatus]
    BY <1>1, <2>1 DEF TypeOK, PacketStatus
  <2>3. sketch' \in [Path -> {"none", "queued", "decided", "failed"}]
    BY <2>1 DEF TypeOK
  <2> QED
    BY <1>1, <1>3, <2>1, <2>2, <2>3 DEF TypeOK
<1> QED
  BY <1>2, <1>3

(* A run that ends is off. *)
LEMMA RunIsOff ==
  ASSUME TypeOK, NEW r \in Run, RunEnds(r)
  PROVE  /\ rpc'[r] = "off" /\ \A q \in Run : q # r => rpc'[q] = rpc[q] /\ rpacket'[q] = rpacket[q]
         /\ tracked' = tracked \ {r}
         /\ rpc' \in [Run -> {"off", "waiting", "supplement", "ask"}]
         /\ rpacket' \in [Run -> Packet]
         /\ \A q \in Run : rpc'[q] = "off" => rpacket'[q] = {} /\ q \notin tracked'
<1>1. {} \in Packet
  BY DEF Packet
<1> QED
  BY <1>1 DEF RunEnds, TypeOK

(* Every variable keeps its type. *)
LEMMA Typing ==
  TypeOK /\ [Next]_vars => TypeOK'
<1> SUFFICES ASSUME TypeOK, [Next]_vars PROVE TypeOK'
  OBVIOUS
<1> DEFINE Places == {"waiting", "work", "wait", "scan", "append", "report", "raised"}
                       \union Scheduling \union Ended
<1>1. /\ Main \in Actor /\ Workers \subseteq Actor /\ {} \in Packet
      /\ place \in [Actor -> Places]
  BY DEF Actor, Packet, TypeOK
<1>2. CASE UNCHANGED vars
  BY <1>2 DEF vars, ledger, runs, actors, waitv, TypeOK
<1>3. CASE UNCHANGED <<packet, sketch, unscheduled, runs, todo, chosen, retried, waitv, resumes>>
            /\ place' \in [Actor -> Places]
  BY <1>3 DEF runs, waitv, TypeOK
<1>4. ASSUME NEW w \in Workers, WorkerStart(w) \/ WorkerEnds(w) PROVE TypeOK'
  <2>1. place' \in [Actor -> Places]
    BY <1>1, <1>4 DEF WorkerStart, WorkerEnds, Goto
  <2> QED
    BY <1>3, <1>4, <2>1 DEF WorkerStart, WorkerEnds, ledger
<1>5. ASSUME NEW w \in Workers, WorkerProgress(w) \/ WorkerResult(w) PROVE TypeOK'
  <2>1. sketch' \in [Path -> {"none", "queued", "decided", "failed"}]
    BY <1>5 DEF WorkerProgress, WorkerResult, Merge, TypeOK
  <2>2. Rebuild(sketch') /\ unscheduled' \subseteq Packet
    BY <1>5 DEF WorkerProgress, WorkerResult
  <2>3. packet' \in [Packet -> PacketStatus]
    BY <2>2, Rebuilds DEF PacketStatus
  <2>4. place' \in [Actor -> Places]
    BY <1>1, <1>5 DEF WorkerProgress, WorkerResult, Goto, actors, Scheduling
  <2>5. UNCHANGED <<rpacket, rpc, tracked, keys, broken, todo, chosen, retried, grew, seen, resumes>>
    BY <1>5 DEF WorkerProgress, WorkerResult, runs, actors, waitv
  <2> QED
    BY <2>1, <2>2, <2>3, <2>4, <2>5 DEF TypeOK
<1>6. ASSUME NEW a \in Actor, ReadPackets(a) \/ PickPacket(a) \/ Scheduled(a) PROVE TypeOK'
  <2>1. place' \in [Actor -> Places]
    BY <1>1, <1>6 DEF ReadPackets, PickPacket, Scheduled, Goto, Scheduling, Ended
  <2>2. todo' \in [Actor -> SUBSET Packet]
    BY <1>6 DEF ReadPackets, PickPacket, Scheduled, TypeOK
  <2>3. chosen' \in [Actor -> Packet]
    BY <1>6 DEF ReadPackets, PickPacket, Scheduled, TypeOK
  <2>4. UNCHANGED <<ledger, runs, retried, waitv, resumes>>
    BY <1>6 DEF ReadPackets, PickPacket, Scheduled
  <2> QED
    BY <2>1, <2>2, <2>3, <2>4 DEF TypeOK, ledger, runs, waitv
<1>7. ASSUME NEW a \in Actor, Submit(a) PROVE TypeOK'
  <2>1. chosen[a] \in Packet /\ grew \in BOOLEAN
    BY DEF TypeOK
  <2>2. PICK r \in Run : /\ rpc' = [rpc EXCEPT ![r] = "waiting"]
                         /\ rpacket' = [rpacket EXCEPT ![r] = chosen[a]]
                         /\ tracked' = {q \in tracked : rpacket[q] # chosen[a]} \union {r}
    BY <1>7 DEF Submit
  <2>3. /\ rpc' \in [Run -> {"off", "waiting", "supplement", "ask"}]
        /\ rpacket' \in [Run -> Packet] /\ tracked' \subseteq Run
        /\ \A q \in Run : rpc'[q] = "off" => rpacket'[q] = {} /\ q \notin tracked'
    BY <2>1, <2>2 DEF TypeOK
  <2>4. place' \in [Actor -> Places] /\ chosen' \in [Actor -> Packet]
    BY <1>1, <1>7 DEF Submit, Goto, Scheduling, TypeOK
  <2>5. grew' \in BOOLEAN
    BY <1>7, <2>1 DEF Submit
  <2>6. keys' \subseteq Packet /\ UNCHANGED <<sketch, packet, unscheduled, broken, todo, retried, seen, resumes>>
    BY <1>7, <2>1 DEF Submit, ledger, TypeOK
  <2> QED
    BY <2>3, <2>4, <2>5, <2>6 DEF TypeOK
<1>8. ASSUME NEW r \in Run, RunStart(r) \/ RunSupplements(r) PROVE TypeOK'
  <2>1. UNCHANGED <<sketch, packet, unscheduled, keys, broken, place, todo, chosen, retried, grew, seen, resumes>>
    BY <1>8 DEF RunStart, RunSupplements, ledger, actors, waitv
  <2>2. CASE RunEnds(r)
    BY <2>1, <2>2, RunIsOff DEF TypeOK
  <2>3. CASE \E s \in {"supplement", "ask"} :
               rpc' = [rpc EXCEPT ![r] = s] /\ UNCHANGED <<rpacket, tracked>>
    BY <2>1, <2>3, <1>8 DEF TypeOK, RunStart, RunSupplements
  <2> QED
    BY <1>8, <2>2, <2>3 DEF RunStart, RunSupplements
<1>9. ASSUME NEW r \in Run, RunBreaks(r) PROVE TypeOK'
  <2>1. /\ UNCHANGED <<sketch, packet, unscheduled, keys, place, todo, chosen, retried, grew, seen, resumes>>
        /\ broken' \subseteq Packet /\ RunEnds(r)
    BY <1>9 DEF RunBreaks, ledger, actors, waitv, TypeOK
  <2> QED
    BY <2>1, RunIsOff DEF TypeOK
<1>10. ASSUME NEW r \in Run, RunPersists(r) \/ RunFails(r) PROVE TypeOK'
  <2>1. /\ UNCHANGED <<unscheduled, keys, broken, place, todo, chosen, retried, grew, seen, resumes>>
        /\ RunEnds(r)
        /\ \E s \in {"completed", "failed"}, o \in {"decided", "failed"} : Settle(r, s, o)
    BY <1>10 DEF RunPersists, RunFails, actors, waitv
  <2>2. /\ packet' \in [Packet -> PacketStatus]
        /\ sketch' \in [Path -> {"none", "queued", "decided", "failed"}]
    BY <2>1, Settles DEF TypeOK
  <2> QED
    BY <2>1, <2>2, RunIsOff DEF TypeOK
<1>11. CASE MainScan \/ MainScanRaises
  <2>1. place' \in [Actor -> Places]
    BY <1>1, <1>11 DEF MainScan, MainScanRaises, Goto
  <2> QED
    BY <1>3, <1>11, <2>1 DEF MainScan, MainScanRaises, ledger
<1>12. CASE MainLooks
  <2>1. place' \in [Actor -> Places]
    BY <1>1, <1>12 DEF MainLooks, Goto
  <2>2. seen' \in [Packet -> PacketStatus]
    <3>1. seen' = seen \/ seen' = [p \in Packet |-> IF p \in Build(Missing) THEN "queued" ELSE packet[p]]
      BY <1>12 DEF MainLooks
    <3> QED
      BY <3>1 DEF TypeOK, PacketStatus
  <2>3. grew' \in BOOLEAN
    BY <1>12 DEF MainLooks
  <2>4. UNCHANGED <<ledger, runs, todo, chosen, retried, resumes>>
    BY <1>12 DEF MainLooks
  <2> QED
    BY <2>1, <2>2, <2>3, <2>4 DEF TypeOK, ledger, runs
<1>13. CASE MainAppends
  <2>1. place' \in [Actor -> Places]
    BY <1>1, <1>13 DEF MainAppends, Goto, Scheduling
  <2>2. packet' \in [Packet -> PacketStatus] /\ seen' \in [Packet -> PacketStatus]
    BY <1>13 DEF MainAppends, TypeOK, NoPackets, PacketStatus
  <2>3. UNCHANGED <<sketch, unscheduled, runs, todo, chosen, retried, grew, resumes>>
    BY <1>13 DEF MainAppends
  <2> QED
    BY <2>1, <2>2, <2>3 DEF TypeOK, runs
<1>14. ASSUME NEW w \in Workers, MainRetries(w) PROVE TypeOK'
  <2>1. place' \in [Actor -> Places] /\ retried' \subseteq ScopeWorkers
    BY <1>1, <1>14 DEF MainRetries, Retryable, TypeOK
  <2>2. UNCHANGED <<ledger, runs, todo, chosen, waitv, resumes>>
    BY <1>14 DEF MainRetries
  <2> QED
    BY <2>1, <2>2 DEF TypeOK, ledger, runs, waitv
<1>15. CASE Continue
  <2>1. place' \in [Actor -> Places]
    BY <1>1, <1>15 DEF Continue, Scheduling
  <2>2. sketch' \in [Path -> {"none", "queued", "decided", "failed"}]
    BY <1>15 DEF Continue, TypeOK
  <2>3. packet' \in [Packet -> PacketStatus]
    BY <1>15 DEF Continue, TypeOK, PacketStatus
  <2>4. resumes' \in 0..MaxResumes
    BY <1>15, BoundAssumption DEF Continue, TypeOK
  <2>5. /\ unscheduled' = {} /\ keys' = {} /\ broken' = {}
        /\ UNCHANGED <<rpacket, rpc, tracked, todo, chosen, retried, seen>>
    BY <1>15 DEF Continue
  <2>6. grew' \in BOOLEAN
    BY <1>15 DEF Continue
  <2> QED
    BY <2>1, <2>2, <2>3, <2>4, <2>5, <2>6 DEF TypeOK
<1> QED
  BY <1>2, <1>4, <1>5, <1>6, <1>7, <1>8, <1>9, <1>10, <1>11, <1>12, <1>13, <1>14, <1>15
  DEF Next, MainStep, WorkerFinishes, ScheduleStep, RunStep

(* Main and the workers are different actors. *)
LEMMA Actors ==
  Main \in Actor /\ Workers \subseteq Actor /\ Main \notin Workers
  BY ActorAssumption DEF Actor, Main

(* Who does not schedule has nothing at hand, and main goes on when all is quiet. *)
LEMMA Resting ==
  TypeOK /\ AtRest /\ [Next]_vars => AtRest'
<1> SUFFICES ASSUME TypeOK, AtRest, [Next]_vars PROVE AtRest'
  OBVIOUS
<1>1. place \in [Actor -> {"waiting", "work", "wait", "scan", "append", "report", "raised"}
                            \union Scheduling \union Ended]
  BY DEF TypeOK
<1>2. ASSUME NEW a \in Actor, NEW there, place' = [place EXCEPT ![a] = there],
             place[a] \notin Ended, UNCHANGED tracked,
             \A b \in Actor : b # a => todo'[b] = todo[b],
             there \in {"schedule", "submit"} \/ todo'[a] = {},
             a = Main => there \notin {"append", "report"}
      PROVE  AtRest'
  <2>1. place'[a] = there /\ \A b \in Actor : b # a => place'[b] = place[b]
    BY <1>1, <1>2
  <2>2. \A b \in Actor : place'[b] \notin {"schedule", "submit"} => todo'[b] = {}
    BY <1>2, <2>1 DEF AtRest
  <2>3. place'[Main] \notin {"append", "report"}
    BY <1>2, <2>1, Actors DEF AtRest, AllEnded, Actor
  <2> QED
    BY <2>2, <2>3 DEF AtRest
<1>3. CASE UNCHANGED <<place, todo>> /\ tracked' \subseteq tracked
  BY <1>3 DEF AtRest, AllEnded
<1>4. ASSUME NEW w \in Workers, WorkerStart(w) \/ WorkerEnds(w) \/ WorkerResult(w) PROVE AtRest'
  <2>1. /\ place[w] \in {"waiting", "work"} /\ UNCHANGED <<todo, tracked>>
        /\ \E there : place' = [place EXCEPT ![w] = there]
    BY <1>4 DEF WorkerStart, WorkerEnds, WorkerResult, Goto, runs
  <2>2. place[w] \notin Ended /\ todo[w] = {} /\ w # Main /\ w \in Actor
    BY <2>1, Actors DEF AtRest, Ended
  <2> QED
    BY <1>2, <2>1, <2>2
<1>5. ASSUME NEW w \in Workers, WorkerProgress(w) PROVE AtRest'
  BY <1>3, <1>5 DEF WorkerProgress, actors, runs
<1>6. ASSUME NEW a \in Actor, ReadPackets(a) \/ PickPacket(a) PROVE AtRest'
  <2>1. /\ place[a] \in {"read", "schedule"} /\ UNCHANGED tracked
        /\ \A b \in Actor : b # a => todo'[b] = todo[b]
    BY <1>6 DEF ReadPackets, PickPacket, runs, TypeOK
  <2>2. place' = [place EXCEPT ![a] = "schedule"] \/ place' = [place EXCEPT ![a] = "submit"]
    BY <1>1, <1>6 DEF ReadPackets, PickPacket, Goto
  <2>3. place[a] \notin Ended
    BY <2>1 DEF Ended
  <2> QED
    BY <1>2, <2>1, <2>2, <2>3
<1>7. ASSUME NEW a \in Actor, Scheduled(a) PROVE AtRest'
  <2>1. /\ place[a] = "schedule" /\ todo[a] = {} /\ UNCHANGED <<tracked, todo>>
        /\ \/ place' = [place EXCEPT ![a] = "wait"]
           \/ place' = [place EXCEPT ![a] = "completed"]
    BY <1>7 DEF Scheduled, Goto, runs
  <2>2. place[a] \notin Ended
    BY <2>1 DEF Ended
  <2> QED
    BY <1>2, <2>1, <2>2
<1>8. ASSUME NEW a \in Actor, Submit(a) PROVE AtRest'
  <2>1. /\ place[a] = "submit" /\ UNCHANGED todo /\ place' = [place EXCEPT ![a] = "schedule"]
    BY <1>8 DEF Submit, Goto
  <2>2. place'[a] = "schedule" /\ \A b \in Actor : b # a => place'[b] = place[b]
    BY <1>1, <2>1
  <2>3. place'[Main] \notin {"append", "report"}
    BY <2>1, <2>2, Actors DEF AtRest, AllEnded, Actor, Ended
  <2> QED
    BY <2>1, <2>2, <2>3 DEF AtRest
<1>9. ASSUME NEW r \in Run, RunStep(r) PROVE AtRest'
  BY <1>3, <1>9
  DEF RunStep, RunStart, RunSupplements, RunBreaks, RunPersists, RunFails, RunEnds, actors
<1>10. CASE MainScan \/ MainScanRaises \/ MainAppends
  <2>1. /\ place[Main] \in {"wait", "scan", "append"} /\ UNCHANGED <<todo, tracked>>
        /\ \E there \in {"scan", "raised", "read"} : place' = [place EXCEPT ![Main] = there]
    BY <1>10 DEF MainScan, MainScanRaises, MainAppends, Goto, runs
  <2>2. place[Main] \notin Ended /\ todo[Main] = {}
    BY <2>1, Actors DEF AtRest, Ended
  <2> QED
    BY <1>2, <2>1, <2>2, Actors
<1>11. CASE MainLooks
  <2>1. place[Main] = "scan" /\ UNCHANGED <<todo, tracked>> /\ todo[Main] = {}
    BY <1>11, Actors DEF MainLooks, runs, AtRest
  <2>2. \/ place' = [place EXCEPT ![Main] = "wait"]
        \/ /\ ~Pending
           /\ \E there \in {"report", "append"} : place' = [place EXCEPT ![Main] = there]
    BY <1>11 DEF MainLooks, Goto
  <2>3. CASE place' = [place EXCEPT ![Main] = "wait"]
    BY <1>2, <2>1, <2>3, Actors DEF Ended
  <2>4. CASE ~Pending /\ \E there \in {"report", "append"} : place' = [place EXCEPT ![Main] = there]
    <3>1. AllEnded /\ tracked = {}
      BY <2>4 DEF Pending, AllEnded
    <3>2. \A b \in Actor : b # Main => place'[b] = place[b]
      BY <1>1, <2>4
    <3>3. AllEnded'
      BY <3>1, <3>2, Actors DEF AllEnded
    <3>4. \A b \in Actor : place'[b] \notin {"schedule", "submit"} => todo'[b] = {}
      BY <2>1, <3>2 DEF AtRest
    <3> QED
      BY <2>1, <3>1, <3>3, <3>4 DEF AtRest
  <2> QED
    BY <2>2, <2>3, <2>4
<1>12. ASSUME NEW w \in Workers, MainRetries(w) PROVE AtRest'
  <2>1. /\ place[Main] = "scan" /\ place[w] = "failed" /\ UNCHANGED <<todo, tracked>>
        /\ place' = [place EXCEPT ![w] = "waiting", ![Main] = "wait"]
    BY <1>12 DEF MainRetries, Retryable, runs
  <2>2. place'[Main] = "wait" /\ todo[Main] = {} /\ todo[w] = {}
        /\ \A b \in Actor : b \notin {Main, w} => place'[b] = place[b]
    BY <1>1, <2>1, Actors DEF AtRest
  <2> QED
    BY <2>1, <2>2 DEF AtRest
<1>13. CASE Continue
  <2>1. /\ place[Main] \in {"report", "raised"} /\ AllEnded /\ UNCHANGED <<todo, tracked>>
        /\ place'[Main] = "read"
    BY <1>13, Actors DEF Continue, AllEnded
  <2>2. \A b \in Actor : todo[b] = {}
    BY <2>1 DEF AtRest, AllEnded, Actor, Ended
  <2> QED
    BY <2>1, <2>2 DEF AtRest
<1>14. CASE UNCHANGED vars
  BY <1>3, <1>14 DEF vars, actors, runs
<1> QED
  BY <1>4, <1>5, <1>6, <1>7, <1>8, <1>9, <1>10, <1>11, <1>12, <1>13, <1>14
  DEF Next, MainStep, WorkerFinishes, ScheduleStep

(* What can become a packet of a run: one that is read off the list, and nothing else. *)
LEMMA RidingOn ==
  ASSUME TypeOK, [Next]_vars, NEW p \in Packet, Riding(p)'
  PROVE  Riding(p) \/ (packet[p] = "queued" /\ \E a \in Actor : ReadPackets(a))
<1>1. /\ place \in [Actor -> {"waiting", "work", "wait", "scan", "append", "report", "raised"}
                               \union Scheduling \union Ended]
      /\ todo \in [Actor -> SUBSET Packet] /\ chosen \in [Actor -> Packet]
      /\ rpc \in [Run -> {"off", "waiting", "supplement", "ask"}] /\ rpacket \in [Run -> Packet]
  BY DEF TypeOK
<1>2. ASSUME UNCHANGED <<todo, chosen>>,
             \A a \in Actor : place'[a] = "submit" => place[a] = "submit",
             \A r \in Run : rpc'[r] # "off" => rpc[r] # "off" /\ rpacket'[r] = rpacket[r]
      PROVE  Riding(p)
  BY <1>2 DEF Riding
<1>3. ASSUME UNCHANGED <<todo, chosen, rpc, rpacket, place>> PROVE Riding(p)
  BY <1>2, <1>3
<1>4. ASSUME UNCHANGED <<todo, chosen, rpc, rpacket>>,
             \E a \in Actor : \E there : place' = [place EXCEPT ![a] = there] /\ there # "submit"
      PROVE  Riding(p)
  <2>1. \A a \in Actor : place'[a] = "submit" => place[a] = "submit"
    BY <1>1, <1>4
  <2> QED
    BY <1>2, <1>4, <2>1
<1>5. ASSUME NEW w \in Workers, WorkerStart(w) \/ WorkerEnds(w) \/ WorkerResult(w) PROVE Riding(p)
  <2>1. UNCHANGED <<todo, chosen, rpc, rpacket>>
    BY <1>5 DEF WorkerStart, WorkerEnds, WorkerResult, runs
  <2>2. \E there : place' = [place EXCEPT ![w] = there] /\ there # "submit"
    BY <1>5 DEF WorkerStart, WorkerEnds, WorkerResult, Goto, Ended
  <2> QED
    BY <1>4, <2>1, <2>2, Actors
<1>6. ASSUME NEW w \in Workers, WorkerProgress(w) PROVE Riding(p)
  BY <1>3, <1>6 DEF WorkerProgress, actors, runs
<1>7. ASSUME NEW a \in Actor, ReadPackets(a) PROVE Riding(p) \/ packet[p] = "queued"
  <2>1. /\ todo' = [todo EXCEPT ![a] = {q \in Packet : packet[q] = "queued"}]
        /\ place' = [place EXCEPT ![a] = "schedule"] /\ UNCHANGED <<chosen, rpc, rpacket>>
    BY <1>7 DEF ReadPackets, Goto, runs
  <2>2. \A b \in Actor : /\ p \in todo'[b] => p \in todo[b] \/ packet[p] = "queued"
                         /\ place'[b] = "submit" => place[b] = "submit"
    BY <1>1, <2>1
  <2> QED
    BY <2>1, <2>2 DEF Riding
<1>8. ASSUME NEW a \in Actor, PickPacket(a) PROVE Riding(p)
  <2>1. PICK q \in todo[a] :
          /\ todo' = [todo EXCEPT ![a] = todo[a] \ {q}] /\ UNCHANGED <<rpc, rpacket>>
          /\ \/ UNCHANGED <<chosen, place>>
             \/ chosen' = [chosen EXCEPT ![a] = q] /\ place' = [place EXCEPT ![a] = "submit"]
    BY <1>8 DEF PickPacket, Goto, runs
  <2>2. \A b \in Actor : p \in todo'[b] => p \in todo[b]
    BY <1>1, <2>1
  <2>3. \A b \in Actor : place'[b] = "submit" /\ chosen'[b] = p =>
          p \in todo[b] \/ (place[b] = "submit" /\ chosen[b] = p)
    BY <1>1, <2>1
  <2> QED
    BY <2>1, <2>2, <2>3 DEF Riding
<1>9. ASSUME NEW a \in Actor, Submit(a) PROVE Riding(p)
  <2>1. PICK r \in Run : /\ rpc' = [rpc EXCEPT ![r] = "waiting"]
                         /\ rpacket' = [rpacket EXCEPT ![r] = chosen[a]]
    BY <1>9 DEF Submit
  <2>2. /\ place[a] = "submit" /\ UNCHANGED todo
        /\ chosen' = [chosen EXCEPT ![a] = {}] /\ place' = [place EXCEPT ![a] = "schedule"]
    BY <1>9 DEF Submit, Goto
  <2>3. \A q \in Run : rpc'[q] # "off" /\ rpacket'[q] = p => chosen[a] = p \/ (rpc[q] # "off" /\ rpacket[q] = p)
    BY <1>1, <2>1
  <2>4. \A b \in Actor : place'[b] = "submit" => place[b] = "submit" /\ chosen'[b] = chosen[b]
    BY <1>1, <2>2
  <2> QED
    BY <2>2, <2>3, <2>4 DEF Riding
<1>10. ASSUME NEW a \in Actor, Scheduled(a) PROVE Riding(p)
  <2>1. UNCHANGED <<todo, chosen, rpc, rpacket>>
    BY <1>10 DEF Scheduled, runs
  <2>2. place' = [place EXCEPT ![a] = "wait"] \/ place' = [place EXCEPT ![a] = "completed"]
    BY <1>10 DEF Scheduled, Goto
  <2> QED
    BY <1>4, <2>1, <2>2
<1>11. ASSUME NEW r \in Run, RunStep(r) PROVE Riding(p)
  <2>1. UNCHANGED <<todo, chosen, place>>
    BY <1>11 DEF RunStep, RunStart, RunSupplements, RunBreaks, RunPersists, RunFails, actors
  <2>2. RunEnds(r) \/ (UNCHANGED rpacket /\ rpc[r] # "off"
                        /\ \E s : rpc' = [rpc EXCEPT ![r] = s])
    BY <1>11 DEF RunStep, RunStart, RunSupplements, RunBreaks, RunPersists, RunFails
  <2>3. \A q \in Run : rpc'[q] # "off" => rpc[q] # "off" /\ rpacket'[q] = rpacket[q]
    BY <1>1, <2>2, RunIsOff
  <2> QED
    BY <1>2, <2>1, <2>3
<1>12. CASE MainScan \/ MainScanRaises \/ MainLooks \/ MainAppends
  <2>1. UNCHANGED <<todo, chosen, rpc, rpacket>>
    BY <1>12 DEF MainScan, MainScanRaises, MainLooks, MainAppends, runs
  <2>2. \E there : place' = [place EXCEPT ![Main] = there] /\ there # "submit"
    BY <1>12 DEF MainScan, MainScanRaises, MainLooks, MainAppends, Goto
  <2> QED
    BY <1>4, <2>1, <2>2, Actors
<1>13. ASSUME NEW w \in Workers, MainRetries(w) PROVE Riding(p)
  <2>1. /\ UNCHANGED <<todo, chosen, rpc, rpacket>>
        /\ place' = [place EXCEPT ![w] = "waiting", ![Main] = "wait"]
    BY <1>13 DEF MainRetries, runs
  <2>2. \A a \in Actor : place'[a] = "submit" => place[a] = "submit"
    BY <1>1, <2>1
  <2> QED
    BY <1>2, <2>1, <2>2
<1>14. CASE Continue
  <2>1. UNCHANGED <<todo, chosen, rpc, rpacket>>
    BY <1>14 DEF Continue
  <2>2. \A a \in Actor : place'[a] = "submit" => place[a] = "submit"
    BY <1>14 DEF Continue
  <2> QED
    BY <1>2, <2>1, <2>2
<1>15. CASE UNCHANGED vars
  BY <1>3, <1>15 DEF vars, actors, runs
<1> QED
  BY <1>5, <1>6, <1>7, <1>8, <1>9, <1>10, <1>11, <1>12, <1>13, <1>14, <1>15
  DEF Next, MainStep, WorkerFinishes, ScheduleStep

(* The steps that leave the list and the sketches alone. *)
LEMMA ListChanges ==
  ASSUME [Next]_vars, ~UNCHANGED <<packet, sketch>>
  PROVE  \/ Rebuild(sketch') /\ \E w \in Workers : WorkerProgress(w) \/ WorkerResult(w)
         \/ \E r \in Run : RunPersists(r) \/ RunFails(r)
         \/ MainAppends \/ Continue
<1>1. CASE UNCHANGED vars
  BY <1>1 DEF vars, ledger
<1>2. ASSUME NEW w \in Workers, WorkerStart(w) \/ WorkerEnds(w) PROVE FALSE
  BY <1>2 DEF WorkerStart, WorkerEnds, ledger
<1>3. ASSUME NEW a \in Actor, ScheduleStep(a) PROVE FALSE
  BY <1>3 DEF ScheduleStep, ReadPackets, PickPacket, Submit, Scheduled, ledger
<1>4. ASSUME NEW r \in Run, RunStart(r) \/ RunSupplements(r) \/ RunBreaks(r) PROVE FALSE
  BY <1>4 DEF RunStart, RunSupplements, RunBreaks, ledger
<1>5. CASE MainScan \/ MainScanRaises \/ MainLooks
  BY <1>5 DEF MainScan, MainScanRaises, MainLooks, ledger
<1>6. ASSUME NEW w \in Workers, MainRetries(w) PROVE FALSE
  BY <1>6 DEF MainRetries, ledger
<1>7. \A w \in Workers : WorkerProgress(w) \/ WorkerResult(w) => Rebuild(sketch')
  BY DEF WorkerProgress, WorkerResult
<1> QED
  BY <1>1, <1>2, <1>3, <1>4, <1>5, <1>6, <1>7 DEF Next, MainStep, WorkerFinishes, RunStep

(* A run settles a packet that is its own. *)
LEMMA RunSettles ==
  ASSUME TypeOK, NEW r \in Run, RunPersists(r) \/ RunFails(r)
  PROVE  \/ UNCHANGED <<packet, sketch>>
         \/ \E p \in Packet :
              /\ Riding(p) /\ rpacket[r] = p
              /\ packet[p] # "none" /\ packet'[p] \in {"completed", "failed"}
              /\ \A q \in Packet : q # p => packet'[q] = packet[q]
              /\ \A i \in Path : /\ i \in p => sketch'[i] \in {"decided", "failed"}
                                 /\ i \notin p => sketch'[i] = sketch[i]
<1>1. /\ rpc[r] = "ask" /\ rpacket[r] \in Packet
      /\ \E s \in {"completed", "failed"}, o \in {"decided", "failed"} : Settle(r, s, o)
  BY DEF RunPersists, RunFails, TypeOK
<1>2. Riding(rpacket[r])
  BY <1>1 DEF Riding
<1>3. PICK s \in {"completed", "failed"}, o \in {"decided", "failed"} : Settle(r, s, o)
  BY <1>1
<1>4. CASE packet[rpacket[r]] = "none" /\ UNCHANGED <<packet, sketch>>
  BY <1>4
<1>5. CASE /\ packet[rpacket[r]] # "none" /\ rpacket[r] \in Packet
           /\ packet'[rpacket[r]] = s /\ \A p \in Packet : p # rpacket[r] => packet'[p] = packet[p]
           /\ \A i \in Path : sketch'[i] = IF i \in rpacket[r] THEN o ELSE sketch[i]
  <2>1. \A i \in Path : /\ i \in rpacket[r] => sketch'[i] \in {"decided", "failed"}
                        /\ i \notin rpacket[r] => sketch'[i] = sketch[i]
    BY <1>5
  <2> QED
    BY <1>2, <1>5, <2>1
<1> QED
  BY <1>3, <1>4, <1>5, Settles

(* The packets that may be validated have no path in common. *)
LEMMA ListIsSound ==
  ASSUME TypeOK, AtRest, Sound(packet), place[Main] = "append" => Sound(seen), [Next]_vars
  PROVE  Sound(packet)'
<1>1. packet \in [Packet -> PacketStatus]
  BY DEF TypeOK
<1>2. CASE UNCHANGED <<packet, sketch>>
  <2>1. \A p \in Packet : packet[p] = "completed" /\ Riding(p)' => Riding(p)
    BY RidingOn
  <2>2. AtRisk(packet)' \subseteq AtRisk(packet)
    BY <1>2, <2>1 DEF AtRisk
  <2>3. Live(packet)' \subseteq Live(packet)
    BY <1>2, <2>2 DEF Live
  <2> QED
    BY <1>2, <2>2, <2>3 DEF Sound, Disjoint
<1>3. CASE Rebuild(sketch')
  <2>1. packet' \in [Packet -> {"queued", "none"}] /\ Disjoint(Open')
    BY <1>3, Rebuilds
  <2>2. AtRisk(packet)' = {}
    BY <2>1 DEF AtRisk
  <2>3. Live(packet)' = Open'
    BY <2>2 DEF Live, Open
  <2> QED
    BY <2>1, <2>2, <2>3 DEF Sound, Disjoint
<1>4. ASSUME NEW r \in Run, RunPersists(r) \/ RunFails(r), ~UNCHANGED <<packet, sketch>>
      PROVE  Sound(packet)'
  <2>1. PICK p \in Packet :
          /\ Riding(p) /\ packet[p] # "none" /\ packet'[p] \in {"completed", "failed"}
          /\ \A q \in Packet : q # p => packet'[q] = packet[q]
          /\ \A i \in Path : /\ i \in p => sketch'[i] \in {"decided", "failed"}
                             /\ i \notin p => sketch'[i] = sketch[i]
    BY <1>4, RunSettles
  <2>2. p \in Live(packet)
    BY <1>1, <2>1 DEF Live, AtRisk, PacketStatus
  <2>3. \A q \in Packet : packet[q] = "completed" /\ Riding(q)' => Riding(q)
    BY RidingOn
  <2>4. AtRisk(packet)' \subseteq AtRisk(packet) \union {p}
    BY <2>1, <2>3 DEF AtRisk
  <2>5. Live(packet)' \subseteq Live(packet)
    BY <2>1, <2>2, <2>4 DEF Live
  <2>6. \A q \in AtRisk(packet)' : \A i \in q : sketch'[i] # "queued"
    <3>1. \A q \in AtRisk(packet) : q \subseteq Path /\ \A i \in q : sketch[i] # "queued"
      BY DEF Sound, AtRisk, Packet
    <3>2. p \subseteq Path
      BY DEF Packet
    <3> QED
      BY <2>1, <2>4, <3>1, <3>2
  <2> QED
    BY <2>5, <2>6 DEF Sound, Disjoint
<1>5. CASE MainAppends
  <2>1. place[Main] = "append" /\ packet' = seen /\ UNCHANGED sketch
    BY <1>5 DEF MainAppends
  <2>2. \A p \in Packet : Riding(p)' => Riding(p)
    <3>1. \A a \in Actor : ~ReadPackets(a)
      BY <2>1, <1>5, Actors DEF ReadPackets, AtRest, AllEnded, Actor, Ended
    <3> QED
      BY <3>1, RidingOn
  <2>3. AtRisk(packet)' \subseteq AtRisk(seen)
    BY <2>1, <2>2 DEF AtRisk
  <2>4. Live(packet)' \subseteq Live(seen)
    BY <2>1, <2>3 DEF Live
  <2> QED
    BY <2>1, <2>3, <2>4 DEF Sound, Disjoint
<1>6. CASE Continue
  <2>1. /\ packet' = [p \in Packet |-> IF packet[p] = "failed" THEN "queued" ELSE packet[p]]
        /\ \A r \in Run : rpc[r] = "off" /\ UNCHANGED <<rpc, todo, chosen>>
        /\ \A a \in Actor : place[a] \in Ended \union {"report", "raised"}
    BY <1>6, Actors DEF Continue, Actor
  <2>2. \A p \in Packet : Riding(p)' => Riding(p)
    <3>1. \A a \in Actor : ~ReadPackets(a)
      BY <2>1 DEF ReadPackets, Ended
    <3> QED
      BY <3>1, RidingOn
  <2>3. \A p \in Packet : ~Riding(p)
    BY <2>1 DEF Riding, AtRest, Ended
  <2>4. AtRisk(packet)' = {}
    BY <1>1, <2>1, <2>2, <2>3 DEF AtRisk
  <2>5. Live(packet)' \subseteq Live(packet)
    BY <1>1, <2>1, <2>4 DEF Live, AtRisk
  <2> QED
    BY <2>4, <2>5 DEF Sound, Disjoint
<1> QED
  BY <1>2, <1>3, <1>4, <1>5, <1>6, ListChanges

(* So have those that main is about to put on the list. *)
LEMMA SeenIsSound ==
  ASSUME TypeOK, AtRest, Sound(packet), place[Main] = "append" => Sound(seen) /\ resumes # 0,
         QueuedIsCovered, [Next]_vars
  PROVE  place'[Main] = "append" => Sound(seen)' /\ resumes' # 0
<1> SUFFICES ASSUME place'[Main] = "append" PROVE Sound(seen)' /\ resumes' # 0
  OBVIOUS
<1>1. /\ packet \in [Packet -> PacketStatus] /\ sketch \in [Path -> {"none", "queued", "decided", "failed"}]
      /\ place \in [Actor -> {"waiting", "work", "wait", "scan", "append", "report", "raised"}
                               \union Scheduling \union Ended]
  BY DEF TypeOK
<1>2. CASE MainLooks
  <2>1. /\ Missing # {} /\ UNCHANGED <<packet, sketch, resumes>> /\ place[Main] = "scan"
        /\ seen' = [p \in Packet |-> IF p \in Build(Missing) THEN "queued" ELSE packet[p]]
    BY <1>1, <1>2, Actors DEF MainLooks, Goto, ledger
  <2>2. resumes # 0
    BY <2>1 DEF QueuedIsCovered, Missing, Covered, Open
  <2>3. Missing \in SUBSET Path /\ \A i \in Missing : sketch[i] = "queued"
    BY DEF Missing, QueuedPaths
  <2>4. Build(Missing) \subseteq SUBSET Missing /\ Disjoint(Build(Missing))
    BY <2>3, Batches
  <2>5. \A p \in Packet : Riding(p)' => Riding(p)
    <3>1. UNCHANGED <<rpc, rpacket, todo, chosen>>
      BY <1>2 DEF MainLooks, runs
    <3>2. \A a \in Actor : place'[a] = "submit" => place[a] = "submit"
      BY <1>1, <1>2, Actors DEF MainLooks, Goto
    <3> QED
      BY <3>1, <3>2 DEF Riding
  <2>6. AtRisk(seen)' \subseteq AtRisk(packet)
    BY <2>1, <2>5 DEF AtRisk
  <2>7. Live(seen)' \subseteq Live(packet) \union Build(Missing)
    BY <2>1, <2>6 DEF Live
  <2>8. ASSUME NEW p \in Live(packet) PROVE p \cap Missing = {}
    <3>1. CASE p \in AtRisk(packet)
      BY <2>3, <3>1 DEF Sound
    <3>2. CASE packet[p] = "queued"
      BY <3>2, <2>8 DEF Missing, Covered, Live, AtRisk
    <3> QED
      BY <3>1, <3>2 DEF Live
  <2>9. Disjoint(Live(seen)')
    <3>1. Disjoint(Live(packet))
      BY DEF Sound
    <3>2. \A p \in Live(packet), q \in Build(Missing) : p \cap q = {} /\ q \cap p = {}
      BY <2>4, <2>8
    <3> QED
      BY <2>4, <2>7, <3>1, <3>2 DEF Disjoint
  <2>10. \A p \in AtRisk(seen)' : \A i \in p : sketch'[i] # "queued"
    BY <2>1, <2>6 DEF Sound
  <2> QED
    BY <2>1, <2>2, <2>9, <2>10 DEF Sound, Disjoint
<1>3. CASE ~MainLooks
  <2>1. place[Main] = "append" /\ UNCHANGED <<seen, resumes>>
    <3>1. ASSUME NEW w \in Workers, WorkerStart(w) \/ WorkerProgress(w) \/ WorkerEnds(w) \/ WorkerResult(w)
          PROVE  place'[Main] = place[Main] /\ UNCHANGED <<seen, resumes>>
      BY <1>1, <3>1, Actors DEF WorkerStart, WorkerProgress, WorkerEnds, WorkerResult, Goto, waitv, actors
    <3>2. ASSUME NEW a \in Actor, ScheduleStep(a)
          PROVE  place[Main] = "append" /\ UNCHANGED <<seen, resumes>>
      BY <1>1, <3>2, Actors
      DEF ScheduleStep, ReadPackets, PickPacket, Submit, Scheduled, Goto, waitv
    <3>3. ASSUME NEW r \in Run, RunStep(r)
          PROVE  place'[Main] = place[Main] /\ UNCHANGED <<seen, resumes>>
      BY <3>3 DEF RunStep, RunStart, RunSupplements, RunBreaks, RunPersists, RunFails, waitv, actors
    <3>4. ~MainScan /\ ~MainScanRaises /\ ~MainAppends /\ ~Continue
      BY <1>1, Actors DEF MainScan, MainScanRaises, MainAppends, Continue, Goto
    <3>5. \A w \in Workers : ~MainRetries(w)
      BY <1>1, Actors DEF MainRetries
    <3>6. CASE UNCHANGED vars
      BY <3>6 DEF vars, actors, waitv
    <3> QED
      BY <1>3, <3>1, <3>2, <3>3, <3>4, <3>5, <3>6 DEF Next, MainStep, WorkerFinishes
  <2>2. \A p \in Packet : Riding(p)' => Riding(p)
    <3>1. \A a \in Actor : ~ReadPackets(a)
      BY <2>1, Actors DEF ReadPackets, AtRest, AllEnded, Actor, Ended
    <3> QED
      BY <3>1, RidingOn
  <2>3. AtRisk(seen)' \subseteq AtRisk(seen) /\ Live(seen)' \subseteq Live(seen)
    BY <2>1, <2>2 DEF AtRisk, Live
  <2>4. \A i \in Path : sketch'[i] = "queued" => sketch[i] = "queued"
    <3>1. \A w \in Workers : ~WorkerProgress(w) /\ ~WorkerResult(w)
      BY <2>1 DEF WorkerProgress, WorkerResult, AtRest, AllEnded, Ended
    <3>2. ~Continue
      BY <2>1 DEF Continue
    <3>3. CASE MainAppends
      BY <3>3 DEF MainAppends
    <3>4. ASSUME NEW r \in Run, RunPersists(r) \/ RunFails(r)
          PROVE  \A i \in Path : sketch'[i] = "queued" => sketch[i] = "queued"
      BY <3>4, RunSettles
    <3> QED
      BY <3>1, <3>2, <3>3, <3>4, ListChanges
  <2>5. \A p \in AtRisk(seen)' : \A i \in p : sketch'[i] # "queued"
    BY <2>1, <2>3, <2>4 DEF Sound, AtRisk, Packet
  <2> QED
    BY <2>1, <2>3, <2>5 DEF Sound, Disjoint
<1> QED
  BY <1>2, <1>3

(* Every path still to be validated stays in a packet that is. *)
LEMMA CoverageKept ==
  ASSUME TypeOK, AtRest, place[Main] = "append" => resumes # 0, QueuedIsCovered, [Next]_vars
  PROVE  QueuedIsCovered'
<1> SUFFICES ASSUME resumes' = 0 \/ place'[Main] = "report"
             PROVE  QueuedPaths(sketch') \subseteq UNION Open'
  BY DEF QueuedIsCovered
<1>1. /\ place \in [Actor -> {"waiting", "work", "wait", "scan", "append", "report", "raised"}
                               \union Scheduling \union Ended]
      /\ packet \in [Packet -> PacketStatus] /\ resumes \in Nat
  BY BoundAssumption DEF TypeOK
<1>2. CASE Rebuild(sketch')
  BY <1>2, Rebuilds
<1>3. CASE MainLooks
  <2>1. /\ UNCHANGED <<packet, sketch, resumes>>
        /\ place'[Main] = "report" => Missing = {}
    BY <1>1, <1>3, Actors DEF MainLooks, Goto, ledger
  <2>2. QueuedPaths(sketch) \subseteq UNION Open
    BY <2>1 DEF QueuedIsCovered, Missing, Covered, Open
  <2> QED
    BY <2>1, <2>2 DEF QueuedPaths, Open
<1>4. CASE MainAppends \/ Continue
  <2>1. place'[Main] = "read"
    BY <1>1, <1>4, Actors DEF MainAppends, Continue, Goto
  <2>2. resumes' # 0
    BY <1>1, <1>4 DEF MainAppends, Continue
  <2> QED
    BY <2>1, <2>2
<1>5. CASE ~Rebuild(sketch') /\ ~MainLooks /\ ~MainAppends /\ ~Continue
  <2>1. /\ UNCHANGED resumes
        /\ place'[Main] = "report" => place[Main] = "report"
    <3>1. ASSUME NEW w \in Workers, WorkerStart(w) \/ WorkerProgress(w) \/ WorkerEnds(w) \/ WorkerResult(w)
          PROVE  place'[Main] = place[Main] /\ UNCHANGED resumes
      BY <1>1, <3>1, Actors DEF WorkerStart, WorkerProgress, WorkerEnds, WorkerResult, Goto, actors
    <3>2. ASSUME NEW a \in Actor, ScheduleStep(a)
          PROVE  UNCHANGED resumes /\ (place'[Main] = "report" => place[Main] = "report")
      BY <1>1, <3>2, Actors
      DEF ScheduleStep, ReadPackets, PickPacket, Submit, Scheduled, Goto
    <3>3. ASSUME NEW r \in Run, RunStep(r)
          PROVE  place'[Main] = place[Main] /\ UNCHANGED resumes
      BY <3>3 DEF RunStep, RunStart, RunSupplements, RunBreaks, RunPersists, RunFails, actors
    <3>4. CASE MainScan \/ MainScanRaises
      BY <1>1, <3>4, Actors DEF MainScan, MainScanRaises, Goto
    <3>5. ASSUME NEW w \in Workers, MainRetries(w)
          PROVE  UNCHANGED resumes /\ place'[Main] # "report"
      BY <1>1, <3>5, Actors DEF MainRetries
    <3>6. CASE UNCHANGED vars
      BY <3>6 DEF vars, actors
    <3> QED
      BY <1>5, <3>1, <3>2, <3>3, <3>4, <3>5, <3>6 DEF Next, MainStep, WorkerFinishes
  <2>2. QueuedPaths(sketch) \subseteq UNION Open
    BY <2>1 DEF QueuedIsCovered
  <2>3. CASE UNCHANGED <<packet, sketch>>
    BY <2>2, <2>3 DEF QueuedPaths, Open
  <2>4. ASSUME NEW p \in Packet,
               \A q \in Packet : q # p => packet'[q] = packet[q],
               \A i \in Path : /\ i \in p => sketch'[i] \in {"decided", "failed"}
                               /\ i \notin p => sketch'[i] = sketch[i]
        PROVE  QueuedPaths(sketch') \subseteq UNION Open'
    <3> SUFFICES ASSUME NEW i \in QueuedPaths(sketch') PROVE \E q \in Open' : i \in q
      OBVIOUS
    <3>1. i \in QueuedPaths(sketch) /\ i \notin p
      BY <2>4 DEF QueuedPaths
    <3>2. PICK q \in Open : i \in q
      BY <2>2, <3>1
    <3> QED
      BY <2>4, <3>1, <3>2 DEF Open
  <2>5. ASSUME NEW r \in Run, RunPersists(r) \/ RunFails(r)
        PROVE  QueuedPaths(sketch') \subseteq UNION Open'
    BY <2>3, <2>4, <2>5, RunSettles
  <2> QED
    BY <1>5, <2>3, <2>5, ListChanges
<1> QED
  BY <1>2, <1>3, <1>4, <1>5

(* Every packet on the list stays in somebody's care. *)
LEMMA CareKept ==
  ASSUME TypeOK, AtRest, \A p \in Open : CaredFor(p), [Next]_vars
  PROVE  \A p \in Open' : CaredFor(p)'
<1> SUFFICES ASSUME NEW p \in Open' PROVE CaredFor(p)'
  OBVIOUS
<1>1. /\ place \in [Actor -> {"waiting", "work", "wait", "scan", "append", "report", "raised"}
                               \union Scheduling \union Ended]
      /\ todo \in [Actor -> SUBSET Packet] /\ chosen \in [Actor -> Packet]
      /\ rpacket \in [Run -> Packet] /\ tracked \subseteq Run
      /\ packet \in [Packet -> PacketStatus]
      /\ p \in Packet
  BY DEF TypeOK, Open
<1>2. ASSUME p \in Open, UNCHANGED <<unscheduled, broken, tracked, rpacket, todo, chosen>>,
             NEW a \in Actor, NEW there, place' = [place EXCEPT ![a] = there],
             place[a] \notin {"read", "submit"} /\ (a = Main => place[a] # "append")
      PROVE  CaredFor(p)'
  <2>1. \A b \in Actor : b # a => place'[b] = place[b]
    BY <1>1, <1>2
  <2>2. CaredFor(p)
    BY <1>2
  <2> QED
    BY <1>2, <2>1, <2>2, Actors DEF CaredFor
<1>3. ASSUME NEW w \in Workers, WorkerStart(w) \/ WorkerEnds(w) PROVE CaredFor(p)'
  <2>1. /\ p \in Open /\ UNCHANGED <<unscheduled, broken, tracked, rpacket, todo, chosen>>
        /\ place[w] \in {"waiting", "work"} /\ \E there : place' = [place EXCEPT ![w] = there]
    BY <1>3 DEF WorkerStart, WorkerEnds, Goto, ledger, runs, Open
  <2> QED
    BY <1>2, <2>1, Actors
<1>4. ASSUME NEW w \in Workers, WorkerProgress(w) PROVE CaredFor(p)'
  <2>1. /\ unscheduled' = {q \in Packet : packet'[q] = "queued" /\ (q \in unscheduled \/ packet[q] # "queued")}
        /\ UNCHANGED <<broken, tracked, rpacket, todo, chosen, place>>
    BY <1>4 DEF WorkerProgress, runs, actors
  <2>2. CASE p \in unscheduled'
    BY <2>2 DEF CaredFor
  <2>3. CASE p \notin unscheduled'
    <3>1. p \in Open /\ p \notin unscheduled
      BY <1>1, <2>1, <2>3 DEF Open
    <3> QED
      BY <2>1, <3>1 DEF CaredFor
  <2> QED
    BY <2>2, <2>3
<1>5. ASSUME NEW w \in Workers, WorkerResult(w) PROVE CaredFor(p)'
  <2>1. place'[w] = "read"
    BY <1>1, <1>5, Actors DEF WorkerResult, Goto
  <2> QED
    BY <2>1, Actors DEF CaredFor
<1>6. ASSUME NEW a \in Actor, ReadPackets(a) PROVE CaredFor(p)'
  <2>1. p \in todo'[a]
    BY <1>1, <1>6 DEF ReadPackets, Open, ledger
  <2> QED
    BY <2>1 DEF CaredFor
<1>7. ASSUME NEW a \in Actor, PickPacket(a) PROVE CaredFor(p)'
  <2>1. PICK q \in todo[a] :
          /\ place[a] = "schedule" /\ todo' = [todo EXCEPT ![a] = todo[a] \ {q}]
          /\ \/ UNCHANGED <<chosen, place>> /\ ~Free(q)
             \/ chosen' = [chosen EXCEPT ![a] = q] /\ place' = [place EXCEPT ![a] = "submit"]
    BY <1>7 DEF PickPacket, Goto
  <2>2. UNCHANGED <<unscheduled, broken, tracked, rpacket, packet>> /\ p \in Open
    BY <1>7 DEF PickPacket, ledger, runs, Open
  <2>3. CASE p = q
    <3>1. CASE ~Free(q)
      BY <2>2, <2>3, <3>1 DEF Free, CaredFor
    <3>2. CASE chosen' = [chosen EXCEPT ![a] = q] /\ place' = [place EXCEPT ![a] = "submit"]
      BY <1>1, <2>3, <3>2 DEF CaredFor
    <3> QED
      BY <2>1, <3>1, <3>2
  <2>4. CASE p # q
    <3>1. \A b \in Actor : /\ p \in todo[b] => p \in todo'[b]
                           /\ place[b] = "submit" /\ chosen[b] = p => place'[b] = "submit" /\ chosen'[b] = p
                           /\ place[b] = "read" => place'[b] = "read"
                           /\ place[b] = "append" => place'[b] = "append"
      BY <1>1, <2>1, <2>4
    <3>2. CaredFor(p)
      BY <2>2
    <3> QED
      BY <2>2, <3>1, <3>2, Actors DEF CaredFor
  <2> QED
    BY <2>3, <2>4
<1>8. ASSUME NEW a \in Actor, Submit(a) PROVE CaredFor(p)'
  <2>1. PICK r \in Run : /\ rpacket' = [rpacket EXCEPT ![r] = chosen[a]]
                         /\ tracked' = {q \in tracked : rpacket[q] # chosen[a]} \union {r}
                         /\ rpc[r] = "off"
    BY <1>8 DEF Submit
  <2>2. /\ place[a] = "submit" /\ UNCHANGED <<todo, broken, unscheduled, packet>> /\ p \in Open
        /\ chosen' = [chosen EXCEPT ![a] = {}] /\ place' = [place EXCEPT ![a] = "schedule"]
    BY <1>8 DEF Submit, Goto, ledger, Open
  <2>3. r \notin tracked
    BY <2>1 DEF TypeOK
  <2>4. CASE p = chosen[a]
    BY <1>1, <2>1, <2>4 DEF CaredFor
  <2>5. CASE p # chosen[a]
    <3>1. \A q \in tracked : rpacket[q] = p => q \in tracked' /\ rpacket'[q] = p
      BY <1>1, <2>1, <2>3, <2>5
    <3>2. \A b \in Actor : /\ place[b] = "submit" /\ chosen[b] = p => place'[b] = "submit" /\ chosen'[b] = p
                           /\ place[b] = "read" => place'[b] = "read"
                           /\ place[b] = "append" => place'[b] = "append"
      BY <1>1, <2>2, <2>5
    <3>3. CaredFor(p)
      BY <2>2
    <3> QED
      BY <2>2, <3>1, <3>2, <3>3, Actors DEF CaredFor
  <2> QED
    BY <2>4, <2>5
<1>9. ASSUME NEW a \in Actor, Scheduled(a) PROVE CaredFor(p)'
  <2>1. /\ p \in Open /\ UNCHANGED <<unscheduled, broken, tracked, rpacket, todo, chosen>>
        /\ place[a] = "schedule" /\ \E there : place' = [place EXCEPT ![a] = there]
    BY <1>9 DEF Scheduled, Goto, ledger, runs, Open
  <2> QED
    BY <1>2, <2>1
<1>10. ASSUME NEW r \in Run, UNCHANGED <<unscheduled, todo, chosen, place>>, broken \subseteq broken',
              p \in Open,
              \/ UNCHANGED <<tracked, rpacket>>
              \/ RunEnds(r) /\ (rpacket[r] # p \/ p \in broken')
       PROVE  CaredFor(p)'
  <2>1. CaredFor(p)
    BY <1>10
  <2>2. CASE UNCHANGED <<tracked, rpacket>>
    BY <1>10, <2>1, <2>2 DEF CaredFor
  <2>3. CASE p \in broken'
    BY <2>3 DEF CaredFor
  <2>4. CASE RunEnds(r) /\ rpacket[r] # p
    <3>1. \A q \in tracked : rpacket[q] = p => q \in tracked' /\ rpacket'[q] = p
      BY <1>1, <2>4, RunIsOff
    <3> QED
      BY <1>10, <2>1, <3>1 DEF CaredFor
  <2> QED
    BY <1>10, <2>2, <2>3, <2>4
<1>11. ASSUME NEW r \in Run, RunStart(r) \/ RunSupplements(r) PROVE CaredFor(p)'
  <2>1. UNCHANGED <<packet, unscheduled, broken, todo, chosen, place>> /\ p \in Open
    BY <1>11 DEF RunStart, RunSupplements, ledger, actors, Open
  <2>2. UNCHANGED <<tracked, rpacket>> \/ (RunEnds(r) /\ packet[rpacket[r]] = "none")
    BY <1>11 DEF RunStart, RunSupplements, Dropped
  <2>3. packet[p] = "queued"
    BY <2>1 DEF Open
  <2> QED
    BY <1>10, <2>1, <2>2, <2>3
<1>12. ASSUME NEW r \in Run, RunBreaks(r) PROVE CaredFor(p)'
  <2>1. /\ UNCHANGED <<packet, unscheduled, todo, chosen, place>> /\ p \in Open
        /\ broken' = broken \union {rpacket[r]} /\ RunEnds(r)
    BY <1>12 DEF RunBreaks, ledger, actors, Open
  <2> QED
    BY <1>10, <2>1
<1>13. ASSUME NEW r \in Run, RunPersists(r) \/ RunFails(r) PROVE CaredFor(p)'
  <2>1. UNCHANGED <<unscheduled, broken, todo, chosen, place>> /\ RunEnds(r)
    BY <1>13 DEF RunPersists, RunFails, actors
  <2>2. p \in Open /\ rpacket[r] # p
    <3>1. CASE packet[rpacket[r]] = "none" /\ UNCHANGED packet
      BY <3>1 DEF Open
    <3>2. ASSUME packet'[rpacket[r]] \in {"completed", "failed"},
                 \A q \in Packet : q # rpacket[r] => packet'[q] = packet[q]
          PROVE  p \in Open /\ rpacket[r] # p
      BY <3>2 DEF Open
    <3>3. \E s \in {"completed", "failed"}, o \in {"decided", "failed"} : Settle(r, s, o)
      BY <1>13 DEF RunPersists, RunFails
    <3> QED
      BY <3>1, <3>2, <3>3, Settles
  <2> QED
    BY <1>10, <2>1, <2>2
<1>14. CASE MainScan \/ MainScanRaises
  <2>1. /\ p \in Open /\ UNCHANGED <<unscheduled, broken, tracked, rpacket, todo, chosen>>
        /\ place[Main] \in {"wait", "scan"} /\ \E there : place' = [place EXCEPT ![Main] = there]
    BY <1>14 DEF MainScan, MainScanRaises, Goto, ledger, runs, Open
  <2> QED
    BY <1>2, <2>1, Actors
<1>15. CASE MainLooks
  <2>1. /\ p \in Open /\ UNCHANGED <<unscheduled, broken, tracked, rpacket, todo, chosen>>
        /\ place[Main] = "scan" /\ \E there : place' = [place EXCEPT ![Main] = there]
    <3>1. \E there : place' = [place EXCEPT ![Main] = there]
      BY <1>15 DEF MainLooks, Goto
    <3> QED
      BY <1>15, <3>1 DEF MainLooks, ledger, runs, Open
  <2> QED
    BY <1>2, <2>1, Actors
<1>16. CASE MainAppends \/ Continue
  <2>1. place'[Main] = "read"
    BY <1>1, <1>16, Actors DEF MainAppends, Continue, Goto
  <2> QED
    BY <2>1, Actors DEF CaredFor
<1>17. ASSUME NEW w \in Workers, MainRetries(w) PROVE CaredFor(p)'
  <2>1. /\ p \in Open /\ UNCHANGED <<unscheduled, broken, tracked, rpacket, todo, chosen>>
        /\ place[Main] = "scan" /\ place[w] = "failed"
        /\ place' = [place EXCEPT ![w] = "waiting", ![Main] = "wait"]
    BY <1>17 DEF MainRetries, Retryable, ledger, runs, Open
  <2>2. \A b \in Actor : /\ place[b] = "submit" => place'[b] = "submit"
                         /\ place[b] = "read" => place'[b] = "read"
    BY <1>1, <2>1
  <2>3. CaredFor(p)
    BY <2>1
  <2> QED
    BY <2>1, <2>2, <2>3 DEF CaredFor
<1>18. CASE UNCHANGED vars
  <2>1. p \in Open
    BY <1>18 DEF vars, ledger, Open
  <2> QED
    BY <1>18, <2>1 DEF vars, ledger, runs, actors, CaredFor
<1> QED
  BY <1>3, <1>4, <1>5, <1>6, <1>7, <1>8, <1>9, <1>11, <1>12, <1>13, <1>14, <1>15, <1>16, <1>17, <1>18
  DEF Next, MainStep, WorkerFinishes, ScheduleStep, RunStep

(* PacketInv holds of every reachable state. *)
LEMMA PacketInvariant ==
  Spec => []PacketInv
<1>1. Init => PacketInv
  <2> SUFFICES ASSUME Init PROVE PacketInv
    OBVIOUS
  <2>1. TypeOK
    <3>1. {} \in Packet /\ NoPackets \in [Packet -> PacketStatus]
      BY DEF Packet, NoPackets, PacketStatus
    <3>2. /\ rpacket \in [Run -> Packet] /\ todo \in [Actor -> SUBSET Packet]
          /\ chosen \in [Actor -> Packet] /\ packet \in [Packet -> PacketStatus]
          /\ seen \in [Packet -> PacketStatus]
      BY <3>1 DEF Init
    <3>3. place \in [Actor -> {"waiting", "work", "wait", "scan", "append", "report", "raised"}
                                \union Scheduling \union Ended]
      BY DEF Init
    <3>4. resumes \in 0..MaxResumes
      BY BoundAssumption DEF Init
    <3>5. grew \in BOOLEAN
      BY DEF Init
    <3>6. /\ unscheduled = {} /\ tracked = {} /\ keys = {} /\ broken = {} /\ retried = {}
          /\ sketch \in [Path -> {"none", "queued", "decided", "failed"}]
          /\ rpc \in [Run -> {"off", "waiting", "supplement", "ask"}]
          /\ \A r \in Run : rpc[r] = "off" => rpacket[r] = {} /\ r \notin tracked
      BY DEF Init
    <3> QED
      BY <3>2, <3>3, <3>4, <3>5, <3>6 DEF TypeOK
  <2>2. AtRest /\ place[Main] # "append" /\ resumes = 0
    BY Actors DEF Init, AtRest
  <2>3. \A p \in Packet : packet[p] = "none"
    BY DEF Init, NoPackets
  <2>4. Sound(packet) /\ Open = {}
    BY <2>3 DEF Sound, Live, AtRisk, Disjoint, Open
  <2>5. QueuedIsCovered
    BY DEF Init, QueuedIsCovered, QueuedPaths
  <2> QED
    BY <2>1, <2>2, <2>4, <2>5 DEF PacketInv
<1>2. PacketInv /\ [Next]_vars => PacketInv'
  <2> SUFFICES ASSUME PacketInv, [Next]_vars PROVE PacketInv'
    OBVIOUS
  <2>1. TypeOK' /\ AtRest'
    BY Typing, Resting DEF PacketInv
  <2>2. Sound(packet)'
    BY ListIsSound DEF PacketInv
  <2>3. place'[Main] = "append" => Sound(seen)' /\ resumes' # 0
    BY SeenIsSound DEF PacketInv
  <2>4. QueuedIsCovered'
    BY CoverageKept DEF PacketInv
  <2>5. \A p \in Open' : CaredFor(p)'
    BY CareKept DEF PacketInv
  <2> QED
    BY <2>1, <2>2, <2>3, <2>4, <2>5 DEF PacketInv
<1> QED
  BY <1>1, <1>2, PTL DEF Spec

(* Every variable of the path pipeline keeps its type. *)
THEOREM TypeCorrect ==
  Spec => []TypeOK
<1>1. PacketInv => TypeOK
  BY DEF PacketInv
<1> QED
  BY <1>1, PacketInvariant, PTL

(* No path is in two packets that are to be validated, although the list is rebuilt,
   and settled by runs nobody waits for, while main reads it and writes it back. *)
THEOREM NoPathTwice ==
  Spec => []PacketsDisjoint
<1>1. PacketInv => PacketsDisjoint
  BY DEF PacketInv, Sound, Live, Disjoint, PacketsDisjoint, Open
<1> QED
  BY <1>1, PacketInvariant, PTL

(* Until the audit is continued, and again when main has waited, every path still to
   be validated is in a packet. *)
THEOREM NoPathWithoutPacket ==
  Spec => []QueuedIsCovered
<1>1. PacketInv => QueuedIsCovered
  BY DEF PacketInv
<1> QED
  BY <1>1, PacketInvariant, PTL

(* When main goes on to its report, a packet is left only if a progress report brought
   it, or if its run broke off: somebody cared for every other one, and has ended. *)
THEOREM OnlyKnownLeftovers ==
  Spec => []NothingForgotten
<1>1. PacketInv => NothingForgotten
  <2> SUFFICES ASSUME PacketInv, place[Main] = "report", NEW p \in Open
               PROVE  p \in unscheduled \union broken
    BY DEF NothingForgotten
  <2>1. AllEnded /\ tracked = {} /\ CaredFor(p)
    BY DEF PacketInv, AtRest
  <2>2. \A a \in Actor : todo[a] = {} /\ place[a] \notin {"submit", "read"}
    BY <2>1 DEF PacketInv, AtRest, AllEnded, Actor, Ended
  <2> QED
    BY <2>1, <2>2 DEF CaredFor
<1> QED
  BY <1>1, PacketInvariant, PTL
=============================================================================
