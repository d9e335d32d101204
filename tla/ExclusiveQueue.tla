--------------------------- MODULE ExclusiveQueue ---------------------------
(***************************************************************************)
(* What the index queue and the audit queue promise, with nothing of how   *)
(* they do it: jobs are executed one at a time, in the order in which they *)
(* came, each once at most, and never during a synchronous call.  No       *)
(* tables, leases, locks, threads or processes; IndexJobs, and AuditQueue  *)
(* of one process, which has no such call, are shown to implement it.      *)
(***************************************************************************)
EXTENDS Naturals

CONSTANT Jobs       \* the places in the order of arrival, 1 to some number

VARIABLES place,    \* of each job
          sync      \* a synchronous call is under way

Place == {"absent", "waiting", "executing", "over"}
At(where) == {j \in Jobs : place[j] = where}

Init == place = [j \in Jobs |-> "absent"] /\ sync = FALSE

Move(j, from, to) ==
  /\ place[j] = from
  /\ place' = [place EXCEPT ![j] = to]
  /\ UNCHANGED sync

\* A job comes after all that came before.
Enter(j) == Move(j, "absent", "waiting") /\ \A i \in At("absent") : j <= i

\* The oldest waiting job is taken while nothing else is under way.
Take(j) ==
  /\ Move(j, "waiting", "executing")
  /\ \A i \in At("waiting") : j <= i
  /\ At("executing") = {} /\ ~sync

\* It ends, well or badly, and is never taken again.
Leave(j) == Move(j, "executing", "over")

\* A job may be withdrawn as long as it waits.
Withdraw(j) == Move(j, "waiting", "over")

SyncStart == At("executing") = {} /\ ~sync /\ sync' = TRUE /\ UNCHANGED place
SyncEnd == sync /\ sync' = FALSE /\ UNCHANGED place

Next == \/ \E j \in Jobs : Enter(j) \/ Take(j) \/ Leave(j) \/ Withdraw(j)
        \/ SyncStart \/ SyncEnd

Spec == Init /\ [][Next]_<<place, sync>>
=============================================================================
