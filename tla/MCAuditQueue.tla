---------------------------- MODULE MCAuditQueue ----------------------------
(***************************************************************************)
(* Instances of AuditQueue for TLC.  `upsets` counts what may disturb the  *)
(* plain course of creating and executing tasks: a crash, a shutdown, a    *)
(* cancel, a recovery, a factory that fails.                               *)
(***************************************************************************)
EXTENDS AuditQueue, TLC

CONSTANTS MaxUpsets
VARIABLE upsets

ProcSymmetry == Permutations(Procs)

UpsetProc(p) == Crash(p) \/ Close(p) \/ Trouble(p)
UpsetReq(r) == \E t \in Task : Cancel(r, t) \/ RecoverRead(r, t)

MCInit == Init /\ upsets = 0

MCNext ==
  \/ /\ upsets < MaxUpsets /\ upsets' = upsets + 1
     /\ \/ \E p \in Procs : UpsetProc(p)
        \/ \E r \in Req : UpsetReq(r)
  \/ /\ UNCHANGED upsets
     /\ \/ \E p \in Procs : Start(p) \/ Run(p) \/ Renew(p) \/ Work(p)
        \/ \E r \in Req : Create(r) \/ Resume(r) \/ Answer(r)
        \/ \E t \in Task : LeaseLapse(t)

MCSpec == MCInit /\ [][MCNext]_<<vars, upsets>>
MCFairSpec == MCSpec /\ Fairness
=============================================================================
