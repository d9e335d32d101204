----------------------------- MODULE MCIndexJobs -----------------------------
(***************************************************************************)
(* Instances of IndexJobs for TLC.  `upsets` counts what may disturb the   *)
(* plain course of creating and executing jobs: a crash, a shutdown, a     *)
(* cancel, a recovery, a synchronous index call.  At most MaxUpsets of     *)
(* them happen in a behaviour, to the processes of Disturbed, in any order *)
(* and at any moment.                                                      *)
(***************************************************************************)
EXTENDS IndexJobs, TLC

CONSTANTS MaxUpsets, Disturbed
VARIABLE upsets

ProcSymmetry == Permutations(Procs)

Upset(p) ==
  \/ Crash(p) \/ Close(p) \/ ExclusiveStart(p)
  \/ \E j \in Job : CancelRead(p, j) \/ RecoverRead(p, j)

Undisturbed(p) ==
  Start(p) \/ Create(p) \/ Resume(p) \/ Continue(p) \/ Work(p) \/ Renew(p)

MCInit == Init /\ upsets = 0

MCNext ==
  \/ \E p \in Disturbed : /\ Upset(p)
                          /\ upsets < MaxUpsets
                          /\ upsets' = upsets + 1
  \/ \E p \in Procs : Undisturbed(p) /\ UNCHANGED upsets
  \/ \E j \in Job : LeaseLapse(j) /\ UNCHANGED upsets

MCSpec == MCInit /\ [][MCNext]_<<vars, upsets>>

MCFairSpec == MCSpec /\ Fairness
==============================================================================
