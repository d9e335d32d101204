---------------------------- MODULE MCAgentTeam ----------------------------
(***************************************************************************)
(* An instance of AgentTeam for TLC in which one outside event at most     *)
(* strikes an audit, at any moment: the user cancels it, or its time is    *)
(* up.  The code asks for both in the same place (check_running), so the   *)
(* second of them finds the team stopping already.                         *)
(***************************************************************************)
EXTENDS AgentTeam

MCNext ==
  \/ MainStep \/ MainGivesUp
  \/ Outside /\ ~Over
  \/ \E w \in Worker : WorkerStep(w)
  \/ \E c \in Candidates : ReviewStep(c)

MCSpec == Init /\ [][MCNext]_vars

MCFairSpec == MCSpec /\ Fairness
=============================================================================
