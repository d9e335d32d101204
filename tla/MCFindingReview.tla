-------------------------- MODULE MCFindingReview --------------------------
(***************************************************************************)
(* FindingReview with two candidates for the same HTTP route, the reviews  *)
(* of which both look up the same imported type; the second also depends   *)
(* on the build configuration.                                             *)
(***************************************************************************)
EXTENDS FindingReview

MCNeeds == <<{<<"batch", 0>>}, Extra>>
MCRoutes == <<{"GET /orders"}, {"GET /orders", "POST /orders"}>>
MCPlace == <<"", "">>
=============================================================================
