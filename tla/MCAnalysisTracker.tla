--------------------------- MODULE MCAnalysisTracker ---------------------------
(* One job behind a link, another that is submitted, four moves of the user. *)
EXTENDS AnalysisTracker
================================================================================
