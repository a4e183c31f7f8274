------------------------------ MODULE MCScoredRun ------------------------------
(* ScoredRun with Chrome, two candidates, and two tasks of one capability.    *)
EXTENDS ScoredRun

MCEngineOrder == <<"chrome", "moli", "lightpanda">>
=============================================================================
