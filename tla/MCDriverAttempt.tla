--------------------------- MODULE MCDriverAttempt ---------------------------
(* DriverAttempt is finite as it is: one attempt, every outcome, an engine   *)
(* that may exit at every step.                                             *)
EXTENDS DriverAttempt
=============================================================================
