---------------------------- MODULE MCEngineSampler ----------------------------
(* EngineSampler for an engine that begins with two processes and may fork a  *)
(* third, which gets the pid of one that is gone: there are two pids only.    *)
EXTENDS EngineSampler, TLC

\* Bound: steps of the engine and failing reads together.
FewUpsets == moves + faults <= 2
=============================================================================
