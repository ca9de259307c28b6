------------------------------ MODULE MCIoTrace ------------------------------
(* Instances of IoTrace for TLC.  Callers and targets are interchangeable.  *)
EXTENDS IoTrace, TLC

IoTraceSymmetry == Permutations(Callers) \cup Permutations(Targets)
===============================================================================
