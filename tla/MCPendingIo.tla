------------------------------ MODULE MCPendingIo ------------------------------
(* Instances of PendingIo for TLC.  Operations, requests, targets and clients *)
(* are interchangeable.                                                       *)
EXTENDS PendingIo, TLC

PendingSymmetry ==
  Permutations(Ops) \cup Permutations(Reads) \cup Permutations(Ios \ Reads)
  \cup Permutations(Targets) \cup Permutations(ClientIds)
===============================================================================
