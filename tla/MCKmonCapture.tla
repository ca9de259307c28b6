---------------------------- MODULE MCKmonCapture ----------------------------
(* Instances of KmonCapture for TLC: a kernel request and a user request,   *)
(* of three pages each.                                                     *)
EXTENDS KmonCapture

CONSTANTS k1, k2

MCKeys == {k1, k2}
MCKernelKeys == {k1}
MCPages == [k \in MCKeys |-> 3]
===============================================================================
