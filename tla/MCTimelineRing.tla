---------------------------- MODULE MCTimelineRing ----------------------------
(* An instance of TimelineRing for TLC: rings of three and four slots, and  *)
(* requests that are defaulted, raised to the minimum and cut to the        *)
(* maximum.                                                                 *)
EXTENDS TimelineRing
===============================================================================
