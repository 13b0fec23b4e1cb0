-------------------------- MODULE MCUsageCollector --------------------------
(***************************************************************************)
(* Instances of UsageCollector for TLC: clock samples on both sides of the *)
(* half millisecond and of the longest duration.                           *)
(***************************************************************************)
EXTENDS UsageCollector

ShortTimes == {0, 499, 500, 1500}
=============================================================================
