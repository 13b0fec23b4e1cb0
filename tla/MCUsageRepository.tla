------------------------- MODULE MCUsageRepository -------------------------
(***************************************************************************)
(* Instances of UsageRepository for TLC: two records compete for one id, a *)
(* third has an id of its own, another session and the time of the first.  *)
(***************************************************************************)
EXTENDS UsageRepository

First  == [id |-> 1, session |-> "s1", completed_at |-> 5]
Rival  == [id |-> 1, session |-> "s1", completed_at |-> 7]
Second == [id |-> 2, session |-> "s2", completed_at |-> 5]

RivalRecords == {First, Rival, Second}

\* A query sorts what it found and cuts the result at its limit.
ASSUME SelectedSortsAndCuts ==
  \A S \in SUBSET RivalRecords, n \in 1 .. 3 :
    LET sorted == SetToSortSeq(S, NewestFirst)
    IN Selected(S, n) = SubSeq(sorted, 1, IF Len(sorted) < n THEN Len(sorted) ELSE n)
=============================================================================
