-------------------------- MODULE MCSlotPersistence --------------------------
(***************************************************************************)
(* Instances of SlotPersistence for TLC: two logs, two goroutines, two     *)
(* slots besides the directory.                                            *)
(***************************************************************************)
EXTENDS SlotPersistence, TLC

CONSTANTS logA, logB, p1, p2

TwoLogs == {logA, logB}
TwoProcs == {p1, p2}

LogsAndProcs == Permutations(TwoLogs) \cup Permutations(TwoProcs)
=============================================================================
