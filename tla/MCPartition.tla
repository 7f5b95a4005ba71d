----------------------------- MODULE MCPartition -----------------------------
(***************************************************************************)
(* Partition with two goroutines.                                          *)
(***************************************************************************)
EXTENDS Partition

CONSTANTS u1, u2

TwoUsers == {u1, u2}
=============================================================================
