--------------------------- MODULE CheckpointStore ---------------------------
(***************************************************************************)
(* What the witness expects of its persistence: for every log the size of  *)
(* the checkpoint it has last recorded, 0 if there is none.  Sizes grow,   *)
(* one log at a time, and nothing else happens, restarts included.         *)
(***************************************************************************)
EXTENDS Naturals

CONSTANT Logs

VARIABLE latest

Init == latest \in [Logs -> Nat]

\* A larger checkpoint of log l is recorded, the other logs keep theirs.
Record(l) == /\ latest'[l] > latest[l]
             /\ latest' = [latest EXCEPT ![l] = latest'[l]]

Next == \E l \in Logs : Record(l)

Spec == Init /\ [][Next]_latest
=============================================================================
