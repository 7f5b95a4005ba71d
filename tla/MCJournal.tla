----------------------------- MODULE MCJournal -----------------------------
(***************************************************************************)
(* Instances of Journal for TLC.  Blocks of 64 bytes leave room for 16     *)
(* bytes of data after the 48-byte header, so that payloads of 16, 17 and  *)
(* 81 bytes make records of 1, 2 and 3 blocks.                             *)
(***************************************************************************)
EXTENDS Journal, TLC

CONSTANTS small, medium, other, large, huge

\* Two payloads of one size: a retry may carry other data than the failed write.
Payloads == {small, medium, other, large, huge}

PayloadLen == (small :> 16) @@ (medium :> 17) @@ (other :> 17)
                 @@ (large :> 81) @@ (huge :> 1000)

\* One payload of each size that a journal of five blocks takes, and one too large.
OnePerSize == {small, medium, huge}
OnePerSizeLen == [d \in OnePerSize |-> PayloadLen[d]]

OtherSymmetry == Permutations({medium, other})
=============================================================================
