----------------------------- MODULE MCScanLogs -----------------------------
(***************************************************************************)
(* ScanLogs for TLC: two logs in one block, empty stretches longer than a  *)
(* chunk, logs in the first and the last block, every range within blocks  *)
(* 0 to 9, and every limit from 0 (a node that rejects all ranges) on.     *)
(***************************************************************************)
EXTENDS ScanLogs, SequencesExt

MCChain == <<0, 2, 3, 3, 4, 8, 9>>
MCNodeLimits == 0 .. 8

\* GetLogs, the contiguous piece of the chain, is what filtering the chain gives.
ASSUME GetLogsFilters ==
  \A f \in 0 .. LastBlock, t \in 0 .. LastBlock :
    GetLogs(f, t) =
      SelectSeq([i \in 1 .. Len(Chain) |-> i], LAMBDA i : f <= Chain[i] /\ Chain[i] <= t)
=============================================================================
