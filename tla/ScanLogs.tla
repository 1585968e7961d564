------------------------------ MODULE ScanLogs ------------------------------
(***************************************************************************)
(* ethrpc.Client.ScanLogs (internal/ethrpc/logs.go): a scan of a block     *)
(* range for logs, in chunks that a node accepts whose limit on the range  *)
(* of eth_getLogs is unknown.                                              *)
(*                                                                         *)
(* A log is abstracted to the block it is in and its position on the       *)
(* chain, so logs that the filter doesn't match are left out. Block        *)
(* numbers are far below 2^64, so from + step - 1 doesn't wrap.            *)
(***************************************************************************)
EXTENDS Integers, Sequences

CONSTANTS
  MaxLogRange,   \* maxLogRange, the first step
  MinLogRange,   \* minLogRange, the smallest step that halving reaches
  LastBlock,     \* bound: filters end at LastBlock or before
  Chain,         \* the blocks of the logs that match the filter, in chain order
  NodeLimits,    \* the range limits that the node may have
  MaxFaults      \* bound: calls that fail for another reason than the limit

ASSUME RangeAssumption ==
  /\ MinLogRange \in Nat \ {0}
  /\ MaxLogRange \in Nat
  /\ MinLogRange <= MaxLogRange
  /\ LastBlock \in Nat
  /\ NodeLimits \subseteq Nat
  /\ MaxFaults \in Nat

\* A node returns logs in block order, so the logs up to a block are a prefix.
ASSUME ChainAssumption ==
  /\ Chain \in Seq(Nat)
  /\ \A b \in -1 .. LastBlock :
       \E n \in 0 .. Len(Chain) :
         \A i \in 1 .. Len(Chain) : i <= n <=> Chain[i] <= b

VARIABLES
  filter,        \* the filter's FromBlock and ToBlock
  limit,         \* the node's range limit, which the client doesn't know
  faults,        \* how many calls failed although the range was acceptable
  pc,            \* "ask" the node, "yield" its logs, or a final value
  step,          \* the size of the chunks
  from,          \* the first block of the chunk
  chunkTo,       \* the last block of the chunk whose logs are yielded
  logs,          \* the positions of the chunk's logs that are yet to be yielded
  yielded        \* the positions of the logs that the consumer got

node == <<filter, limit>>
vars == <<node, faults, pc, step, from, chunkTo, logs, yielded>>

Lower(a, b) == IF a <= b THEN a ELSE b
Higher(a, b) == IF a >= b THEN a ELSE b

\* The number of logs in blocks up to b, and the positions of the logs in blocks
\* f to t: the answer of eth_getLogs for that range.
CountUpTo(b) ==
  CHOOSE n \in 0 .. Len(Chain) : \A i \in 1 .. Len(Chain) : i <= n <=> Chain[i] <= b

GetLogs(f, t) ==
  [k \in 1 .. CountUpTo(t) - CountUpTo(f - 1) |-> CountUpTo(f - 1) + k]

Filters == [from : 0 .. LastBlock, to : 0 .. LastBlock]

Final == {"done", "failed", "stopped"}

TypeOK ==
  /\ filter \in Filters
  /\ limit \in NodeLimits
  /\ faults \in 0 .. MaxFaults
  /\ pc \in {"ask", "yield"} \cup Final
  /\ step \in MinLogRange .. MaxLogRange
  /\ from \in Nat
  /\ chunkTo \in Int
  /\ logs \in Seq(Nat)
  /\ yielded \in Seq(Nat)

Init ==
  /\ filter \in Filters
  /\ limit \in NodeLimits
  /\ faults = 0
  /\ pc = IF filter.from <= filter.to THEN "ask" ELSE "done"
  /\ step = MaxLogRange
  /\ from = filter.from
  /\ chunkTo = filter.from - 1
  /\ logs = <<>>
  /\ yielded = <<>>

\* The last block of the chunk that the client asks for.
ChunkTo == Lower(from + step - 1, filter.to)

\* Mutants: the next chunk starts in the last block of this one, or skips a block.
EndChunkOverlaps(t) ==
  IF t = filter.to
  THEN pc' = "done" /\ UNCHANGED from
  ELSE pc' = "ask" /\ from' = t
EndChunkSkips(t) ==
  IF t >= filter.to
  THEN pc' = "done" /\ UNCHANGED from
  ELSE pc' = "ask" /\ from' = Lower(t + 2, filter.to)

\* A chunk whose logs are all yielded ends the scan or moves it to the next chunk.
EndChunk(t) ==
  IF t = filter.to
  THEN pc' = "done" /\ UNCHANGED from
  ELSE pc' = "ask" /\ from' = t + 1

\* The node answers with the logs of the chunk.
AnswerLogs ==
  /\ pc = "ask"
  /\ ChunkTo - from + 1 <= limit
  /\ chunkTo' = ChunkTo
  /\ logs' = GetLogs(from, ChunkTo)
  /\ IF logs' = <<>> THEN EndChunk(ChunkTo) ELSE pc' = "yield" /\ UNCHANGED from
  /\ UNCHANGED <<node, faults, step, yielded>>

\* Mutants: giving up when halving would go below minLogRange, and retrying at
\* minLogRange forever.
GiveUpEarly ==
  /\ IF step \div 2 >= MinLogRange
     THEN step' = step \div 2 /\ UNCHANGED pc
     ELSE pc' = "failed" /\ UNCHANGED step
  /\ UNCHANGED <<node, from, chunkTo, logs, yielded>>
RetryForever ==
  /\ step' = Higher(step \div 2, MinLogRange)
  /\ UNCHANGED <<node, pc, from, chunkTo, logs, yielded>>

\* A JSON-RPC error halves the step, unless it is the smallest already.
HandleRPCError ==
  /\ IF step > MinLogRange
     THEN step' = Higher(step \div 2, MinLogRange) /\ UNCHANGED pc
     ELSE pc' = "failed" /\ UNCHANGED step
  /\ UNCHANGED <<node, from, chunkTo, logs, yielded>>

\* The node rejects a chunk that is over its limit.
AnswerTooWide ==
  /\ pc = "ask"
  /\ ChunkTo - from + 1 > limit
  /\ HandleRPCError
  /\ UNCHANGED faults

\* The node answers with a JSON-RPC error for another reason, such as a rate
\* limit or a missing block, which ScanLogs can't tell from its range limit.
AnswerOtherError ==
  /\ pc = "ask"
  /\ faults < MaxFaults
  /\ HandleRPCError
  /\ faults' = faults + 1

\* The call fails without a JSON-RPC answer.
CallFails ==
  /\ pc = "ask"
  /\ faults < MaxFaults
  /\ faults' = faults + 1
  /\ pc' = "failed"
  /\ UNCHANGED <<node, step, from, chunkTo, logs, yielded>>

\* The consumer gets the next log of the chunk, and reads on or stops.
YieldLog ==
  /\ pc = "yield"
  /\ yielded' = Append(yielded, Head(logs))
  /\ logs' = Tail(logs)
  /\ \/ logs' = <<>> /\ EndChunk(chunkTo)
     \/ logs' # <<>> /\ UNCHANGED <<pc, from>>
     \/ pc' = "stopped" /\ UNCHANGED from
  /\ UNCHANGED <<node, faults, step, chunkTo>>

Finished == pc \in Final /\ UNCHANGED vars

Next == AnswerLogs \/ AnswerTooWide \/ AnswerOtherError \/ CallFails \/ YieldLog \/ Finished

Spec == Init /\ [][Next]_vars
FairSpec == Spec /\ WF_vars(Next)
-----------------------------------------------------------------------------
\* ScanLogs is a log stream over the logs of the filter's whole range: however
\* the chunks fall and whatever the node answers, the consumer never sees a log
\* twice, out of order, or after a gap, and a scan that completes has shown all.
Status == IF pc \in Final THEN pc ELSE "open"

Stream == INSTANCE LogStream WITH
  expected <- GetLogs(filter.from, filter.to), status <- Status

StreamSpec == Stream!Spec

\* The inductive invariant behind that: what was yielded, and what is yet to be
\* yielded of the chunk, is the answer for the range from the filter's first
\* block to the last block that was asked for.
Covered ==
  /\ pc = "ask" =>
       /\ filter.from <= from /\ from <= filter.to
       /\ logs = <<>>
       /\ yielded = GetLogs(filter.from, from - 1)
  /\ pc = "yield" =>
       /\ filter.from <= from /\ from <= chunkTo /\ chunkTo <= filter.to
       /\ logs # <<>>
       /\ yielded \o logs = GetLogs(filter.from, chunkTo)
  /\ pc = "done" => yielded = GetLogs(filter.from, filter.to)

\* The chunks are only as small as the node's limit asks for: a scan only fails if
\* that limit is below minLogRange or a call failed for another reason, so halving
\* finds every limit that minLogRange allows, and without other failures it stops
\* there, so the scan doesn't fall back to needlessly many queries.
NarrowsForCause ==
  /\ pc = "failed" => faults > 0 \/ limit < MinLogRange
  /\ faults = 0 => step = MaxLogRange \/ 2 * step >= limit

\* Every scan ends: a call either moves the scan on, or halves a step that
\* can't be halved forever.
Termination == <>(pc \in Final)
=============================================================================
