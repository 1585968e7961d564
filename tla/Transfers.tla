------------------------------ MODULE Transfers ------------------------------
(* internal/erc20, internal/native and `arbot transfers`: the transfers out  *)
(* of a Safe, or into it, in the last blocks before a proposal. Two events   *)
(* are scanned for, each as ScanLogs yields them (module ScanLogs), and      *)
(* merged. Numbers are of W values, as uint64 is of 2^64.                    *)
EXTENDS Sequences, Orders

CONSTANTS
  Safe,       \* the request's Safe
  W,          \* the number of values of a block number
  Requests,   \* [block |-> its Safe block, chain |-> whether it has a chain ID]
  Flags,      \* the flags of the command: [in, from, to, blocks], "" if not set
  Chains      \* the logs that the chain may have

VARIABLES
  request, flags, logs,
  step,       \* "start", "tokens", "received", "report", or an error: "usage", "request" or "rpc"
  tokens,     \* the ERC-20 transfers that were read,
  received,   \* those of the native currency,
  report      \* and what the command reports

vars == <<request, flags, logs, step, tokens, received, report>>

Init ==
  /\ request \in Requests /\ flags \in Flags /\ logs \in Chains
  /\ step = "start" /\ tokens = <<>> /\ received = <<>> /\ report = <<>>

\* Mutant: the range starts blocks - 1 before its end, wherever that is.
Wraps(block, blocks) == (block - (blocks - 1)) % W

FirstBlock(block, blocks) == block - (IF blocks - 1 < block THEN blocks - 1 ELSE block)

UsageError ==
  \/ flags.in /\ flags.to # ""
  \/ ~flags.in /\ flags.from # ""
  \/ flags.blocks = 0

HasSafe == request.chain /\ request.block # 0

OpenScan ==
  /\ step = "start"
  /\ step' = IF UsageError THEN "usage" ELSE IF HasSafe THEN "tokens" ELSE "request"
  /\ UNCHANGED <<request, flags, logs, tokens, received, report>>

-----------------------------------------------------------------------------
(* eth_getLogs *)

Every == {}

One(a) == {a}

Earlier(a, b) == a.block < b.block \/ (a.block = b.block /\ a.index < b.index)

\* The logs that a scan of the range yields: those with each of the topics.
ScanLogs(addresses, topics) ==
  {l \in logs : /\ l.block \in FirstBlock(request.block, flags.blocks)..request.block
                /\ addresses = Every \/ l.address \in addresses
                /\ Len(l.topics) >= Len(topics)
                /\ \A k \in DOMAIN topics : topics[k] = Every \/ l.topics[k] \in topics[k]}

HasShape(l, n) == ~l.removed /\ Len(l.topics) = n /\ l.words = 1

\* Those that have the event's shape, in the order in which they are yielded.
Shaped(yielded, n) ==
  InOrder({ab \in logs \X logs : Earlier(ab[1], ab[2])}, {l \in yielded : HasShape(l, n)})

Limit(a) == IF a = "" THEN Every ELSE One(a)

TokenTopics ==
  IF flags.in THEN <<One("Transfer"), Limit(flags.from), One(Safe)>>
  ELSE <<One("Transfer"), One(Safe)>> \o (IF flags.to = "" THEN <<>> ELSE <<One(flags.to)>>)

Transfer(type, l, to) ==
  [type |-> type, block |-> l.block, index |-> l.index, from |-> l.topics[2], to |-> to,
   token |-> IF type = "erc20" THEN l.address ELSE ""]

ScanTokens ==
  /\ step = "tokens"
  /\ LET shaped == Shaped(ScanLogs(Every, TokenTopics), 3)
     IN tokens' = [k \in DOMAIN shaped |-> Transfer("erc20", shaped[k], shaped[k].topics[3])]
  /\ step' = IF flags.in THEN "received" ELSE "report"
  /\ UNCHANGED <<request, flags, logs, received, report>>

ReceivedBy ==
  /\ step = "received"
  /\ LET topics == <<One("SafeReceived")>> \o (IF flags.from = "" THEN <<>> ELSE <<One(flags.from)>>)
         shaped == Shaped(ScanLogs(One(Safe), topics), 2)
     IN received' = [k \in DOMAIN shaped |-> Transfer("native", shaped[k], Safe)]
  /\ step' = "report"
  /\ UNCHANGED <<request, flags, logs, tokens, report>>

ScanFails ==
  /\ step \in {"tokens", "received"}
  /\ step' = "rpc"
  /\ UNCHANGED <<request, flags, logs, tokens, received, report>>

\* Both, sorted, where what has the same place stays in its order.
Merged(a, b) ==
  LET all == a \o b
      less == {ij \in (DOMAIN all) \X (DOMAIN all) :
                 \/ Earlier(all[ij[1]], all[ij[2]])
                 \/ ~Earlier(all[ij[2]], all[ij[1]]) /\ ij[1] < ij[2]}
  IN  [k \in DOMAIN all |-> all[InOrder(less, DOMAIN all)[k]]]

Report ==
  /\ step = "report"
  /\ step' = "done" /\ report' = Merged(received, tokens)
  /\ UNCHANGED <<request, flags, logs, tokens, received>>

Next == OpenScan \/ ScanTokens \/ ReceivedBy \/ ScanFails \/ Report

Spec == Init /\ [][Next]_vars

-----------------------------------------------------------------------------

\* The logs that show a transfer which the flags ask for, by what they mean.
Asked(l) ==
  /\ ~l.removed /\ l.words = 1
  /\ l.block <= request.block /\ request.block - l.block < flags.blocks
  /\ \/ /\ Len(l.topics) = 3 /\ l.topics[1] = "Transfer"
        /\ l.topics[IF flags.in THEN 3 ELSE 2] = Safe
        /\ flags.from \in {"", l.topics[2]} /\ flags.to \in {"", l.topics[3]}
     \/ /\ Len(l.topics) = 2 /\ l.topics[1] = "SafeReceived"
        /\ flags.in /\ l.address = Safe /\ flags.from \in {"", l.topics[2]}

\* A report lists every transfer that was asked for, of the last blocks up to the
\* Safe block and no others, once, with its sender, recipient and token, in the
\* order in which they happened, whichever events show them (transfers,
\* TransfersFrom, TransfersTo, ReceivedBy). A request without a Safe block isn't
\* read at the chain's first blocks (openSafe).
ListsEachOnce ==
  step = "done" =>
    /\ request.chain /\ request.block # 0
    /\ \A j, k \in DOMAIN report : j < k => Earlier(report[j], report[k])
    /\ Len(report) = Cardinality({l \in logs : Asked(l)})
    /\ \A l \in {m \in logs : Asked(m)} : \E k \in DOMAIN report :
         /\ report[k].block = l.block /\ report[k].index = l.index /\ report[k].from = l.topics[2]
         /\ report[k].to = (IF l.topics[1] = "Transfer" THEN l.topics[3] ELSE Safe)
         /\ report[k].token = (IF l.topics[1] = "Transfer" THEN l.address ELSE "")

=============================================================================
