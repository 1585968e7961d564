--------------------------- MODULE SentinelOracle ---------------------------
(***************************************************************************)
(* Gnosis Chain as internal/safenet reads it: the SentinelOracle contract, *)
(* which keeps a record of each request and logs what happens to it, in    *)
(* blocks that are mined, finalized, and, until then, reorganized.         *)
(*                                                                         *)
(* The contract isn't part of the repository. Its rules are those that the *)
(* reader in internal/safenet and the test chain in internal/e2e rely on.  *)
(* A log and a record are only what the reader distinguishes: no amounts,  *)
(* reasons, or transactions.                                               *)
(***************************************************************************)
EXTENDS Orders, Sequences

CONSTANTS
  Requests, Sentinels,
  CommitWindow,        \* COMMIT_WINDOW: the blocks to commit votes in
  RevealWindow,        \* the blocks to reveal votes in
  ArbitrationTimeout,  \* ARBITRATION_TIMEOUT: the blocks to rule in
  LastProposal,        \* bound: the last block that requests are proposed in
  Ballots,             \* bound: the votes that each sentinel may reveal
  MaxHeight,           \* bound: the last block that is mined
  MaxReorgs            \* bound: how often the chain is reorganized

ASSUME OracleAssumption ==
  /\ Ballots \in [Sentinels -> SUBSET {"APPROVED", "DENIED"}]
  /\ {CommitWindow, RevealWindow, ArbitrationTimeout,
      LastProposal, MaxHeight, MaxReorgs} \subseteq Nat

VARIABLES
  height,      \* the latest block
  finalized,   \* the latest block that can't be reorganized
  log,         \* the logs of the blocks so far, and of the one being built
  index,       \* the index of the next log in the block being built
  record,      \* each request's record, in the block being built
  past,        \* the records as of the end of blocks 1 to height
  reorgs       \* how often the chain was reorganized

chainVars == <<height, finalized, log, index, record, past, reorgs>>

NoRecord ==
  [state |-> "NONE", proposed |-> 0, votes |-> {},
   frozen |-> 0, outcome |-> "PENDING", settled |-> 0]

ChainInit ==
  /\ height = 1
  /\ finalized = 1
  /\ log = {}
  /\ index = 0
  /\ record = [r \in Requests |-> NoRecord]
  /\ past = <<record>>
  /\ reorgs = 0

\* The block being built, which transactions are included in.
Building == height + 1

CommitDeadline(r) == r.proposed + CommitWindow
RevealDeadline(r) == CommitDeadline(r) + RevealWindow
ArbitrationDeadline(r) == r.frozen + ArbitrationTimeout

\* Logs of request q, with their sentinel and data. The n-th one of a transaction
\* comes after those that are in its block already.
Event(n, kind, q, who, data) ==
  [kind |-> kind, id |-> q, block |-> Building, at |-> index + n, who |-> who, data |-> data]
Emit(events) ==
  /\ log' = log \cup events
  /\ index' = index + Cardinality(events)
Keep == UNCHANGED <<height, finalized, past, reorgs>>

\* A proposal posts the request, and starts its windows.
Propose(q) ==
  /\ record[q].state = "NONE"
  /\ Building <= LastProposal
  /\ record' = [record EXCEPT ![q].state = "PENDING", ![q].proposed = Building]
  /\ Emit({Event(0, "TransactionProposed", q, "none", 0)})
  /\ Keep

\* Each sentinel commits at most one vote on a request. A vote is known by the log
\* of its commit.
Commit(q, s) ==
  LET e == Event(0, "Committed", q, s, 0)
  IN  /\ record[q].state = "PENDING"
      /\ Building <= CommitDeadline(record[q])
      /\ \A v \in record[q].votes : v.who # s
      /\ record' = [record EXCEPT ![q].votes =
                      @ \cup {[who |-> s, vote |-> "PENDING", block |-> e.block, at |-> e.at]}]
      /\ Emit({e})
      /\ Keep

Has(votes, vote) == \E v \in votes : v.vote = vote

\* Once no more votes can be revealed, the request is resolved by the ones that
\* were. A split vote freezes it, and no vote times it out.
Resolved(r) ==
  IF Has(r.votes, "APPROVED") /\ Has(r.votes, "DENIED")
  THEN [r EXCEPT !.state = "FROZEN", !.frozen = Building]
  ELSE [r EXCEPT !.state = IF Has(r.votes, "APPROVED") THEN "RESOLVED_APPROVED"
                           ELSE IF Has(r.votes, "DENIED") THEN "RESOLVED_DENIED"
                           ELSE "TIMED_OUT"]
DisputeEvents(n, q, r) ==
  IF r.state = "FROZEN"
  THEN {Event(n, "DisputeTriggered", q, "none", ArbitrationDeadline(r))}
  ELSE {}

\* The reveal of the last committed vote resolves the request too.
Reveal(q, v, vote) ==
  LET votes == (record[q].votes \ {v}) \cup {[v EXCEPT !.vote = vote]}
      r == [record[q] EXCEPT !.votes = votes]
      closed == IF Has(votes, "PENDING") THEN r ELSE Resolved(r)
  IN  /\ record[q].state = "PENDING"
      /\ v.vote = "PENDING"
      /\ CommitDeadline(record[q]) < Building /\ Building <= RevealDeadline(record[q])
      /\ record' = [record EXCEPT ![q] = closed]
      /\ Emit({Event(0, "Revealed", q, v.who, vote)} \cup DisputeEvents(1, q, closed))
      /\ Keep

\* Anyone can finalize a request whose votes weren't all revealed in time.
Finalize(q) ==
  /\ record[q].state = "PENDING"
  /\ Building > RevealDeadline(record[q])
  /\ record' = [record EXCEPT ![q] = Resolved(@)]
  /\ Emit(DisputeEvents(0, q, record'[q]))
  /\ Keep

\* How a dispute ends: the state it leaves the request in, and its log.
Settle(q, state, outcome, kind) ==
  /\ record[q].state = "FROZEN"
  /\ record' = [record EXCEPT ![q].state = state, ![q].outcome = outcome,
                              ![q].settled = Building]
  /\ Emit({Event(0, kind, q, "none", state)})
  /\ Keep

\* The arbitrator rules on a dispute or marks it out of scope, and can do so
\* until, after the deadline, someone times it out.
RuleSecure(q) == Settle(q, "RESOLVED_APPROVED", "SECURE", "DisputeResolved")
RuleInsecure(q) == Settle(q, "RESOLVED_DENIED", "INSECURE", "DisputeResolved")
MarkOutOfScope(q) == Settle(q, "TIMED_OUT", "OUT_OF_SCOPE", "DisputeOutOfScope")
TimeOutArbitration(q) ==
  /\ Building > ArbitrationDeadline(record[q])
  /\ Settle(q, "TIMED_OUT", "TIMED_OUT", "ArbitrationTimedOut")

Mine ==
  /\ height < MaxHeight
  /\ height' = height + 1
  /\ past' = Append(past, record)
  /\ index' = 0
  /\ UNCHANGED <<finalized, log, record, reorgs>>

\* Bound: blocks are only finalized while a reorganization may still come, which
\* is all that finality is about.
FinalizeBlock ==
  /\ reorgs < MaxReorgs
  /\ finalized < height
  /\ finalized' = finalized + 1
  /\ UNCHANGED <<height, log, index, record, past, reorgs>>

\* The blocks after block b are replaced, by blocks that are mined anew.
Reorg(b) ==
  /\ reorgs < MaxReorgs
  /\ b \in finalized .. height - 1
  /\ height' = b
  /\ log' = {e \in log : e.block <= b}
  /\ index' = 0
  /\ record' = past[b]
  /\ past' = SubSeq(past, 1, b)
  /\ reorgs' = reorgs + 1
  /\ UNCHANGED finalized

ChainNext ==
  \/ \E q \in Requests :
       \/ Propose(q)
       \/ \E s \in Sentinels : Commit(q, s)
       \/ \E v \in record[q].votes : \E vote \in Ballots[v.who] : Reveal(q, v, vote)
       \/ Finalize(q)
       \/ RuleSecure(q) \/ RuleInsecure(q) \/ MarkOutOfScope(q) \/ TimeOutArbitration(q)
  \/ Mine
  \/ FinalizeBlock
  \/ \E b \in 1 .. height : Reorg(b)

-----------------------------------------------------------------------------
\* What a node answers: eth_getLogs for blocks f to t, of which those that aren't
\* mined have no logs, and getRequest as of block b, which must be mined.
Logs(f, t, kinds, ids) ==
  {e \in log : /\ f <= e.block /\ e.block <= t /\ e.block <= height
               /\ e.kind \in kinds /\ e.id \in ids}

Count(votes, vote) == Cardinality({v \in votes : v.vote = vote})

\* What getRequest returns of a record.
Shown(r) ==
  [state |-> r.state,
   commitDeadline |-> CommitDeadline(r),
   revealDeadline |-> RevealDeadline(r),
   arbitrationDeadline |-> IF r.frozen = 0 THEN 0 ELSE ArbitrationDeadline(r),
   committed |-> Cardinality(r.votes),
   approvals |-> Count(r.votes, "APPROVED"),
   denials |-> Count(r.votes, "DENIED")]

RecordAt(q, b) == Shown(past[b][q])
=============================================================================
