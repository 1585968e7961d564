------------------------------- MODULE Safenet -------------------------------
(***************************************************************************)
(* A query of internal/safenet (safenet.go): Pending, Request, or Rulings. *)
(*                                                                         *)
(* A query pins the latest block when it connects, and then reads the      *)
(* chain call by call, while blocks are mined, finalized, and reorganized. *)
(* The calls name blocks by number, so calls after a reorganization read   *)
(* another fork. A scan for logs is a LogStream per fork: it takes the     *)
(* logs of one chunk at a time, and its chunks may end anywhere.           *)
(***************************************************************************)
EXTENDS SentinelOracle

CONSTANTS Queries   \* which of "pending", "request", and "rulings" are asked

VARIABLES
  pc,        \* "idle", then the read in progress, then a result
  query,     \* the query, with its request or block range
  block,     \* the session's block
  pinnedFinal, \* the finalized block when the session connected
  next,      \* the next block of the scan in progress, and its last block
  logs,      \* the logs that the scan has returned
  found,     \* the requests that the query reads, in order
  answer,    \* the oracle's answer for the request that is being read
  request,   \* what is known of that request
  result     \* the disputes, or the requests that were read

queryVars == <<query, block, pinnedFinal, next, logs, found, answer, request, result>>
vars == <<chainVars, pc, queryVars>>

Scans == {"rulings", "disputes", "votes", "arbitration"}
Results == {"done", "refused", "not found", "inconsistent", "failed"}

Lower(a, b) == IF a <= b THEN a ELSE b

Outcomes == {"DisputeResolved", "DisputeOutOfScope", "ArbitrationTimedOut"}
ArbitrationEvents == {"DisputeTriggered"} \cup Outcomes

NoArbitration == [frozen |-> 0, outcome |-> "PENDING", settled |-> 0]
Unread ==
  [id |-> "none", state |-> "NONE", proposed |-> 0, votes |-> <<>>, arbitration |-> NoArbitration]

Init ==
  /\ ChainInit
  /\ pc = "idle"
  /\ query = [kind |-> "none"]
  /\ block = 0
  /\ pinnedFinal = 0
  /\ next = [from |-> 0, to |-> 0]
  /\ logs = {}
  /\ found = <<>>
  /\ answer = Shown(NoRecord)
  /\ request = Unread
  /\ result = <<>>

StartScan(name, f, t) ==
  /\ pc' = name
  /\ next' = [from |-> f, to |-> t]
  /\ logs' = {}

\* Goes on to the next request, or returns the result if there is none.
NextRequest ==
  /\ pc' = IF Len(result') = Len(found') THEN "done" ELSE "record"
  /\ logs' = {}

Current == found[Len(result) + 1]

\* Logs are ordered by their block, and by their index in it.
Precedes(x, y) == x.block < y.block \/ (x.block = y.block /\ x.at < y.at)
Chronological(S) == InOrder({xy \in S \X S : Precedes(xy[1], xy[2])}, S)

-----------------------------------------------------------------------------
\* Mutant: disputes frozen ARBITRATION_TIMEOUT blocks ago are missed.
PendingFromLate == block' - Lower(ArbitrationTimeout, block') + 1

\* Disputes frozen before this block are overdue.
PendingFrom == block' - Lower(ArbitrationTimeout, block')

\* connect, and the start of the queries.
ConnectPending ==
  /\ query' = [kind |-> "pending"]
  /\ StartScan("disputes", PendingFrom, block')
  /\ UNCHANGED <<found, answer, request, result>>

ConnectRequest(q) ==
  /\ query' = [kind |-> "request", id |-> q]
  /\ found' = <<q>>
  /\ UNCHANGED <<next, answer, request, result>>
  /\ NextRequest

ConnectRulings(f, t) ==
  /\ query' = [kind |-> "rulings", from |-> f, to |-> t]
  /\ IF t > block'
     THEN pc' = "refused" /\ UNCHANGED <<next, logs>>
     ELSE StartScan("rulings", f, t)
  /\ UNCHANGED <<found, answer, request, result>>

Connect ==
  /\ pc = "idle"
  /\ block' = height
  /\ pinnedFinal' = finalized
  /\ \/ "pending" \in Queries /\ ConnectPending
     \/ "request" \in Queries /\ \E q \in Requests : ConnectRequest(q)
     \/ "rulings" \in Queries /\ \E f \in 1 .. height, t \in 1 .. height + 1 :
                                   f <= t /\ ConnectRulings(f, t)
  /\ UNCHANGED chainVars

-----------------------------------------------------------------------------
\* Mutant: timeouts are rulings.
KindsWithTimeouts ==
  CASE pc = "rulings" -> Outcomes
    [] pc = "disputes" -> ArbitrationEvents
    [] pc = "votes" -> {"Committed", "Revealed"}
    [] pc = "arbitration" -> ArbitrationEvents

\* What each scan asks for. The scans for votes and for an arbitration are for
\* one request.
Kinds ==
  CASE pc = "rulings" -> {"DisputeResolved", "DisputeOutOfScope"}
    [] pc = "disputes" -> ArbitrationEvents
    [] pc = "votes" -> {"Committed", "Revealed"}
    [] pc = "arbitration" -> ArbitrationEvents

\* Mutant: votes and arbitrations of all requests are read as those of one.
AnyIds == Requests

Ids == IF pc \in {"rulings", "disputes"} THEN Requests ELSE {request.id}

Settling(all) == {e \in all : e.kind \in Outcomes}

\* The logs of a scan, including those of the chunk that ends with block t, and
\* whether that chunk is its last one. Looking for an arbitration stops at the
\* first log that settles it.
Scanned(t) == logs \cup Logs(next.from, t, Kinds, Ids)
Stops(t) == t = next.to \/ (pc = "arbitration" /\ Settling(Scanned(t)) # {})

\* A chunk that isn't the last one.
ScanChunk ==
  /\ pc \in Scans
  /\ \E t \in next.from .. next.to :
       /\ ~Stops(t)
       /\ logs' = Scanned(t)
       /\ next' = [next EXCEPT !.from = t + 1]
  /\ UNCHANGED <<chainVars, pc, query, block, pinnedFinal, found, answer, request, result>>

\* The last chunk completes the scan named name. A scan of no blocks at all ends
\* without a call.
LastChunk(name) == pc = name /\ UNCHANGED chainVars
All == Scanned(next.to)

Ruled(all) == [i \in 1 .. Cardinality(all) |-> Chronological(all)[i].id]

\* Rulings: the requests are read one after the other.
ScanRulings ==
  /\ LastChunk("rulings")
  /\ found' = Ruled(All)
  /\ UNCHANGED <<query, block, pinnedFinal, next, answer, request, result>>
  /\ NextRequest

\* Pending: the disputes that no other log settles, in the order of their
\* deadlines, and of their logs if these are equal.
Unsettled(all) ==
  {e \in all : /\ e.kind = "DisputeTriggered"
               /\ \A f \in Settling(all) : f.id # e.id}

DueBefore(e, f) == e.data < f.data \/ (e.data = f.data /\ Precedes(e, f))
ByDeadline(S) == InOrder({ef \in S \X S : DueBefore(ef[1], ef[2])}, S)

Dispute(e) == [id |-> e.id, frozen |-> e.block, deadline |-> e.data]

ScanDisputes ==
  /\ LastChunk("disputes")
  /\ pc' = "done"
  /\ result' = [i \in 1 .. Cardinality(Unsettled(All)) |-> Dispute(ByDeadline(Unsettled(All))[i])]
  /\ logs' = {}
  /\ UNCHANGED <<query, block, pinnedFinal, next, found, answer, request>>

-----------------------------------------------------------------------------
\* Mutant: the record is read as of the block that is the latest by now.
RecordBlockLatest == height

\* The block that the oracle's record is read as of.
RecordBlock == block

\* getRequest.
ReadRecord ==
  /\ pc = "record"
  /\ block <= height
  /\ answer' = RecordAt(Current, RecordBlock)
  /\ request' = [Unread EXCEPT !.id = Current, !.state = answer'.state]
  /\ pc' = IF answer'.state = "NONE" THEN "not found" ELSE "proposal"
  /\ UNCHANGED <<chainVars, query, block, pinnedFinal, next, logs, found, result>>

\* proposal: the request was posted COMMIT_WINDOW blocks before its deadline.
ReadProposal ==
  LET proposed == answer.commitDeadline - CommitWindow
      votesTo == Lower(answer.revealDeadline, block)
  IN  /\ pc = "proposal"
      /\ IF CommitWindow > answer.commitDeadline
            \/ Logs(proposed, proposed, {"TransactionProposed"}, {request.id}) = {}
         THEN pc' = "inconsistent" /\ UNCHANGED <<next, logs, request>>
         ELSE /\ StartScan("votes", proposed, votesTo)
              /\ request' = [request EXCEPT !.proposed = proposed]
      /\ UNCHANGED <<chainVars, query, block, pinnedFinal, found, answer, result>>

\* votes: each sentinel commits once, before it reveals, and reveals once.
VotesFit(all) ==
  \A e \in all :
    /\ \A f \in all : e.kind = f.kind /\ e.who = f.who => e = f
    /\ e.kind = "Revealed" =>
         \E f \in all : f.kind = "Committed" /\ f.who = e.who /\ Precedes(f, e)

VoteOf(s, all) ==
  LET reveals == {e \in all : e.kind = "Revealed" /\ e.who = s}
  IN  IF reveals = {} THEN "PENDING" ELSE (CHOOSE e \in reveals : TRUE).data

Votes(all) ==
  {[who |-> e.who, vote |-> VoteOf(e.who, all), block |-> e.block, at |-> e.at] :
     e \in {f \in all : f.kind = "Committed"}}

\* The votes in the order of their commits.
InCommitOrder(votes) ==
  [i \in 1 .. Cardinality(votes) |->
     [who |-> Chronological(votes)[i].who, vote |-> Chronological(votes)[i].vote]]

\* progress.check: the votes are as many as the oracle counts.
Check(votes) ==
  /\ Cardinality(votes) = answer.committed
  /\ Count(votes, "APPROVED") = answer.approvals
  /\ Count(votes, "DENIED") = answer.denials

\* Mutant: an arbitration is only looked for in the block of the dispute.
ArbitrationToFrozen(frozen) == frozen

\* The last block that the arbitration's logs can be in.
ArbitrationTo(frozen) == IF answer.state = "FROZEN" THEN frozen ELSE block

ScanVotes ==
  LET frozen == answer.arbitrationDeadline - ArbitrationTimeout
      read == [request EXCEPT !.votes = InCommitOrder(Votes(All))]
      fits == VotesFit(All) /\ Check(Votes(All))
      arbitrated == answer.arbitrationDeadline # 0
  IN  /\ LastChunk("votes")
      /\ UNCHANGED <<query, block, pinnedFinal, found, answer>>
      /\ \/ /\ ~fits \/ (arbitrated /\ frozen < 0)
            /\ pc' = "inconsistent"
            /\ UNCHANGED <<next, logs, request, result>>
         \/ /\ fits /\ ~arbitrated
            /\ request' = read
            /\ result' = Append(result, read)
            /\ UNCHANGED next
            /\ NextRequest
         \/ /\ fits /\ arbitrated /\ frozen >= 0
            /\ request' = [read EXCEPT !.arbitration.frozen = frozen]
            /\ StartScan("arbitration", frozen, ArbitrationTo(frozen))
            /\ UNCHANGED result

\* arbitration: the logs up to the first one that settles the dispute.
Earliest(S) == CHOOSE e \in S : \A f \in S : f = e \/ Precedes(e, f)
UpToSettling(all) ==
  IF Settling(all) = {} THEN all
  ELSE {e \in all : e = Earliest(Settling(all)) \/ Precedes(e, Earliest(Settling(all)))}

OutcomeOf(e) ==
  CASE e.kind = "DisputeResolved" /\ e.data = "RESOLVED_APPROVED" -> "SECURE"
    [] e.kind = "DisputeResolved" /\ e.data = "RESOLVED_DENIED" -> "INSECURE"
    [] e.kind = "DisputeOutOfScope" -> "OUT_OF_SCOPE"
    [] e.kind = "ArbitrationTimedOut" -> "TIMED_OUT"

OutcomeState(outcome) ==
  CASE outcome = "PENDING" -> "FROZEN"
    [] outcome = "SECURE" -> "RESOLVED_APPROVED"
    [] outcome = "INSECURE" -> "RESOLVED_DENIED"
    [] outcome \in {"OUT_OF_SCOPE", "TIMED_OUT"} -> "TIMED_OUT"

\* The arbitration that all logs give.
Arbitration(all) ==
  IF Settling(all) = {}
  THEN [NoArbitration EXCEPT !.frozen = request.arbitration.frozen]
  ELSE LET e == Earliest(Settling(all))
       IN  [frozen |-> request.arbitration.frozen, outcome |-> OutcomeOf(e), settled |-> e.block]

ScanArbitration ==
  \E t \in next.from .. next.to :
    LET all == UpToSettling(Scanned(t))
        read == [request EXCEPT !.arbitration = Arbitration(all)]
        disputes == {e \in all : e.kind = "DisputeTriggered"}
        fits == /\ disputes # {}
                /\ \A e \in disputes : e.data = answer.arbitrationDeadline
                /\ OutcomeState(read.arbitration.outcome) = answer.state
    IN  /\ LastChunk("arbitration") /\ Stops(t)
        /\ UNCHANGED <<query, block, pinnedFinal, next, found, answer>>
        /\ \/ /\ ~fits
              /\ pc' = "inconsistent"
              /\ UNCHANGED <<logs, request, result>>
           \/ /\ fits
              /\ request' = read
              /\ result' = Append(result, read)
              /\ NextRequest

\* Any of the calls can fail, and fails the query.
CallFails ==
  /\ pc \in Scans \cup {"record", "proposal"}
  /\ pc' = "failed"
  /\ UNCHANGED <<chainVars, queryVars>>

QueryNext ==
  \/ Connect \/ ScanChunk \/ ScanRulings \/ ScanDisputes
  \/ ReadRecord \/ ReadProposal \/ ScanVotes \/ ScanArbitration
  \/ CallFails

\* Bound: the chain stops with the query, as nothing depends on it any more.
Chain == pc \notin Results /\ ChainNext /\ UNCHANGED <<pc, queryVars>>

Next == QueryNext \/ Chain

Spec == Init /\ [][Next]_vars
-----------------------------------------------------------------------------

\* What queries are compared to: the record, as of the end of block b.
Truth(q, b) ==
  LET r == past[b][q]
  IN  [id |-> q, state |-> r.state, proposed |-> r.proposed, votes |-> InCommitOrder(r.votes),
       arbitration |-> [frozen |-> r.frozen, outcome |-> r.outcome, settled |-> r.settled]]

Done(kind) == pc = "done" /\ query.kind = kind

\* The blocks that can't be reorganized any more when the query starts.
Final(b) == b <= pinnedFinal \/ MaxReorgs = 0

\* If the session's block isn't reorganized, a request that is read call by call,
\* from the record and from three scans of logs, while the chain goes on, is the
\* request as of that block: all its votes, and its arbitration, and nothing later.
RequestAsOfBlock ==
  Done("request") /\ Final(block) => result = <<Truth(query.id, block)>>

\* If the session's block isn't reorganized, what is read never contradicts itself,
\* whatever happened to the request: none of the checks of the logs against the
\* record fails, and a request that exists is found.
NeverInconsistent ==
  query.kind = "request" /\ Final(block) =>
    /\ pc # "inconsistent"
    /\ pc = "not found" => past[block][query.id].state = "NONE"

\* If the session's block isn't reorganized, Pending returns each dispute that is
\* frozen as of that block and not yet overdue then, once, and by deadline.
PendingIsExact ==
  Done("pending") /\ Final(block) =>
    /\ {result[i] : i \in DOMAIN result} =
         {[id |-> q, frozen |-> past[block][q].frozen,
           deadline |-> ArbitrationDeadline(past[block][q])] :
            q \in {p \in Requests : /\ past[block][p].state = "FROZEN"
                                    /\ block <= ArbitrationDeadline(past[block][p])}}
    /\ \A i, j \in DOMAIN result :
         i < j => result[i].id # result[j].id /\ result[i].deadline <= result[j].deadline

\* The requests that were ruled on in blocks f to t.
RuledIn(f, t) ==
  {q \in Requests : /\ past[t][q].outcome \in {"SECURE", "INSECURE", "OUT_OF_SCOPE"}
                    /\ f <= past[t][q].settled /\ past[t][q].settled <= t}

\* The rulings of final blocks are read completely, in order, and once, and
\* although their requests are read as of the latest block, which may be
\* reorganized in between, they are what they were as of the range's last block.
\* Nor does reading them fail because of what happens in later blocks (Rulings,
\* "this gives the same requests as reading them as of block to would").
RulingsOfFinalBlocks ==
  query.kind = "rulings" /\ Final(query.to) =>
    /\ pc \notin {"inconsistent", "not found"}
    /\ pc = "done" =>
         /\ {result[i].id : i \in DOMAIN result} = RuledIn(query.from, query.to)
         /\ \A i \in DOMAIN result : result[i] = Truth(result[i].id, query.to)
         /\ \A i, j \in DOMAIN result :
              i < j => /\ result[i].id # result[j].id
                       /\ result[i].arbitration.settled <= result[j].arbitration.settled
=============================================================================
