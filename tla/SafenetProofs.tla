--------------------------- MODULE SafenetProofs ---------------------------
(* What holds of the queries of Safenet, for any number of requests and      *)
(* sentinels, any windows, and any reorganizations.                          *)
EXTENDS Safenet, OrdersProofs

(* The chain *)

VoteEvents == {"Committed", "Revealed"}

VoteType ==
  [who : Sentinels, vote : {"PENDING", "APPROVED", "DENIED"}, block : Nat, at : Nat]
States == {"NONE", "PENDING", "FROZEN", "RESOLVED_APPROVED", "RESOLVED_DENIED", "TIMED_OUT"}
OutcomeNames == {"PENDING", "SECURE", "INSECURE", "OUT_OF_SCOPE", "TIMED_OUT"}
RecordType ==
  [state : States, proposed : Nat, votes : SUBSET VoteType,
   frozen : Nat, outcome : OutcomeNames, settled : Nat]

ChainType ==
  /\ height \in Nat \ {0} /\ finalized \in 1 .. height /\ reorgs \in Nat /\ index \in Nat
  /\ record \in [Requests -> RecordType]
  /\ past \in Seq([Requests -> RecordType]) /\ Len(past) = height

\* Every log has a place of its own, before those that are yet to come.
Placed ==
  /\ \A e \in log : /\ e.id \in Requests /\ e.at \in Nat /\ e.block \in 1 .. Building
                    /\ e.block = Building => e.at < index
  /\ \A e, f \in log : e.block = f.block /\ e.at = f.at => e = f

\* The logs of request q up to block b.
History(q, b) == {e \in log : e.id = q /\ e.block <= b}

\* A request exists from its proposal on.
Posted(r, E) ==
  /\ r.state = "NONE" => r = NoRecord /\ E = {}
  /\ r.state # "NONE" =>
       r.proposed # 0 /\ \E e \in E : e.kind = "TransactionProposed" /\ e.block = r.proposed

IsVote(v, c) == c.kind = "Committed" /\ v.who = c.who /\ v.block = c.block /\ v.at = c.at
IsReveal(v, e) == e.kind = "Revealed" /\ e.who = v.who

\* The votes of record r are those that the logs E have.
Voted(r, E) ==
  /\ \A c \in E : c.kind = "Committed" => \E v \in r.votes : IsVote(v, c)
  /\ \A v \in r.votes :
       /\ \E c \in E : IsVote(v, c)
       /\ v.vote = "PENDING" => \A e \in E : ~IsReveal(v, e)
       /\ v.vote # "PENDING" => \E e \in E : IsReveal(v, e) /\ e.data = v.vote
       /\ \A w \in r.votes : v.who = w.who => v = w
  /\ \A e \in E : e.kind \in VoteEvents =>
       /\ r.proposed <= e.block /\ e.block <= RevealDeadline(r)
       /\ \A f \in E : e.kind = f.kind /\ e.who = f.who => e = f
       /\ e.kind = "Revealed" => \E c \in E : c.kind = "Committed" /\ c.who = e.who /\ Precedes(c, e)

Frozen(r, d) ==
  d.kind = "DisputeTriggered" /\ d.block = r.frozen /\ d.data = ArbitrationDeadline(r)
Settled(r, o) ==
  /\ o.kind \in Outcomes /\ o.block = r.settled
  /\ o.kind = "DisputeResolved" => o.data \in {"RESOLVED_APPROVED", "RESOLVED_DENIED"}
  /\ OutcomeOf(o) = r.outcome

\* The arbitration of record r is the one that the logs E have.
Arbitrated(r, E) ==
  /\ r.frozen = 0 =>
       /\ r.state # "FROZEN" /\ r.outcome = "PENDING" /\ r.settled = 0
       /\ \A e \in E : e.kind \notin ArbitrationEvents
  /\ r.frozen # 0 =>
       /\ r.state \notin {"NONE", "PENDING"} /\ r.proposed <= r.frozen
       /\ OutcomeState(r.outcome) = r.state
       /\ \E d \in E : Frozen(r, d)
       /\ \A d \in E : d.kind = "DisputeTriggered" =>
            Frozen(r, d) /\ \A f \in E : f.kind = d.kind => f = d
  /\ r.settled = 0 =>
       r.outcome = "PENDING" /\ \A e \in E : e.kind \notin Outcomes
  /\ r.settled # 0 =>
       /\ r.frozen # 0 /\ r.frozen <= r.settled /\ r.outcome # "PENDING"
       /\ \E o \in E : Settled(r, o)
       /\ \A o \in E : o.kind \in Outcomes =>
            /\ Settled(r, o) /\ \A f \in E : f.kind \in Outcomes => f = o
            /\ \A d \in E : d.kind = "DisputeTriggered" => Precedes(d, o)
       /\ \A e \in E : e.block <= r.settled

Fits(r, E) == Posted(r, E) /\ Voted(r, E) /\ Arbitrated(r, E)

\* A ruling, or an arbitration that timed out, settles a request for good.
Settlement(q) ==
  \A b \in 1 .. height : past[b][q].settled # 0 =>
    record[q] = past[b][q] /\ \A c \in b .. height : past[c][q] = past[b][q]

ChainInv ==
  /\ ChainType /\ Placed /\ IsFiniteSet(log)
  /\ \A q \in Requests :
       /\ Fits(record[q], History(q, Building))
       /\ \A b \in 1 .. height : Fits(past[b][q], History(q, b))
       /\ Settlement(q)
-----------------------------------------------------------------------------
(* The chain keeps the logs and the records alike *)

LEMMA Windows ==
  /\ CommitWindow \in Nat /\ RevealWindow \in Nat /\ ArbitrationTimeout \in Nat
  /\ \A s \in Sentinels : Ballots[s] \subseteq {"APPROVED", "DENIED"}
BY OracleAssumption

LEMMA ChainInitially == ChainInit => ChainInv
<1> SUFFICES ASSUME ChainInit PROVE ChainInv
  OBVIOUS
<1>1. NoRecord \in RecordType
  BY DEF NoRecord, RecordType, States, OutcomeNames
<1>2. ChainType
  <2>1. record \in [Requests -> RecordType]
    BY <1>1 DEF ChainInit
  <2> HIDE DEF RecordType
  <2>2. past \in Seq([Requests -> RecordType]) /\ Len(past) = 1
    BY <2>1 DEF ChainInit
  <2> QED BY <2>1, <2>2 DEF ChainInit, ChainType
<1>3. log = {} /\ Placed
  BY DEF ChainInit, Placed
<1>4. \A b : \A q \in Requests : History(q, b) = {}
  BY <1>3 DEF History
<1>5. Fits(NoRecord, {})
  BY DEF Fits, Posted, Voted, Arbitrated, NoRecord
<1>6. \A q \in Requests :
        /\ record[q] = NoRecord
        /\ \A b \in 1 .. height : past[b][q] = NoRecord
  BY DEF ChainInit
<1>7. \A q \in Requests : Settlement(q)
  BY <1>6 DEF Settlement, NoRecord, ChainInit
<1> QED BY <1>2, <1>3, <1>4, <1>5, <1>6, <1>7, FS_EmptySet DEF ChainInv

\* A transaction adds logs N to those of request q, and changes its record to r.
LEMMA Transaction ==
  ASSUME ChainInv, NEW q \in Requests, NEW N, NEW r \in RecordType, IsFiniteSet(N),
         \A e \in N : /\ e.id = q /\ e.block = Building /\ e.at \in Nat
                      /\ index <= e.at /\ e.at < index'
                      /\ \A f \in N : e.at = f.at => e = f,
         log' = log \cup N, index' \in Nat, index <= index', Keep,
         record' = [record EXCEPT ![q] = r],
         record[q].settled = 0, Fits(r, History(q, Building) \cup N)
  PROVE  ChainInv'
<1>1. ChainType'
  BY DEF ChainInv, ChainType, Keep
<1>2. height \in Nat /\ height' = height /\ Building' = Building /\ past' = past /\ Building = height + 1
  BY DEF ChainInv, ChainType, Keep, Building
<1>3. Placed'
  <2>1. \A e \in log : /\ e.id \in Requests /\ e.at \in Nat /\ e.block \in 1 .. Building
                       /\ e.block = Building => e.at < index
    BY DEF ChainInv, Placed
  <2>2. \A e, f \in log : e.block = f.block /\ e.at = f.at => e = f
    BY DEF ChainInv, Placed
  <2>3. \A e \in log \cup N : /\ e.id \in Requests /\ e.at \in Nat /\ e.block \in 1 .. Building
                              /\ e.block = Building => e.at < index'
    BY <1>2, <2>1 DEF ChainInv, ChainType
  <2>4. \A e \in log, f \in N : ~(e.block = f.block /\ e.at = f.at)
    BY <2>1 DEF ChainInv, ChainType
  <2>5. \A e, f \in log \cup N : e.block = f.block /\ e.at = f.at => e = f
    BY <2>2, <2>4
  <2> QED BY <1>2, <2>3, <2>5 DEF Placed
<1>4. IsFiniteSet(log')
  BY FS_Union DEF ChainInv
<1>5. \A p \in Requests : /\ \A b \in 1 .. height : History(p, b)' = History(p, b)
                          /\ p # q => History(p, Building)' = History(p, Building)
  BY <1>2 DEF History
<1>6. History(q, Building)' = History(q, Building) \cup N
  BY <1>2 DEF History
<1>7. ASSUME NEW p \in Requests
      PROVE  /\ Fits(record[p], History(p, Building))'
             /\ \A b \in 1 .. height' : Fits(past[b][p], History(p, b))'
             /\ Settlement(p)'
  <2>1. /\ Fits(record[p], History(p, Building))
        /\ \A b \in 1 .. height : Fits(past[b][p], History(p, b))
        /\ Settlement(p)
    BY DEF ChainInv
  <2>2. \A b \in 1 .. height' : Fits(past[b][p], History(p, b))'
    BY <1>2, <1>5, <2>1
  <2>3. CASE p # q
    <3>1. record'[p] = record[p]
      BY <2>3
    <3>2. Fits(record[p], History(p, Building))'
      BY <1>5, <2>1, <2>3, <3>1
    <3>3. Settlement(p)'
      BY <1>2, <2>1, <3>1 DEF Settlement
    <3> QED BY <2>2, <3>2, <3>3
  <2>4. CASE p = q
    <3>1. record'[p] = r
      BY <2>4 DEF ChainInv, ChainType
    <3>2. Fits(record[p], History(p, Building))'
      BY <1>6, <2>4, <3>1
    <3>3. \A b \in 1 .. height : past[b][p].settled = 0
      BY <2>1, <2>4 DEF Settlement
    <3>4. Settlement(p)'
      BY <1>2, <3>3 DEF Settlement
    <3> QED BY <2>2, <3>2, <3>4
  <2> QED BY <2>3, <2>4
<1> QED BY <1>1, <1>3, <1>4, <1>7 DEF ChainInv

\* The record is of its proposal, its votes, and its arbitration independently.
LEMMA PostedKept ==
  ASSUME NEW r, NEW s, NEW E, NEW N, Posted(r, E), r.state # "NONE", s.state # "NONE",
         s.proposed = r.proposed
  PROVE  Posted(s, E \cup N)
BY DEF Posted

LEMMA VotesKept ==
  ASSUME NEW r, NEW s, NEW E, NEW N, Voted(r, E), s.votes = r.votes, s.proposed = r.proposed,
         \A e \in N : e.kind \notin VoteEvents
  PROVE  Voted(s, E \cup N)
<1>1. RevealDeadline(s) = RevealDeadline(r)
  BY DEF RevealDeadline, CommitDeadline
<1>2. \A e \in E \cup N : e.kind \in VoteEvents => e \in E
  OBVIOUS
<1> QED BY <1>1, <1>2 DEF Voted, IsVote, IsReveal, VoteEvents

LEMMA NoDispute ==
  ASSUME NEW r, NEW s, NEW E, NEW N, Arbitrated(r, E), r.frozen = 0, s.state # "FROZEN",
         s.frozen = 0, s.outcome = r.outcome, s.settled = r.settled,
         \A e \in N : e.kind \notin ArbitrationEvents
  PROVE  Arbitrated(s, E \cup N)
BY DEF Arbitrated, ArbitrationEvents

LEMMA NewDispute ==
  ASSUME NEW r, NEW s, NEW E, NEW N, Arbitrated(r, E), r.frozen = 0, s.state = "FROZEN",
         s.frozen = Building, Building \in Nat, Building # 0, s.outcome = r.outcome, s.settled = r.settled,
         s.proposed <= Building, NEW d \in N, Frozen(s, d),
         \A e \in N : e.kind \in ArbitrationEvents => e = d
  PROVE  Arbitrated(s, E \cup N)
<1>1. \A e \in E \cup N : e.kind \in ArbitrationEvents => e = d
  BY DEF Arbitrated
<1>2. d.kind = "DisputeTriggered" /\ r.outcome = "PENDING" /\ r.settled = 0
  BY DEF Frozen, Arbitrated
<1>3. OutcomeState(s.outcome) = s.state
  BY <1>2 DEF OutcomeState
<1>4. \A e \in E \cup N : e.kind \notin Outcomes
  BY <1>1, <1>2 DEF ArbitrationEvents, Outcomes
<1> QED BY <1>1, <1>2, <1>3, <1>4 DEF Arbitrated, ArbitrationEvents

\* A request that may still be voted on isn't disputed yet.
LEMMA InHistory ==
  ASSUME ChainInv, NEW q \in Requests
  PROVE  /\ record[q] \in RecordType /\ Fits(record[q], History(q, Building))
         /\ height \in Nat /\ height # 0 /\ Building = height + 1 /\ index \in Nat
         /\ \A e \in History(q, Building) :
              /\ e.id = q /\ e.at \in Nat /\ e.block \in 1 .. Building
              /\ e.block = Building => e.at < index
         /\ record[q].state # "NONE" => record[q].proposed \in 1 .. Building
<1>1. record[q] \in RecordType /\ Fits(record[q], History(q, Building))
  BY DEF ChainInv, ChainType
<1>2. height \in Nat /\ height # 0 /\ Building = height + 1 /\ index \in Nat
  BY DEF ChainInv, ChainType, Building
<1>3. \A e \in History(q, Building) :
        /\ e.id = q /\ e.at \in Nat /\ e.block \in 1 .. Building
        /\ e.block = Building => e.at < index
  BY DEF ChainInv, Placed, History
<1>4. record[q].state # "NONE" => record[q].proposed \in 1 .. Building
  BY <1>1, <1>3 DEF Fits, Posted
<1> QED BY <1>1, <1>2, <1>3, <1>4

LEMMA UndisputedSoFar ==
  ASSUME NEW r, NEW E, Fits(r, E), r.state \in {"NONE", "PENDING"}
  PROVE  r.frozen = 0 /\ r.settled = 0 /\ r.outcome = "PENDING"
<1>1. r.frozen = 0
  BY DEF Fits, Arbitrated
<1> QED BY <1>1 DEF Fits, Arbitrated

LEMMA ProposeKeeps == ASSUME ChainInv, NEW q \in Requests, Propose(q) PROVE ChainInv'
<1> DEFINE e == Event(0, "TransactionProposed", q, "none", 0)
           r == [record[q] EXCEPT !.state = "PENDING", !.proposed = Building]
           E == History(q, Building)
<1>1. record[q] = NoRecord /\ E = {}
  BY InHistory DEF Propose, Fits, Posted
<1>2. height \in Nat /\ Building \in Nat /\ Building # 0 /\ index \in Nat
  BY InHistory
<1>3. r \in RecordType
  <2>1. record[q] \in RecordType
    BY InHistory
  <2> QED BY <1>2, <2>1 DEF RecordType, States
<1>4. /\ e.id = q /\ e.block = Building /\ e.at = index /\ e.kind = "TransactionProposed"
  BY <1>2 DEF Event
<1>5. Fits(r, E \cup {e})
  <2>1. r.state = "PENDING" /\ r.proposed = Building /\ r.votes = {} /\ r.frozen = 0 /\ r.settled = 0 /\ r.outcome = "PENDING"
    BY <1>1 DEF NoRecord
  <2> HIDE DEF r, e
  <2> QED BY <1>1, <1>2, <1>4, <2>1 DEF Fits, Posted, Voted, Arbitrated, VoteEvents, ArbitrationEvents, Outcomes
<1>6. Cardinality({e}) = 1 /\ IsFiniteSet({e})
  BY FS_Singleton
<1>7. /\ log' = log \cup {e} /\ index' = index + 1 /\ Keep
      /\ record' = [record EXCEPT ![q] = r]
  BY <1>6 DEF Propose, Emit
<1>8. record[q].settled = 0
  BY <1>1 DEF NoRecord
<1> HIDE DEF r, e
<1>9. \A f \in {e} : /\ f.id = q /\ f.block = Building /\ f.at \in Nat
                     /\ index <= f.at /\ f.at < index' /\ \A g \in {e} : f.at = g.at => f = g
  BY <1>2, <1>4, <1>7
<1>10. index' \in Nat /\ index <= index'
  BY <1>2, <1>7
<1> QED BY <1>3, <1>5, <1>6, <1>7, <1>8, <1>9, <1>10, Transaction

LEMMA CommitKeeps == ASSUME ChainInv, NEW q \in Requests, NEW s \in Sentinels, Commit(q, s) PROVE ChainInv'
<1> DEFINE e == Event(0, "Committed", q, s, 0)
           v == [who |-> s, vote |-> "PENDING", block |-> e.block, at |-> e.at]
           old == record[q]
           r == [old EXCEPT !.votes = @ \cup {v}]
           E == History(q, Building)
<1>1. old \in RecordType /\ Fits(old, E) /\ old.proposed \in 1 .. Building
  BY InHistory DEF Commit
<1>2. height \in Nat /\ Building \in Nat /\ Building # 0 /\ index \in Nat
  BY InHistory
<1>3. old.state = "PENDING" /\ Building <= CommitDeadline(old) /\ \A w \in old.votes : w.who # s
  BY DEF Commit
<1>4. e.id = q /\ e.block = Building /\ e.at = index /\ e.kind = "Committed" /\ e.who = s
  BY <1>2 DEF Event
<1>5. v.who = s /\ v.vote = "PENDING" /\ v.block = e.block /\ v.at = e.at /\ v \in VoteType
  BY <1>2, <1>4 DEF VoteType
<1>6. /\ r \in RecordType /\ r.state = "PENDING" /\ r.votes = old.votes \cup {v}
      /\ r.proposed = old.proposed /\ r.frozen = old.frozen /\ r.settled = old.settled /\ r.outcome = old.outcome
  BY <1>1, <1>3, <1>5 DEF RecordType
<1> HIDE DEF r, v, e
<1>7. old.frozen = 0 /\ old.settled = 0
  BY <1>1, <1>3, UndisputedSoFar
<1>8. Posted(r, E \cup {e})
  BY <1>1, <1>3, <1>6, PostedKept DEF Fits
<1>9. Arbitrated(r, E \cup {e})
  BY <1>1, <1>4, <1>6, <1>7, NoDispute DEF Fits, ArbitrationEvents, Outcomes
<1>10. Voted(r, E \cup {e})
  <2>1. Voted(old, E)
    BY <1>1 DEF Fits
  <2>2. RevealDeadline(r) = RevealDeadline(old) /\ CommitDeadline(old) <= RevealDeadline(old)
        /\ old.proposed <= Building
    BY <1>1, <1>6, Windows DEF RevealDeadline, CommitDeadline, RecordType
  <2>3. \A f \in E : f.kind \in VoteEvents => f.who # s
    <3>1. \A f \in E : f.kind = "Committed" => f.who # s
      BY <1>3, <2>1 DEF Voted, IsVote
    <3>2. \A f \in E : f.kind = "Revealed" => f.who # s
      BY <2>1, <3>1 DEF Voted, VoteEvents
    <3> QED BY <3>1, <3>2 DEF VoteEvents
  <2>4. IsVote(v, e) /\ ~IsReveal(v, e)
    BY <1>4, <1>5 DEF IsVote, IsReveal
  <2>5. \A c \in E \cup {e} : c.kind = "Committed" => \E w \in r.votes : IsVote(w, c)
    BY <1>6, <2>1, <2>4 DEF Voted
  <2>6. \A w \in r.votes :
       /\ \E c \in E \cup {e} : IsVote(w, c)
       /\ w.vote = "PENDING" => \A f \in E \cup {e} : ~IsReveal(w, f)
       /\ w.vote # "PENDING" => \E f \in E \cup {e} : IsReveal(w, f) /\ f.data = w.vote
       /\ \A x \in r.votes : w.who = x.who => w = x
    BY <1>3, <1>4, <1>5, <1>6, <2>1, <2>3, <2>4 DEF Voted, IsReveal, VoteEvents
  <2>7. \A f \in E \cup {e} : f.kind \in VoteEvents =>
       /\ r.proposed <= f.block /\ f.block <= RevealDeadline(r)
       /\ \A g \in E \cup {e} : f.kind = g.kind /\ f.who = g.who => f = g
       /\ f.kind = "Revealed" =>
            \E c \in E \cup {e} : c.kind = "Committed" /\ c.who = f.who /\ Precedes(c, f)
    <3>1. r.proposed <= e.block /\ e.block <= RevealDeadline(r)
      BY <1>1, <1>2, <1>3, <1>4, <1>6, <2>2, Windows DEF RevealDeadline, CommitDeadline, RecordType
    <3>2. \A f \in E : f.kind \in VoteEvents => r.proposed <= f.block /\ f.block <= RevealDeadline(r)
      BY <1>6, <2>1, <2>2 DEF Voted
    <3>3. \A f \in E : f.kind \in VoteEvents =>
            /\ \A g \in E : f.kind = g.kind /\ f.who = g.who => f = g
            /\ f.kind = "Revealed" => \E c \in E : c.kind = "Committed" /\ c.who = f.who /\ Precedes(c, f)
      BY <2>1 DEF Voted
    <3> QED BY <1>4, <2>3, <3>1, <3>2, <3>3 DEF VoteEvents
  <2> HIDE DEF E
  <2> QED BY <2>5, <2>6, <2>7 DEF Voted
<1>11. Cardinality({e}) = 1 /\ IsFiniteSet({e})
  BY FS_Singleton
<1>12. /\ log' = log \cup {e} /\ index' = index + 1 /\ Keep
       /\ record' = [record EXCEPT ![q] = r]
  BY <1>11 DEF Commit, Emit, r, v, e
<1>13. \A f \in {e} : /\ f.id = q /\ f.block = Building /\ f.at \in Nat
                      /\ index <= f.at /\ f.at < index' /\ \A g \in {e} : f.at = g.at => f = g
  BY <1>2, <1>4, <1>12
<1>14. index' \in Nat /\ index <= index'
  BY <1>2, <1>12
<1>15. Fits(r, E \cup {e})
  BY <1>8, <1>9, <1>10 DEF Fits
<1> QED BY <1>6, <1>7, <1>11, <1>12, <1>13, <1>14, <1>15, Transaction

\* The resolution of a request, once its votes are known, and the log of a dispute.
LEMMA Resolving ==
  ASSUME NEW r \in RecordType, Building \in Nat
  PROVE  /\ Resolved(r) \in RecordType /\ Resolved(r).state \notin {"NONE", "PENDING"}
         /\ Resolved(r).votes = r.votes /\ Resolved(r).proposed = r.proposed
         /\ Resolved(r).outcome = r.outcome /\ Resolved(r).settled = r.settled
         /\ IF Resolved(r).state = "FROZEN" THEN Resolved(r).frozen = Building
                                            ELSE Resolved(r).frozen = r.frozen
<1>1. CASE Has(r.votes, "APPROVED") /\ Has(r.votes, "DENIED")
  BY <1>1 DEF Resolved, RecordType, States
<1>2. CASE ~(Has(r.votes, "APPROVED") /\ Has(r.votes, "DENIED"))
  <2>1. PICK state \in {"RESOLVED_APPROVED", "RESOLVED_DENIED", "TIMED_OUT"} :
          Resolved(r) = [r EXCEPT !.state = state]
    BY <1>2 DEF Resolved
  <2> QED BY <2>1 DEF RecordType, States
<1> QED BY <1>1, <1>2

LEMMA DisputeLog ==
  ASSUME NEW q, NEW r, NEW n \in Nat, index \in Nat, Building \in Nat
  PROVE  \/ r.state # "FROZEN" /\ DisputeEvents(n, q, r) = {}
         \/ /\ r.state = "FROZEN"
            /\ \E d : /\ DisputeEvents(n, q, r) = {d} /\ d.id = q /\ d.block = Building
                      /\ d.at = index + n /\ d.kind = "DisputeTriggered"
                      /\ d.data = ArbitrationDeadline(r)
<1> DEFINE d == Event(n, "DisputeTriggered", q, "none", ArbitrationDeadline(r))
<1>1. /\ d.id = q /\ d.block = Building /\ d.at = index + n /\ d.kind = "DisputeTriggered"
      /\ d.data = ArbitrationDeadline(r)
  BY DEF Event
<1>2. r.state = "FROZEN" => DisputeEvents(n, q, r) = {d}
  BY DEF DisputeEvents
<1>3. r.state # "FROZEN" => DisputeEvents(n, q, r) = {}
  BY DEF DisputeEvents
<1> HIDE DEF d
<1> QED BY <1>1, <1>2, <1>3

\* What a reveal changes of the votes.
LEMMA RevealedVote ==
  ASSUME NEW old \in RecordType, NEW r, NEW E, Voted(old, E), Building \in Nat,
         \A f \in E : f.at \in Nat /\ f.block \in 1 .. Building /\ (f.block = Building => f.at < index),
         index \in Nat, NEW v \in old.votes, v.vote = "PENDING", old.proposed <= Building,
         NEW vote \in {"APPROVED", "DENIED"}, Building <= RevealDeadline(old),
         r.votes = (old.votes \ {v}) \cup {[v EXCEPT !.vote = vote]}, r.proposed = old.proposed,
         NEW e, e.kind = "Revealed", e.who = v.who, e.data = vote, e.block = Building, e.at = index
  PROVE  Voted(r, E \cup {e})
<1> DEFINE w == [v EXCEPT !.vote = vote]
<1>1. v \in VoteType
  BY DEF RecordType
<1>2. w.who = v.who /\ w.vote = vote /\ w.block = v.block /\ w.at = v.at
  BY <1>1 DEF VoteType
<1>3. r.votes = (old.votes \ {v}) \cup {w}
  OBVIOUS
<1> HIDE DEF w
<1>4. RevealDeadline(r) = RevealDeadline(old)
  BY DEF RevealDeadline, CommitDeadline
<1>5. \A c : (IsVote(w, c) <=> IsVote(v, c)) /\ (IsReveal(w, c) <=> IsReveal(v, c))
  BY <1>2 DEF IsVote, IsReveal
<1>6. \A f \in E : ~IsReveal(v, f)
  BY DEF Voted
<1>7. IsReveal(v, e) /\ \A u : ~IsVote(u, e)
  BY DEF IsReveal, IsVote
<1>8. \A u \in old.votes : u.who = v.who => u = v
  BY DEF Voted
<1>9. \A c \in E \cup {e} : c.kind = "Committed" => \E u \in r.votes : IsVote(u, c)
  BY <1>3, <1>5 DEF Voted
<1>10. \A u \in r.votes :
       /\ \E c \in E \cup {e} : IsVote(u, c)
       /\ u.vote = "PENDING" => \A f \in E \cup {e} : ~IsReveal(u, f)
       /\ u.vote # "PENDING" => \E f \in E \cup {e} : IsReveal(u, f) /\ f.data = u.vote
       /\ \A x \in r.votes : u.who = x.who => u = x
  <2>1. \A u \in old.votes \ {v} : ~IsReveal(u, e)
    BY <1>8 DEF IsReveal
  <2>2. \A u \in r.votes : \E c \in E \cup {e} : IsVote(u, c)
    BY <1>3, <1>5 DEF Voted
  <2>3. \A u \in r.votes : \A x \in r.votes : u.who = x.who => u = x
    BY <1>2, <1>3, <1>8 DEF Voted
  <2>4. \A u \in r.votes :
          /\ u.vote = "PENDING" => \A f \in E \cup {e} : ~IsReveal(u, f)
          /\ u.vote # "PENDING" => \E f \in E \cup {e} : IsReveal(u, f) /\ f.data = u.vote
    BY <1>2, <1>3, <1>5, <1>7, <2>1 DEF Voted
  <2> QED BY <2>2, <2>3, <2>4
<1>11. \A f \in E \cup {e} : f.kind \in VoteEvents =>
       /\ r.proposed <= f.block /\ f.block <= RevealDeadline(r)
       /\ \A g \in E \cup {e} : f.kind = g.kind /\ f.who = g.who => f = g
       /\ f.kind = "Revealed" =>
            \E c \in E \cup {e} : c.kind = "Committed" /\ c.who = f.who /\ Precedes(c, f)
  <2>1. PICK c \in E : IsVote(v, c)
    BY DEF Voted
  <2>2. Precedes(c, e) /\ c.kind = "Committed" /\ c.who = e.who
    BY <2>1 DEF Precedes, IsVote
  <2>3. \A f \in E : f.kind = "Revealed" => f.who # e.who
    BY <1>6 DEF IsReveal
  <2>4. \A f \in E : f.kind \in VoteEvents =>
       /\ r.proposed <= f.block /\ f.block <= RevealDeadline(r)
       /\ \A g \in E : f.kind = g.kind /\ f.who = g.who => f = g
       /\ f.kind = "Revealed" =>
            \E b \in E : b.kind = "Committed" /\ b.who = f.who /\ Precedes(b, f)
    BY <1>4 DEF Voted
  <2> QED BY <1>4, <2>2, <2>3, <2>4
<1> QED BY <1>9, <1>10, <1>11 DEF Voted

LEMMA RevealKeeps ==
  ASSUME ChainInv, NEW q \in Requests, NEW v \in record[q].votes, NEW vote \in Ballots[v.who],
         Reveal(q, v, vote)
  PROVE  ChainInv'
<1> DEFINE old == record[q]
           E == History(q, Building)
           votes == (old.votes \ {v}) \cup {[v EXCEPT !.vote = vote]}
           r == [old EXCEPT !.votes = votes]
           closed == IF Has(votes, "PENDING") THEN r ELSE Resolved(r)
           e == Event(0, "Revealed", q, v.who, vote)
           D == DisputeEvents(1, q, closed)
<1>1. old \in RecordType /\ Fits(old, E)
  BY InHistory
<1>2. height \in Nat /\ Building \in Nat /\ Building # 0 /\ index \in Nat
  BY InHistory
<1>3. /\ old.state = "PENDING" /\ v.vote = "PENDING" /\ Building <= RevealDeadline(old)
      /\ record' = [record EXCEPT ![q] = closed] /\ Keep
      /\ log' = log \cup ({e} \cup D) /\ index' = index + Cardinality({e} \cup D)
  BY DEF Reveal, Emit
<1>4. v \in VoteType /\ vote \in {"APPROVED", "DENIED"}
  BY <1>1, Windows DEF RecordType, VoteType
<1>5. votes \subseteq VoteType
  <2>1. [v EXCEPT !.vote = vote] \in VoteType
    BY <1>4 DEF VoteType
  <2> QED BY <1>1, <2>1 DEF RecordType
<1>6. old.proposed \in 1 .. Building
  BY <1>3, InHistory
<1>7. /\ e.kind = "Revealed" /\ e.who = v.who /\ e.data = vote /\ e.id = q
      /\ e.block = Building /\ e.at = index
  BY <1>2 DEF Event
<1> HIDE DEF e
<1>8. /\ r \in RecordType /\ r.votes = votes /\ r.proposed = old.proposed /\ r.state = old.state
      /\ r.frozen = old.frozen /\ r.outcome = old.outcome /\ r.settled = old.settled
  BY <1>1, <1>5 DEF RecordType
<1>9. Voted(r, E \cup {e})
  <2>1. Voted(old, E)
    BY <1>1 DEF Fits
  <2>2. \A f \in E : f.at \in Nat /\ f.block \in 1 .. Building /\ (f.block = Building => f.at < index)
    BY InHistory
  <2>3. old.proposed <= Building
    BY <1>2, <1>6
  <2> HIDE DEF E, r, old
  <2>4. r.votes = (old.votes \ {v}) \cup {[v EXCEPT !.vote = vote]} /\ v \in old.votes
    BY <1>8 DEF old
  <2> QED BY <1>1, <1>2, <1>3, <1>4, <1>7, <1>8, <2>1, <2>2, <2>3, <2>4, RevealedVote
<1> HIDE DEF r, votes
<1>10. /\ closed \in RecordType /\ closed.state # "NONE"
       /\ closed.votes = r.votes /\ closed.proposed = old.proposed
       /\ closed.outcome = old.outcome /\ closed.settled = old.settled
       /\ IF closed.state = "FROZEN" THEN closed.frozen = Building ELSE closed.frozen = old.frozen
  BY <1>2, <1>3, <1>8, Resolving
<1> HIDE DEF closed
<1>11. old.frozen = 0 /\ old.settled = 0
  BY <1>1, <1>3, UndisputedSoFar
<1>12. \/ closed.state # "FROZEN" /\ D = {}
       \/ /\ closed.state = "FROZEN"
          /\ \E d : /\ D = {d} /\ d.id = q /\ d.block = Building /\ d.at = index + 1
                    /\ d.kind = "DisputeTriggered" /\ d.data = ArbitrationDeadline(closed)
  BY <1>2, DisputeLog
<1> HIDE DEF D, E, old
<1>13. Fits(closed, E \cup ({e} \cup D))
  <2>1. Posted(closed, E \cup ({e} \cup D))
    BY <1>1, <1>3, <1>10, PostedKept DEF Fits
  <2>2. Voted(closed, E \cup ({e} \cup D))
    <3>1. \A f \in D : f.kind \notin VoteEvents
      BY <1>12 DEF VoteEvents
    <3>2. Voted(closed, (E \cup {e}) \cup D)
      BY <1>8, <1>9, <1>10, <3>1, VotesKept
    <3>3. (E \cup {e}) \cup D = E \cup ({e} \cup D)
      OBVIOUS
    <3> QED BY <3>2, <3>3
  <2>3. Arbitrated(closed, E \cup ({e} \cup D))
    <3>1. e.kind \notin ArbitrationEvents /\ Arbitrated(old, E)
      BY <1>1, <1>7 DEF ArbitrationEvents, Outcomes, Fits
    <3>2. CASE closed.state # "FROZEN"
      BY <1>10, <1>11, <1>12, <3>1, <3>2, NoDispute
    <3>3. CASE closed.state = "FROZEN"
      <4>1. PICK d : D = {d} /\ d.block = Building /\ d.kind = "DisputeTriggered" /\ d.data = ArbitrationDeadline(closed)
        BY <1>12, <3>3
      <4>2. Frozen(closed, d) /\ closed.proposed <= Building /\ closed.frozen = Building
        BY <1>2, <1>6, <1>10, <3>3, <4>1 DEF Frozen
      <4>3. \A f \in {e} \cup D : f.kind \in ArbitrationEvents => f = d
        BY <3>1, <4>1
      <4> QED BY <1>2, <1>10, <1>11, <3>1, <3>3, <4>1, <4>2, <4>3, NewDispute
    <3> QED BY <3>2, <3>3
  <2> QED BY <2>1, <2>2, <2>3 DEF Fits
<1>14. IsFiniteSet({e} \cup D) /\ (D = {} => index' = index + 1) /\ (D # {} => index' = index + 2)
  <2>1. Cardinality({e}) = 1 /\ IsFiniteSet({e})
    BY FS_Singleton
  <2>2. CASE D = {}
    BY <1>3, <2>1, <2>2
  <2>3. CASE D # {}
    <3>1. PICK d : D = {d} /\ d.at = index + 1
      BY <1>12, <2>3
    <3>2. d \notin {e}
      BY <1>2, <1>7, <3>1
    <3>3. {e} \cup D = {e} \cup {d}
      BY <3>1
    <3>4. IsFiniteSet({e} \cup {d}) /\ Cardinality({e} \cup {d}) = 1 + 1
      BY <2>1, <3>2, FS_AddElement
    <3>5. IsFiniteSet({e} \cup D) /\ Cardinality({e} \cup D) = 2
      BY <3>3, <3>4
    <3> QED BY <1>3, <2>3, <3>5
  <2> QED BY <2>2, <2>3
<1>15. \A f \in {e} \cup D : /\ f.id = q /\ f.block = Building /\ f.at \in Nat
                             /\ index <= f.at /\ f.at < index'
                             /\ \A g \in {e} \cup D : f.at = g.at => f = g
  BY <1>2, <1>7, <1>12, <1>14
<1>16. index' \in Nat /\ index <= index'
  BY <1>2, <1>14
<1> QED BY <1>3, <1>10, <1>11, <1>13, <1>14, <1>15, <1>16, Transaction DEF E, old

LEMMA FinalizeKeeps == ASSUME ChainInv, NEW q \in Requests, Finalize(q) PROVE ChainInv'
<1> DEFINE old == record[q]
           E == History(q, Building)
           closed == Resolved(old)
           D == DisputeEvents(0, q, closed)
<1>1. old \in RecordType /\ Fits(old, E)
  BY InHistory
<1>2. height \in Nat /\ Building \in Nat /\ Building # 0 /\ index \in Nat
  BY InHistory
<1>3. /\ old.state = "PENDING" /\ Keep /\ record' = [record EXCEPT ![q] = closed]
  BY DEF Finalize
<1>4. log' = log \cup D /\ index' = index + Cardinality(D)
  <2>1. record'[q] = closed
    BY <1>3 DEF ChainInv, ChainType
  <2> HIDE DEF closed
  <2> QED BY <2>1 DEF Finalize, Emit
<1>5. old.proposed \in 1 .. Building
  BY <1>3, InHistory
<1>6. /\ closed \in RecordType /\ closed.state # "NONE"
      /\ closed.votes = old.votes /\ closed.proposed = old.proposed
      /\ closed.outcome = old.outcome /\ closed.settled = old.settled
      /\ IF closed.state = "FROZEN" THEN closed.frozen = Building ELSE closed.frozen = old.frozen
  BY <1>1, <1>2, Resolving
<1> HIDE DEF closed
<1>7. old.frozen = 0 /\ old.settled = 0
  BY <1>1, <1>3, UndisputedSoFar
<1>8. \/ closed.state # "FROZEN" /\ D = {}
      \/ /\ closed.state = "FROZEN"
         /\ \E d : /\ D = {d} /\ d.id = q /\ d.block = Building /\ d.at = index + 0
                   /\ d.kind = "DisputeTriggered" /\ d.data = ArbitrationDeadline(closed)
  BY <1>2, DisputeLog
<1> HIDE DEF D, E, old
<1>9. Posted(closed, E \cup D)
  BY <1>1, <1>3, <1>6, PostedKept DEF Fits
<1>10. Voted(closed, E \cup D)
  <2>1. \A f \in D : f.kind \notin VoteEvents
    BY <1>8 DEF VoteEvents
  <2> QED BY <1>1, <1>6, <2>1, VotesKept DEF Fits
<1>11. Arbitrated(closed, E \cup D)
  <2>1. Arbitrated(old, E)
    BY <1>1 DEF Fits
  <2>2. CASE closed.state # "FROZEN"
    BY <1>6, <1>7, <1>8, <2>1, <2>2, NoDispute
  <2>3. CASE closed.state = "FROZEN"
    <3>1. PICK d : D = {d} /\ d.block = Building /\ d.kind = "DisputeTriggered" /\ d.data = ArbitrationDeadline(closed)
      BY <1>8, <2>3
    <3>2. Frozen(closed, d) /\ closed.proposed <= Building /\ closed.frozen = Building
      BY <1>2, <1>5, <1>6, <2>3, <3>1 DEF Frozen
    <3>3. \A f \in D : f.kind \in ArbitrationEvents => f = d
      BY <3>1
    <3> QED BY <1>2, <1>6, <1>7, <2>1, <2>3, <3>1, <3>2, <3>3, NewDispute
  <2> QED BY <2>2, <2>3
<1>12. IsFiniteSet(D) /\ (D = {} => index' = index) /\ (D # {} => index' = index + 1)
  <2>1. \A d : Cardinality({d}) = 1 /\ IsFiniteSet({d})
    BY FS_Singleton
  <2>2. CASE D = {}
    BY <1>2, <1>4, <2>2, FS_EmptySet
  <2>3. CASE D # {}
    BY <1>4, <1>8, <2>1, <2>3
  <2> QED BY <2>2, <2>3
<1>13. \A f \in D : /\ f.id = q /\ f.block = Building /\ f.at \in Nat
                    /\ index <= f.at /\ f.at < index' /\ \A g \in D : f.at = g.at => f = g
  BY <1>2, <1>8, <1>12
<1>14. index' \in Nat /\ index <= index'
  BY <1>2, <1>12
<1>15. Fits(closed, E \cup D)
  BY <1>9, <1>10, <1>11 DEF Fits
<1> QED BY <1>3, <1>4, <1>6, <1>7, <1>12, <1>13, <1>14, <1>15, Transaction DEF E, old

\* What an outcome's log says of how the dispute ended.
Ends(state, outcome, kind) ==
  \/ kind = "DisputeResolved" /\ state = "RESOLVED_APPROVED" /\ outcome = "SECURE"
  \/ kind = "DisputeResolved" /\ state = "RESOLVED_DENIED" /\ outcome = "INSECURE"
  \/ kind = "DisputeOutOfScope" /\ state = "TIMED_OUT" /\ outcome = "OUT_OF_SCOPE"
  \/ kind = "ArbitrationTimedOut" /\ state = "TIMED_OUT" /\ outcome = "TIMED_OUT"

LEMMA EndsTold ==
  ASSUME NEW state, NEW outcome, NEW kind, Ends(state, outcome, kind),
         NEW o, o.kind = kind, o.data = state
  PROVE  /\ OutcomeOf(o) = outcome /\ OutcomeState(outcome) = state /\ kind \in Outcomes
         /\ outcome \in OutcomeNames \ {"PENDING"} /\ state \in States \ {"NONE", "PENDING", "FROZEN"}
         /\ kind = "DisputeResolved" => state \in {"RESOLVED_APPROVED", "RESOLVED_DENIED"}
BY DEF Ends, OutcomeOf, OutcomeState, Outcomes, OutcomeNames, States

LEMMA SettleKeeps ==
  ASSUME ChainInv, NEW q \in Requests, NEW state, NEW outcome, NEW kind, Ends(state, outcome, kind),
         Settle(q, state, outcome, kind)
  PROVE  ChainInv'
<1> DEFINE old == record[q]
           E == History(q, Building)
           o == Event(0, kind, q, "none", state)
           r == [old EXCEPT !.state = state, !.outcome = outcome, !.settled = Building]
<1>1. old \in RecordType /\ Fits(old, E)
  BY InHistory
<1>2. height \in Nat /\ Building \in Nat /\ Building # 0 /\ index \in Nat
  BY InHistory
<1>3. /\ old.state = "FROZEN" /\ Keep /\ log' = log \cup {o} /\ index' = index + Cardinality({o})
      /\ record' = [record EXCEPT ![q] = r]
  BY DEF Settle, Emit
<1>4. o.kind = kind /\ o.data = state /\ o.id = q /\ o.block = Building /\ o.at = index
  BY <1>2 DEF Event
<1>5. /\ OutcomeOf(o) = outcome /\ OutcomeState(outcome) = state /\ kind \in Outcomes
      /\ outcome \in OutcomeNames \ {"PENDING"} /\ state \in States \ {"NONE", "PENDING", "FROZEN"}
      /\ kind = "DisputeResolved" => state \in {"RESOLVED_APPROVED", "RESOLVED_DENIED"}
  BY <1>4, EndsTold
<1> HIDE DEF o
<1>6. /\ r \in RecordType /\ r.votes = old.votes /\ r.proposed = old.proposed /\ r.state = state
      /\ r.frozen = old.frozen /\ r.outcome = outcome /\ r.settled = Building
  BY <1>1, <1>2, <1>5 DEF RecordType
<1>7. \A e \in E : /\ e.at \in Nat /\ e.block \in 1 .. Building
                   /\ e.block = Building => e.at < index
  BY InHistory
<1> HIDE DEF r, E, old
<1>8. old.frozen # 0 /\ old.settled = 0 /\ old.proposed <= old.frozen
  <2>1. old.frozen # 0 /\ old.proposed <= old.frozen
    BY <1>1, <1>3 DEF Fits, Arbitrated
  <2>2. ASSUME old.settled # 0 PROVE FALSE
    <3>1. PICK e \in E : Settled(old, e)
      BY <1>1, <2>2 DEF Fits, Arbitrated
    <3>2. OutcomeState(old.outcome) = "FROZEN"
      BY <1>1, <1>3, <2>1 DEF Fits, Arbitrated
    <3>3. old.outcome \in {"SECURE", "INSECURE", "OUT_OF_SCOPE", "TIMED_OUT"}
      BY <1>1, <2>2 DEF Fits, Arbitrated, RecordType, OutcomeNames
    <3> QED BY <3>2, <3>3 DEF OutcomeState
  <2> QED BY <2>1, <2>2
<1>9. Posted(r, E \cup {o})
  BY <1>1, <1>3, <1>5, <1>6, PostedKept DEF Fits
<1>10. Voted(r, E \cup {o})
  <2>1. o.kind \notin VoteEvents
    BY <1>4, <1>5 DEF VoteEvents, Outcomes
  <2> QED BY <1>1, <1>6, <2>1, VotesKept DEF Fits
<1>11. Arbitrated(r, E \cup {o})
  <2>1. /\ \E d \in E : Frozen(old, d)
        /\ \A d \in E : d.kind = "DisputeTriggered" => Frozen(old, d) /\ \A f \in E : f.kind = d.kind => f = d
        /\ \A e \in E : e.kind \notin Outcomes
    BY <1>1, <1>8 DEF Fits, Arbitrated
  <2>2. \A d : Frozen(r, d) <=> Frozen(old, d)
    BY <1>6 DEF Frozen, ArbitrationDeadline
  <2>3. o.kind \in Outcomes /\ o.kind # "DisputeTriggered" /\ Settled(r, o)
    BY <1>4, <1>5, <1>6 DEF Settled, Outcomes
  <2>4. \A e \in E : Precedes(e, o) /\ e.block <= Building
    BY <1>2, <1>4, <1>7 DEF Precedes
  <2>5. r.frozen <= r.settled
    <3>1. PICK d \in E : Frozen(old, d)
      BY <2>1
    <3> QED BY <1>6, <1>7, <3>1 DEF Frozen
  <2>6. /\ r.frozen # 0 /\ r.settled # 0 /\ r.outcome # "PENDING" /\ r.state \notin {"NONE", "PENDING"}
        /\ OutcomeState(r.outcome) = r.state /\ r.proposed <= r.frozen
    BY <1>2, <1>5, <1>6, <1>8
  <2>7. o.block <= r.settled /\ \A e \in E : e.block <= r.settled
    BY <1>2, <1>4, <1>6, <2>4
  <2> QED BY <2>1, <2>2, <2>3, <2>4, <2>5, <2>6, <2>7 DEF Arbitrated
<1>12. Cardinality({o}) = 1 /\ IsFiniteSet({o})
  BY FS_Singleton
<1>13. \A f \in {o} : /\ f.id = q /\ f.block = Building /\ f.at \in Nat
                      /\ index <= f.at /\ f.at < index' /\ \A g \in {o} : f.at = g.at => f = g
  BY <1>2, <1>3, <1>4, <1>12
<1>14. index' \in Nat /\ index <= index'
  BY <1>2, <1>3, <1>12
<1>15. Fits(r, E \cup {o})
  BY <1>9, <1>10, <1>11 DEF Fits
<1> QED BY <1>3, <1>6, <1>8, <1>12, <1>13, <1>14, <1>15, Transaction DEF E, old

LEMMA MineKeeps == ASSUME ChainInv, Mine PROVE ChainInv'
<1>1. /\ height \in Nat /\ Building = height + 1 /\ height' = Building /\ Building' = Building + 1
      /\ log' = log /\ record' = record /\ index' = 0 /\ past' = Append(past, record)
  BY DEF ChainInv, ChainType, Mine, Building
<1>2. ChainType'
  <2>1. past' \in Seq([Requests -> RecordType]) /\ Len(past') = height'
    <3> HIDE DEF RecordType
    <3>1. record \in [Requests -> RecordType] /\ past \in Seq([Requests -> RecordType]) /\ Len(past) = height
      BY DEF ChainInv, ChainType
    <3> DEFINE R == [Requests -> RecordType]
    <3> HIDE DEF R
    <3>2. record \in R /\ past \in Seq(R)
      BY <3>1 DEF R
    <3>3. past' \in Seq(R) /\ Len(past') = Len(past) + 1
      BY <1>1, <3>2, AppendProperties
    <3> QED BY <1>1, <3>1, <3>3 DEF R
  <2> QED BY <1>1, <2>1 DEF ChainInv, ChainType, Mine
<1>3. /\ \A b \in 1 .. height : past'[b] = past[b]
      /\ past'[Building] = record
  BY <1>1 DEF ChainInv, ChainType
<1>4. Placed'
  BY <1>1 DEF ChainInv, Placed
<1>5. \A q \in Requests : \A b \in 1 .. Building : History(q, b)' = History(q, b)
  BY <1>1 DEF History
<1>6. \A q \in Requests : History(q, Building)' = History(q, Building)
  BY <1>1 DEF ChainInv, Placed, History
<1>7. ASSUME NEW q \in Requests
      PROVE  /\ Fits(record[q], History(q, Building))'
             /\ \A b \in 1 .. height' : Fits(past[b][q], History(q, b))'
             /\ Settlement(q)'
  <2>1. /\ Fits(record[q], History(q, Building))
        /\ \A b \in 1 .. height : Fits(past[b][q], History(q, b))
        /\ Settlement(q)
    BY DEF ChainInv
  <2>2. Fits(record[q], History(q, Building))'
    BY <1>1, <1>6, <2>1
  <2>3. \A b \in 1 .. height' : Fits(past[b][q], History(q, b))'
    <3> SUFFICES ASSUME NEW b \in 1 .. Building PROVE Fits(past'[b][q], History(q, b)')
      BY <1>1
    <3>1. CASE b \in 1 .. height
      BY <1>3, <1>5, <2>1, <3>1
    <3>2. CASE b = Building
      BY <1>3, <1>5, <2>1, <3>2
    <3>3. b \in 1 .. height \/ b = Building
      BY <1>1
    <3> QED BY <3>1, <3>2, <3>3
  <2>4. Settlement(q)'
    <3>1. \A b \in 1 .. height : past[b][q].settled # 0 =>
            record[q] = past[b][q] /\ \A c \in b .. height : past[c][q] = past[b][q]
      BY <2>1 DEF Settlement
    <3>2. \A b \in 1 .. Building : past'[b][q].settled # 0 =>
            record[q] = past'[b][q] /\ \A c \in b .. Building : past'[c][q] = past'[b][q]
      <4>0. height \in Nat /\ Building = height + 1
        BY <1>1
      <4>1. \A b \in 1 .. Building : b \in 1 .. height \/ b = Building
        BY <4>0
      <4>2. ASSUME NEW b \in 1 .. height, past'[b][q].settled # 0
            PROVE  record[q] = past'[b][q] /\ \A c \in b .. Building : past'[c][q] = past'[b][q]
        BY <1>3, <3>1, <4>0, <4>2
      <4>3. record[q] = past'[Building][q] /\ \A c \in Building .. Building : past'[c][q] = past'[Building][q]
        BY <1>3, <4>0
      <4> QED BY <4>1, <4>2, <4>3
    <3> QED BY <1>1, <3>2 DEF Settlement
  <2> QED BY <2>2, <2>3, <2>4
<1>8. IsFiniteSet(log')
  BY <1>1 DEF ChainInv
<1> QED BY <1>2, <1>4, <1>7, <1>8 DEF ChainInv

LEMMA FinalizeBlockKeeps == ASSUME ChainInv, FinalizeBlock PROVE ChainInv'
<1>1. ChainType'
  BY DEF ChainInv, ChainType, FinalizeBlock
<1>2. UNCHANGED <<height, log, index, record, past>>
  BY DEF FinalizeBlock
<1>3. Building' = Building /\ Placed' /\ IsFiniteSet(log')
  BY <1>2 DEF ChainInv, Placed, Building
<1>4. \A q \in Requests : \A b : History(q, b)' = History(q, b)
  BY <1>2 DEF History
<1>5. ASSUME NEW q \in Requests
      PROVE  /\ Fits(record[q], History(q, Building))'
             /\ \A b \in 1 .. height' : Fits(past[b][q], History(q, b))'
             /\ Settlement(q)'
  BY <1>2, <1>3, <1>4 DEF ChainInv, Settlement
<1> QED BY <1>1, <1>3, <1>5 DEF ChainInv

LEMMA ReorgKeeps == ASSUME ChainInv, NEW b \in 1 .. height, Reorg(b) PROVE ChainInv'
<1>1. /\ height \in Nat /\ Building = height + 1 /\ height' = b /\ Building' = b + 1 /\ b \in finalized .. height - 1
      /\ log' = {e \in log : e.block <= b} /\ index' = 0 /\ record' = past[b] /\ past' = SubSeq(past, 1, b)
      /\ reorgs' = reorgs + 1 /\ finalized' = finalized
  BY DEF ChainInv, ChainType, Reorg, Building
<1>2. /\ past' \in Seq([Requests -> RecordType]) /\ Len(past') = b /\ past[b] \in [Requests -> RecordType]
      /\ \A c \in 1 .. b : past'[c] = past[c]
  <2> DEFINE R == [Requests -> RecordType]
  <2> HIDE DEF R
  <2>1. past \in Seq(R) /\ Len(past) = height
    BY DEF R, ChainInv, ChainType
  <2>2. past' \in Seq(R) /\ Len(past') = b /\ past[b] \in R /\ \A c \in 1 .. b : past'[c] = past[c]
    BY <1>1, <2>1, SubSeqProperties
  <2> QED BY <2>2 DEF R
<1>3. ChainType'
  BY <1>1, <1>2 DEF ChainInv, ChainType
<1>4. Placed'
  BY <1>1 DEF ChainInv, Placed
<1>5. IsFiniteSet(log')
  BY <1>1, FS_Subset DEF ChainInv
<1>6. \A q \in Requests : /\ \A c \in 1 .. b : History(q, c)' = History(q, c)
                          /\ History(q, Building)' = History(q, b)
  BY <1>1 DEF ChainInv, Placed, History
<1>7. ASSUME NEW q \in Requests
      PROVE  /\ Fits(record[q], History(q, Building))'
             /\ \A c \in 1 .. height' : Fits(past[c][q], History(q, c))'
             /\ Settlement(q)'
  <2>1. /\ \A c \in 1 .. height : Fits(past[c][q], History(q, c))
        /\ Settlement(q)
    BY DEF ChainInv
  <2>2. Fits(record[q], History(q, Building))'
    BY <1>1, <1>6, <2>1
  <2>3. \A c \in 1 .. height' : Fits(past[c][q], History(q, c))'
    BY <1>1, <1>2, <1>6, <2>1
  <2>4. Settlement(q)'
    BY <1>1, <1>2, <2>1 DEF Settlement
  <2> QED BY <2>2, <2>3, <2>4
<1> QED BY <1>3, <1>4, <1>5, <1>7 DEF ChainInv

Voting(q) ==
  \/ \E s \in Sentinels : Commit(q, s)
  \/ \E v \in record[q].votes : \E vote \in Ballots[v.who] : Reveal(q, v, vote)
Ruling(q) == RuleSecure(q) \/ RuleInsecure(q) \/ MarkOutOfScope(q) \/ TimeOutArbitration(q)
Transacts(q) == Propose(q) \/ Voting(q) \/ Finalize(q) \/ Ruling(q)

LEMMA ChainKeeps == ASSUME ChainInv, ChainNext PROVE ChainInv'
<1>1. ASSUME NEW q \in Requests, Transacts(q)
      PROVE  ChainInv'
  <2>1. CASE Ruling(q)
    BY <2>1, SettleKeeps DEF Ruling, RuleSecure, RuleInsecure, MarkOutOfScope, TimeOutArbitration, Ends
  <2>2. CASE Voting(q)
    BY <2>2, CommitKeeps, RevealKeeps DEF Voting
  <2> QED BY <1>1, <2>1, <2>2, ProposeKeeps, FinalizeKeeps DEF Transacts
<1> QED BY <1>1, MineKeeps, FinalizeBlockKeeps, ReorgKeeps DEF ChainNext, Transacts, Voting, Ruling

\* What is known of a block that isn't reorganized doesn't change.
LEMMA BlockStays ==
  ASSUME ChainInv, ChainNext, NEW b \in 1 .. height, b <= finalized \/ MaxReorgs = 0
  PROVE  /\ b \in 1 .. height'
         /\ \A c \in 1 .. b : past'[c] = past[c]
         /\ \A q \in Requests : \A c \in 1 .. b : History(q, c)' = History(q, c)
         /\ finalized <= finalized'
<1>1. /\ height \in Nat /\ height # 0 /\ finalized \in 1 .. height /\ reorgs \in Nat /\ Building = height + 1
      /\ Len(past) = height /\ past \in Seq([Requests -> RecordType])
  BY DEF ChainInv, ChainType, Building
<1>2. ASSUME Keep, NEW N, log' = log \cup N, \A e \in N : e.block = Building
      PROVE  /\ b \in 1 .. height'
             /\ \A c \in 1 .. b : past'[c] = past[c]
             /\ \A q \in Requests : \A c \in 1 .. b : History(q, c)' = History(q, c)
             /\ finalized <= finalized'
  <2>1. \A e \in N : \A c \in 1 .. b : ~(e.block <= c)
    BY <1>1, <1>2
  <2> QED BY <1>1, <1>2, <2>1 DEF Keep, History
<1>3. ASSUME NEW q \in Requests, Transacts(q)
      PROVE  Keep /\ \E N : log' = log \cup N /\ \A e \in N : e.block = Building
  <2>1. \A n, kind, p, who, data : Event(n, kind, p, who, data).block = Building
    BY DEF Event
  <2>2. \A n, p, r : \A e \in DisputeEvents(n, p, r) : e.block = Building
    BY <2>1 DEF DisputeEvents
  <2>3. CASE Propose(q)
    BY <2>1, <2>3 DEF Propose, Emit
  <2>4. CASE Voting(q)
    <3>1. CASE \E s \in Sentinels : Commit(q, s)
      BY <2>1, <3>1 DEF Commit, Emit
    <3>2. ASSUME NEW v, NEW vote, Reveal(q, v, vote)
          PROVE  Keep /\ \E N : log' = log \cup N /\ \A e \in N : e.block = Building
      <4>1. Keep /\ \E r : log' = log \cup ({Event(0, "Revealed", q, v.who, vote)} \cup DisputeEvents(1, q, r))
        BY <3>2 DEF Reveal, Emit
      <4> QED BY <2>1, <2>2, <4>1
    <3> QED BY <2>4, <3>1, <3>2 DEF Voting
  <2>5. CASE Finalize(q)
    BY <2>2, <2>5 DEF Finalize, Emit
  <2>6. CASE Ruling(q)
    <3>1. PICK state, outcome, kind : Settle(q, state, outcome, kind)
      BY <2>6 DEF Ruling, RuleSecure, RuleInsecure, MarkOutOfScope, TimeOutArbitration
    <3> QED BY <2>1, <3>1 DEF Settle, Emit
  <2> QED BY <1>3, <2>3, <2>4, <2>5, <2>6 DEF Transacts
<1>4. CASE Mine
  BY <1>1, <1>4 DEF Mine, History
<1>5. CASE FinalizeBlock
  BY <1>1, <1>5 DEF FinalizeBlock, History
<1>6. ASSUME NEW a \in 1 .. height, Reorg(a)
      PROVE  /\ b \in 1 .. height'
             /\ \A c \in 1 .. b : past'[c] = past[c]
             /\ \A q \in Requests : \A c \in 1 .. b : History(q, c)' = History(q, c)
             /\ finalized <= finalized'
  <2>1. /\ reorgs < MaxReorgs /\ a \in finalized .. height - 1 /\ height' = a /\ finalized' = finalized
        /\ log' = {e \in log : e.block <= a} /\ past' = SubSeq(past, 1, a)
    BY <1>6 DEF Reorg
  <2>2. b <= a
    BY <1>1, <2>1
  <2>3. \A c \in 1 .. a : past'[c] = past[c]
    <3> DEFINE R == [Requests -> RecordType]
    <3> HIDE DEF R
    <3>1. past \in Seq(R)
      BY <1>1 DEF R
    <3> QED BY <1>1, <2>1, <3>1, SubSeqProperties
  <2>4. \A q \in Requests : \A c \in 1 .. b : History(q, c)' = History(q, c)
    BY <1>1, <2>1, <2>2 DEF History, ChainInv, Placed
  <2>5. b \in 1 .. height' /\ finalized <= finalized' /\ \A c \in 1 .. b : c \in 1 .. a
    BY <1>1, <2>1, <2>2
  <2> QED BY <2>3, <2>4, <2>5
<1> QED BY <1>2, <1>3, <1>4, <1>5, <1>6 DEF ChainNext, Transacts, Voting, Ruling
-----------------------------------------------------------------------------
(* What a query knows of the chain *)

\* The block that the result is as of, if it isn't reorganized, and the logs and
\* the records that there are as of it.
Base == IF query.kind = "rulings" THEN query.to ELSE block
Sure == pc \notin {"idle", "refused"} /\ Final(Base)
Known == {e \in log : e.block <= Base}
RecordOf(q) == past[Base][q]

QueryShape ==
  /\ pc = "idle" => result = <<>> /\ found = <<>> /\ query.kind = "none"
  /\ pc = "refused" => query.kind = "rulings"
  /\ pc \notin {"idle", "refused"} =>
       /\ query.kind \in {"pending", "request", "rulings"}
       /\ block \in Nat \ {0} /\ pinnedFinal \in Nat /\ pinnedFinal <= finalized
       /\ query.kind = "request" => query.id \in Requests
       /\ query.kind = "rulings" =>
            /\ query.from \in Nat \ {0} /\ query.to \in Nat
            /\ query.from <= query.to /\ query.to <= block
  /\ Sure => Base \in 1 .. height

\* A scan has the logs known from block f on, up to those that are still to come.
ScannedFrom(f, t, kinds, ids) ==
  /\ next = [from |-> next.from, to |-> t]
  /\ next.from \in Nat /\ f <= next.from /\ next.from <= t
  /\ logs = {e \in Known : /\ f <= e.block /\ e.block < next.from
                           /\ e.kind \in kinds /\ e.id \in ids}

DueFrom == block - Lower(ArbitrationTimeout, block)

\* A query for what is pending scans for disputes.
Pends ==
  /\ pc \in {"disputes", "done", "failed"}
  /\ pc = "disputes" => ScannedFrom(DueFrom, block, ArbitrationEvents, Requests)
  /\ pc = "done" => PendingIsExact

RulingEvents == {"DisputeResolved", "DisputeOutOfScope"}

\* The requests found are those that were asked for.
Wanted ==
  /\ found \in Seq(Requests)
  /\ query.kind = "request" => found = <<query.id>>
  /\ query.kind = "rulings" =>
       /\ {found[i] : i \in DOMAIN found} = RuledIn(query.from, query.to)
       /\ \A i, j \in DOMAIN found :
            i < j => /\ found[i] # found[j]
                     /\ RecordOf(found[i]).settled <= RecordOf(found[j]).settled

Truths == {Truth(q, Base) : q \in Requests}

\* Those that were read are what they were as of Base.
ReadSoFar ==
  /\ result \in Seq(Truths) /\ Len(result) <= Len(found)
  /\ \A i \in DOMAIN result : result[i] = Truth(found[i], Base)

\* What is known of request q, whose record is r, before its votes, and before its
\* arbitration.
Begun(q, r, proposed) ==
  [id |-> q, state |-> r.state, proposed |-> proposed, votes |-> <<>>, arbitration |-> NoArbitration]
WithVotes(q, r) ==
  [id |-> q, state |-> r.state, proposed |-> r.proposed, votes |-> InCommitOrder(r.votes),
   arbitration |-> [frozen |-> r.frozen, outcome |-> "PENDING", settled |-> 0]]

ReadingVotes(q, r) ==
  /\ request = Begun(q, r, r.proposed)
  /\ ScannedFrom(r.proposed, Lower(RevealDeadline(r), block), VoteEvents, {q})
ReadingArbitration(q, r) ==
  /\ r.frozen # 0 /\ request = WithVotes(q, r) /\ Settling(logs) = {}
  /\ ScannedFrom(r.frozen, IF r.state = "FROZEN" THEN r.frozen ELSE block, ArbitrationEvents, {q})

Reads ==
  /\ pc \in {"rulings", "record", "proposal", "votes", "arbitration", "done", "failed", "not found"}
  /\ pc = "not found" => query.kind = "request" /\ RecordOf(query.id).state = "NONE"
  /\ pc = "rulings" =>
       /\ query.kind = "rulings" /\ result = <<>>
       /\ ScannedFrom(query.from, query.to, RulingEvents, Requests)
  /\ pc \in {"record", "proposal", "votes", "arbitration", "done"} => Wanted /\ ReadSoFar
  /\ pc = "done" => Len(result) = Len(found)
  /\ pc \in {"record", "proposal", "votes", "arbitration"} => Len(result) < Len(found)
  /\ pc \in {"proposal", "votes", "arbitration"} =>
       answer = Shown(RecordOf(Current)) /\ RecordOf(Current).state # "NONE"
  /\ pc = "proposal" => request = Begun(Current, RecordOf(Current), 0)
  /\ pc = "votes" => ReadingVotes(Current, RecordOf(Current))
  /\ pc = "arbitration" => ReadingArbitration(Current, RecordOf(Current))

QueryInv == QueryShape /\ (Sure => IF query.kind = "pending" THEN Pends ELSE Reads)
-----------------------------------------------------------------------------
(* What the node answers *)

\* The types of what is known, if the result's block is mined.
LEMMA BaseFacts ==
  ASSUME ChainInv, QueryInv, Sure
  PROVE  /\ Base \in 1 .. height /\ Base \in Nat /\ height \in Nat /\ Base <= block /\ block \in Nat \ {0}
         /\ \A q \in Requests :
              /\ RecordOf(q) \in RecordType /\ Fits(RecordOf(q), History(q, Base))
              /\ \A e \in History(q, Base) : e \in Known /\ e.id = q
              /\ \A e \in Known : e.id = q => e \in History(q, Base)
         /\ \A e \in Known : e \in log /\ e.id \in Requests /\ e.block \in Nat \ {0} /\ e.at \in Nat /\ e.block <= Base
<1>1. /\ Base \in 1 .. height /\ Base <= block /\ block \in Nat \ {0}
  BY DEF QueryInv, QueryShape, Sure, Base
<1>2. height \in Nat /\ Building = height + 1 /\ DOMAIN past = 1 .. height /\ past[Base] \in [Requests -> RecordType]
  <2> DEFINE R == [Requests -> RecordType]
  <2> HIDE DEF R
  <2>1. past \in Seq(R) /\ Len(past) = height /\ height \in Nat
    BY DEF ChainInv, ChainType, R
  <2>2. DOMAIN past = 1 .. height /\ past[Base] \in R
    BY <1>1, <2>1
  <2> QED BY <2>1, <2>2 DEF R, Building
<1>3. \A e \in log : e.id \in Requests /\ e.at \in Nat /\ e.block \in 1 .. Building
  BY DEF ChainInv, Placed
<1>4. \A q \in Requests : RecordOf(q) \in RecordType /\ Fits(RecordOf(q), History(q, Base))
  <2> HIDE DEF RecordType
  <2> QED BY <1>1, <1>2 DEF ChainInv, RecordOf
<1>5. \A e \in Known : e \in log /\ e.id \in Requests /\ e.block \in Nat \ {0} /\ e.at \in Nat /\ e.block <= Base
  BY <1>2, <1>3 DEF Known
<1> QED BY <1>1, <1>2, <1>4, <1>5 DEF Known, History

\* A request that is settled as of the result's block has the same record as of every
\* later one, and no later logs.
LEMMA SettledStays ==
  ASSUME ChainInv, QueryInv, Sure, NEW q \in Requests, RecordOf(q).settled # 0
  PROVE  /\ \A b \in Base .. height : past[b][q] = RecordOf(q)
         /\ \A e \in log : e.id = q /\ e.block <= height => e \in Known
<1>1. Base \in 1 .. height /\ Base \in Nat /\ height \in Nat /\ Fits(RecordOf(q), History(q, Base))
  BY BaseFacts
<1>2. \A b \in Base .. height : past[b][q] = RecordOf(q)
  BY <1>1 DEF ChainInv, Settlement, RecordOf
<1>3. PICK o \in History(q, Base) : Settled(RecordOf(q), o)
  BY <1>1 DEF Fits, Arbitrated
<1>4. o.block = RecordOf(q).settled /\ o.block <= Base /\ o.block \in Nat
  BY <1>3, BaseFacts DEF Settled, History
<1>5. Fits(RecordOf(q), History(q, height))
  <2>1. height \in 1 .. height /\ height \in Base .. height
    BY <1>1
  <2>2. Fits(past[height][q], History(q, height))
    BY <2>1 DEF ChainInv
  <2> QED BY <1>2, <2>1, <2>2
<1>6. \A e \in History(q, height) : e.block <= RecordOf(q).settled
  BY <1>5 DEF Fits, Arbitrated
<1>7. \A e \in log : e.id = q /\ e.block <= height => e.block \in Nat /\ e.block <= Base
  <2> TAKE e \in log
  <2> HAVE e.id = q /\ e.block <= height
  <2>1. e.block \in Nat
    BY <1>1 DEF ChainInv, Placed, Building
  <2>2. e.block <= o.block
    BY <1>4, <1>6 DEF History
  <2> QED BY <1>1, <1>4, <2>1, <2>2
<1> QED BY <1>2, <1>7 DEF Known

\* Blocks f to t have only logs that are known, if they aren't later than the result's
\* block, or if the requests were settled by then.
LEMMA LogsKnown ==
  ASSUME ChainInv, QueryInv, Sure, NEW f \in Nat, NEW t \in Nat, NEW kinds, NEW ids,
         t <= Base \/ (ids \subseteq Requests /\ \A q \in ids : RecordOf(q).settled # 0)
  PROVE  Logs(f, t, kinds, ids) =
           {e \in Known : f <= e.block /\ e.block <= t /\ e.kind \in kinds /\ e.id \in ids}
<1>1. Base <= height /\ Base \in Nat /\ height \in Nat
  BY BaseFacts
<1>2. \A e \in log : e.block \in Nat
  BY <1>1 DEF ChainInv, Placed, Building
<1>3. ASSUME NEW e \in log, e.block <= t, e.block <= height, e.id \in ids PROVE e \in Known
  <2>1. CASE t <= Base
    BY <1>1, <1>2, <1>3, <2>1 DEF Known
  <2>2. CASE ids \subseteq Requests /\ \A q \in ids : RecordOf(q).settled # 0
    BY <1>3, <2>2, SettledStays
  <2> QED BY <2>1, <2>2
<1>4. \A e \in Known : e \in log /\ e.block <= height
  BY <1>1, <1>2 DEF Known
<1> QED BY <1>3, <1>4 DEF Logs

\* The blocks of a scan: no later than the result's, or all of a settled request's.
Within(t, ids) ==
  t \in Nat /\ (t <= Base \/ (ids \subseteq Requests /\ \A q \in ids : RecordOf(q).settled # 0))

\* A chunk adds to the logs scanned those known of its blocks.
LEMMA Chunk ==
  ASSUME ChainInv, QueryInv, Sure, NEW f \in Nat, NEW to, Within(to, Ids),
         ScannedFrom(f, to, Kinds, Ids), NEW t \in next.from .. next.to
  PROVE  /\ t \in Nat /\ f <= t
         /\ Scanned(t) =
              {e \in Known : f <= e.block /\ e.block <= t /\ e.kind \in Kinds /\ e.id \in Ids}
<1>1. /\ next.to = to /\ next.from \in Nat /\ f <= next.from /\ to \in Nat
      /\ logs = {e \in Known : f <= e.block /\ e.block < next.from /\ e.kind \in Kinds /\ e.id \in Ids}
  BY DEF ScannedFrom, Within
<1>2. t \in Nat /\ next.from <= t /\ t <= to
  BY <1>1
<1>3. t <= Base \/ (Ids \subseteq Requests /\ \A q \in Ids : RecordOf(q).settled # 0)
  BY <1>1, <1>2, BaseFacts DEF Within
<1>4. Logs(next.from, t, Kinds, Ids) =
        {e \in Known : next.from <= e.block /\ e.block <= t /\ e.kind \in Kinds /\ e.id \in Ids}
  BY <1>1, <1>2, <1>3, LogsKnown
<1>5. \A e \in Known : e.block \in Nat
  BY BaseFacts
<1>6. \A e \in Known : f <= e.block /\ e.block <= t <=>
        (f <= e.block /\ e.block < next.from) \/ (next.from <= e.block /\ e.block <= t)
  BY <1>1, <1>2, <1>5
<1> QED BY <1>1, <1>2, <1>4, <1>6 DEF Scanned
-----------------------------------------------------------------------------
(* The chain goes on *)

LEMMA ChainPasses == ASSUME ChainInv, QueryInv, Chain PROVE QueryInv'
<1>1. ChainNext /\ UNCHANGED <<pc, query, block, pinnedFinal, next, logs, found, answer, request, result>>
  BY DEF Chain, queryVars
<1>2. Base' = Base /\ (Sure' <=> Sure)
  BY <1>1 DEF Base, Sure, Final
<1>3. ChainInv' /\ finalized <= finalized' /\ finalized \in Nat /\ finalized' \in Nat
  <2>1. height \in Nat /\ finalized \in 1 .. height
    BY DEF ChainInv, ChainType
  <2>2. 1 \in 1 .. height /\ 1 <= finalized
    BY <2>1
  <2>3. ChainInv' /\ finalized <= finalized'
    BY <1>1, <2>2, ChainKeeps, BlockStays
  <2>4. height' \in Nat /\ finalized' \in 1 .. height'
    BY <2>3 DEF ChainInv, ChainType
  <2> QED BY <2>1, <2>3, <2>4
<1>4. ASSUME Sure PROVE Base \in 1 .. height' /\ past'[Base] = past[Base] /\ Known' = Known
  <2>1. Base \in 1 .. height /\ Base \in Nat
    BY <1>4, BaseFacts
  <2>2. Base <= finalized \/ MaxReorgs = 0
    <3>1. pinnedFinal \in Nat /\ pinnedFinal <= finalized /\ Final(Base)
      BY <1>4 DEF QueryInv, QueryShape, Sure
    <3> QED BY <1>3, <2>1, <3>1 DEF Final
  <2>3. /\ Base \in 1 .. height' /\ past'[Base] = past[Base]
        /\ \A q \in Requests : History(q, Base)' = History(q, Base)
    <3>1. Base \in 1 .. Base
      BY <2>1
    <3> QED BY <1>1, <1>2, <2>1, <2>2, <3>1, BlockStays
  <2>4. \A e \in log : e.id \in Requests
    BY DEF ChainInv, Placed
  <2>5. \A e \in log' : e.id \in Requests
    BY <1>3 DEF ChainInv, Placed
  <2>6. \A q \in Requests : {e \in log' : e.id = q /\ e.block <= Base} = {e \in log : e.id = q /\ e.block <= Base}
    BY <1>2, <2>3 DEF History
  <2>7. Known' = {e \in log' : e.block <= Base}
    BY <1>2 DEF Known
  <2> QED BY <2>3, <2>4, <2>5, <2>6, <2>7 DEF Known
<1>5. QueryShape'
  <2>1. pinnedFinal \in Nat /\ pinnedFinal <= finalized => pinnedFinal <= finalized'
    BY <1>3
  <2> QED BY <1>1, <1>2, <1>4, <2>1 DEF QueryInv, QueryShape
<1>6. ASSUME Sure, query.kind = "pending" PROVE Pends'
  <2>1. Pends /\ Base = block
    BY <1>6 DEF QueryInv, Base
  <2>2. PendingIsExact => PendingIsExact'
    BY <1>1, <1>4, <1>6, <2>1 DEF PendingIsExact, Done, Final
  <2> QED BY <1>1, <1>4, <1>6, <2>1, <2>2 DEF Pends, ScannedFrom, DueFrom
<1>7. ASSUME Sure, query.kind # "pending" PROVE Reads'
  <2>1. Reads
    BY <1>7 DEF QueryInv
  <2>2. \A q \in Requests : Truth(q, Base)' = Truth(q, Base)
    BY <1>2, <1>4, <1>7 DEF Truth
  <2>3. Truths' = Truths
    BY <2>2 DEF Truths
  <2>4. query.kind = "rulings" => RuledIn(query.from, query.to)' = RuledIn(query.from, query.to)
    BY <1>1, <1>4, <1>7 DEF RuledIn, Base
  <2>5. Wanted => Wanted'
    BY <1>1, <1>2, <1>4, <1>7, <2>4 DEF Wanted, RecordOf
  <2>6. Wanted /\ ReadSoFar => ReadSoFar'
    BY <1>1, <1>2, <1>4, <1>7, <2>3 DEF Wanted, ReadSoFar, Truth
  <2>7. pc = "not found" => query.kind = "request" /\ RecordOf(query.id)'.state = "NONE"
    BY <1>1, <1>2, <1>4, <1>7, <2>1 DEF Reads, RecordOf
  <2>8. RecordOf(Current)' = RecordOf(Current) /\ Current' = Current
    BY <1>1, <1>2, <1>4, <1>7 DEF RecordOf, Current
  <2>9. pc = "votes" => ReadingVotes(Current, RecordOf(Current))'
    BY <1>1, <1>4, <1>7, <2>1, <2>8 DEF Reads, ReadingVotes, ScannedFrom, Begun
  <2>10. pc = "arbitration" => ReadingArbitration(Current, RecordOf(Current))'
    BY <1>1, <1>4, <1>7, <2>1, <2>8 DEF Reads, ReadingArbitration, ScannedFrom, WithVotes, Settling
  <2>11. pc = "proposal" => request' = Begun(Current, RecordOf(Current), 0)'
    BY <1>1, <1>4, <1>7, <2>1, <2>8 DEF Reads, Begun
  <2>12. pc = "rulings" => ScannedFrom(query.from, query.to, RulingEvents, Requests)'
    BY <1>1, <1>4, <1>7, <2>1 DEF Reads, ScannedFrom
  <2>13. Shown(RecordOf(Current))' = Shown(RecordOf(Current))
    BY <2>8 DEF Shown
  <2> QED BY <1>1, <2>1, <2>5, <2>6, <2>7, <2>8, <2>9, <2>10, <2>11, <2>12, <2>13 DEF Reads
<1> QED BY <1>1, <1>2, <1>5, <1>6, <1>7 DEF QueryInv
-----------------------------------------------------------------------------
(* The query *)

LEMMA QueryInitially == Init => QueryInv
BY DEF Init, QueryInv, QueryShape, Sure

\* A step of a query that leaves the chain alone.
LEMMA SameBase ==
  ASSUME QueryInv, pc \notin {"idle", "refused"}, pc' \notin {"idle", "refused"},
         UNCHANGED <<chainVars, query, block, pinnedFinal>>
  PROVE  /\ QueryShape' /\ query' = query /\ block' = block /\ past' = past
         /\ Base' = Base /\ (Sure' <=> Sure) /\ Known' = Known /\ Truths' = Truths
<1>1. UNCHANGED <<height, finalized, log, index, record, past, reorgs, query, block, pinnedFinal>>
  BY DEF chainVars
<1>2. Base' = Base /\ Sure' = Sure /\ Known' = Known /\ Truths' = Truths
  BY <1>1 DEF Base, Sure, Known, Truths, Truth, Final
<1>3. QueryShape'
  BY <1>1, <1>2 DEF QueryInv, QueryShape
<1> QED BY <1>1, <1>2, <1>3

LEMMA ConnectKeeps == ASSUME ChainInv, QueryInv, Connect PROVE QueryInv'
<1>1. /\ pc = "idle" /\ block' = height /\ pinnedFinal' = finalized
      /\ UNCHANGED <<height, finalized, log, index, record, past, reorgs>>
      /\ result = <<>> /\ found = <<>> /\ query.kind = "none"
  BY DEF Connect, chainVars, QueryInv, QueryShape
<1>2. height \in Nat \ {0} /\ finalized \in Nat
  BY DEF ChainInv, ChainType
<1>3. \A e \in log : e.block \in Nat
  BY DEF ChainInv, Placed, ChainType, Building
<1>4. CASE ConnectPending
  <2>1. /\ query' = [kind |-> "pending"] /\ pc' = "disputes" /\ logs' = {}
        /\ next' = [from |-> DueFrom', to |-> block']
    BY <1>4 DEF ConnectPending, StartScan, PendingFrom, DueFrom
  <2>2. DueFrom' \in Nat /\ DueFrom' <= block'
    BY <1>1, <1>2, Windows DEF DueFrom, Lower
  <2>3. ScannedFrom(DueFrom, block, ArbitrationEvents, Requests)'
    BY <1>1, <2>1, <2>2, <1>3 DEF ScannedFrom, Known
  <2>4. QueryShape'
    BY <1>1, <1>2, <2>1 DEF QueryShape, Base
  <2> QED BY <2>1, <2>3, <2>4 DEF QueryInv, Pends
<1>5. ASSUME NEW q \in Requests, ConnectRequest(q) PROVE QueryInv'
  <2>1. /\ query' = [kind |-> "request", id |-> q] /\ found' = <<q>> /\ result' = <<>>
        /\ pc' = "record"
    BY <1>1, <1>5 DEF ConnectRequest, NextRequest
  <2>2. QueryShape'
    BY <1>1, <1>2, <2>1 DEF QueryShape, Base
  <2>3. Wanted' /\ ReadSoFar' /\ Len(result') < Len(found')
    BY <2>1 DEF Wanted, ReadSoFar
  <2> QED BY <2>1, <2>2, <2>3 DEF QueryInv, Reads
<1>6. ASSUME NEW f \in 1 .. height, NEW t \in 1 .. height + 1, f <= t, ConnectRulings(f, t)
      PROVE  QueryInv'
  <2>1. query' = [kind |-> "rulings", from |-> f, to |-> t] /\ result' = <<>>
    BY <1>1, <1>6 DEF ConnectRulings
  <2>2. CASE t > height
    <3>1. pc' = "refused"
      BY <1>1, <1>6, <2>2 DEF ConnectRulings
    <3> QED BY <2>1, <3>1 DEF QueryInv, QueryShape, Sure
  <2>3. CASE t <= height
    <3>1. pc' = "rulings" /\ logs' = {} /\ next' = [from |-> f, to |-> t]
      BY <1>1, <1>2, <1>6, <2>3 DEF ConnectRulings, StartScan
    <3>2. QueryShape'
      BY <1>1, <1>2, <1>6, <2>1, <2>3, <3>1 DEF QueryShape, Base
    <3>3. ScannedFrom(query.from, query.to, RulingEvents, Requests)'
      BY <1>1, <1>2, <1>3, <1>6, <2>1, <3>1 DEF ScannedFrom, Known
    <3> QED BY <2>1, <3>1, <3>2, <3>3 DEF QueryInv, Reads
  <2> QED BY <1>2, <2>2, <2>3
<1> QED BY <1>4, <1>5, <1>6 DEF Connect

LEMMA CallFailsKeeps == ASSUME QueryInv, CallFails PROVE QueryInv'
<1>1. /\ pc \notin {"idle", "refused"} /\ pc' = "failed"
      /\ UNCHANGED <<chainVars, query, block, pinnedFinal>>
  BY DEF CallFails, queryVars, Scans
<1>2. QueryShape' /\ query' = query /\ (Sure' <=> Sure)
  BY <1>1, SameBase
<1> QED BY <1>1, <1>2 DEF QueryInv, Pends, Reads

\* A chunk that isn't the last one goes on with the scan.
LEMMA ScanGoesOn ==
  ASSUME ChainInv, QueryInv, Sure, NEW f \in Nat, NEW to, Within(to, Ids),
         ScannedFrom(f, to, Kinds, Ids), NEW t \in next.from .. next.to, ~Stops(t),
         logs' = Scanned(t), next' = [next EXCEPT !.from = t + 1], Known' = Known
  PROVE  /\ next' = [from |-> next'.from, to |-> to]
         /\ next'.from \in Nat /\ f <= next'.from /\ next'.from <= to
         /\ logs' = {e \in Known' : f <= e.block /\ e.block < next'.from /\ e.kind \in Kinds /\ e.id \in Ids}
<1>1. next = [from |-> next.from, to |-> to] /\ to \in Nat /\ next.from \in Nat
  BY DEF ScannedFrom, Within
<1>2. t \in Nat /\ f <= t /\ t <= to /\ t # to
  BY <1>1, Chunk DEF Stops
<1>3. next' = [from |-> t + 1, to |-> to]
  BY <1>1
<1>4. \A e \in Known : e.block \in Nat
  BY BaseFacts
<1>5. \A e \in Known : e.block <= t <=> e.block < next'.from
  BY <1>2, <1>3, <1>4
<1>6. logs' = {e \in Known : f <= e.block /\ e.block <= t /\ e.kind \in Kinds /\ e.id \in Ids}
  BY Chunk
<1>7. next'.from = t + 1
  BY <1>3
<1>8. next' = [from |-> next'.from, to |-> to]
  BY <1>3, <1>7
<1>9. next'.from \in Nat /\ f <= next'.from /\ next'.from <= to
  BY <1>1, <1>2, <1>7
<1>10. logs' = {e \in Known' : f <= e.block /\ e.block < next'.from /\ e.kind \in Kinds /\ e.id \in Ids}
  BY <1>5, <1>6
<1> QED BY <1>8, <1>9, <1>10

\* The request that is being read.
LEMMA CurrentFacts ==
  ASSUME ChainInv, QueryInv, Sure, query.kind # "pending",
         pc \in {"record", "proposal", "votes", "arbitration"}
  PROVE  /\ Reads /\ Wanted /\ ReadSoFar /\ Len(result) \in Nat /\ Len(result) < Len(found)
         /\ Current \in Requests /\ Current = found[Len(result) + 1]
         /\ query.kind = "request" => Base = block /\ Current = query.id
         /\ query.kind # "request" => query.kind = "rulings" /\ RecordOf(Current).settled # 0
         /\ \A t \in Nat : t <= block => Within(t, {Current})
<1>1. Reads /\ Wanted /\ ReadSoFar /\ Len(result) < Len(found)
  BY DEF QueryInv, Reads
<1>2. Len(result) \in Nat /\ Len(found) \in Nat /\ found \in Seq(Requests)
  <2> HIDE DEF Truths
  <2> QED BY <1>1 DEF Wanted, ReadSoFar
<1>3. Len(result) + 1 \in DOMAIN found /\ Current = found[Len(result) + 1] /\ Current \in Requests
  BY <1>1, <1>2 DEF Current
<1>4. query.kind = "request" => Base = block /\ Current = query.id
  <2>1. ASSUME query.kind = "request" PROVE Current = query.id
    <3>1. found = <<query.id>>
      BY <1>1, <2>1 DEF Wanted
    <3>2. Len(found) = 1
      BY <3>1
    <3>3. Len(result) = 0
      BY <1>1, <1>2, <3>2
    <3> QED BY <1>3, <3>1, <3>3
  <2> QED BY <2>1 DEF Base
<1>5. query.kind \in {"request", "rulings"}
  BY DEF QueryInv, QueryShape, Sure
<1>6. query.kind = "rulings" => RecordOf(Current).settled # 0
  <2> SUFFICES ASSUME query.kind = "rulings" PROVE RecordOf(Current).settled # 0
    OBVIOUS
  <2>1. Current \in RuledIn(query.from, query.to)
    BY <1>1, <1>3 DEF Wanted
  <2>2. RecordOf(Current).outcome # "PENDING"
    BY <2>1 DEF RuledIn, RecordOf, Base
  <2> QED BY <1>3, <2>2, BaseFacts DEF Fits, Arbitrated
<1>7. \A t \in Nat : t <= block => Within(t, {Current})
  BY <1>3, <1>4, <1>5, <1>6 DEF Within
<1> QED BY <1>1, <1>2, <1>3, <1>4, <1>5, <1>6, <1>7

\* When a request that exists was proposed, and when it was disputed, if it was.
LEMMA RecordFacts ==
  ASSUME ChainInv, QueryInv, Sure, NEW q \in Requests, RecordOf(q).state # "NONE"
  PROVE  LET r == RecordOf(q)
         IN  /\ r.proposed \in Nat \ {0} /\ r.proposed <= Base /\ r.frozen \in Nat /\ r.frozen <= Base
             /\ r.settled \in Nat
             /\ r.votes \in SUBSET VoteType
             /\ RevealDeadline(r) \in Nat /\ r.proposed <= RevealDeadline(r)
             /\ CommitDeadline(r) \in Nat /\ CommitDeadline(r) - CommitWindow = r.proposed
             /\ ArbitrationDeadline(r) \in Nat /\ ArbitrationDeadline(r) - ArbitrationTimeout = r.frozen
<1> DEFINE r == RecordOf(q)
<1>1. /\ r \in RecordType /\ Fits(r, History(q, Base)) /\ Base \in Nat
      /\ \A e \in History(q, Base) : e.block \in Nat /\ e.block <= Base
  BY BaseFacts
<1>2. r.proposed \in Nat /\ r.frozen \in Nat /\ r.settled \in Nat /\ r.votes \in SUBSET VoteType
  BY <1>1 DEF RecordType
<1>3. r.proposed # 0 /\ r.proposed <= Base
  BY <1>1 DEF Fits, Posted
<1>4. r.frozen <= Base
  <2>1. CASE r.frozen = 0
    BY <1>1, <2>1
  <2>2. CASE r.frozen # 0
    BY <1>1, <2>2 DEF Fits, Arbitrated, Frozen
  <2> QED BY <2>1, <2>2
<1>5. /\ RevealDeadline(r) \in Nat /\ r.proposed <= RevealDeadline(r)
      /\ CommitDeadline(r) \in Nat /\ CommitDeadline(r) - CommitWindow = r.proposed
      /\ ArbitrationDeadline(r) \in Nat /\ ArbitrationDeadline(r) - ArbitrationTimeout = r.frozen
  BY <1>2, Windows DEF RevealDeadline, CommitDeadline, ArbitrationDeadline
<1> QED BY <1>2, <1>3, <1>4, <1>5

\* The blocks and the kinds of each scan.
LEMMA VotesScan ==
  ASSUME ChainInv, QueryInv, Sure, pc = "votes"
  PROVE  LET r == RecordOf(Current)
         IN  /\ query.kind # "pending" /\ ReadingVotes(Current, r) /\ r.proposed \in Nat
             /\ Kinds = VoteEvents /\ Ids = {Current}
             /\ ScannedFrom(r.proposed, Lower(RevealDeadline(r), block), Kinds, Ids)
             /\ Within(Lower(RevealDeadline(r), block), Ids)
<1>1. query.kind # "pending"
  BY DEF QueryInv, Pends
<1>2. ReadingVotes(Current, RecordOf(Current)) /\ RecordOf(Current).state # "NONE"
  BY <1>1 DEF QueryInv, Reads
<1>3. Kinds = VoteEvents /\ Ids = {Current}
  BY <1>2 DEF Kinds, Ids, ReadingVotes, Begun, VoteEvents
<1>4. Current \in Requests /\ RecordOf(Current).proposed \in Nat /\ RevealDeadline(RecordOf(Current)) \in Nat /\ block \in Nat
  BY <1>1, <1>2, CurrentFacts, RecordFacts, BaseFacts
<1>5. Lower(RevealDeadline(RecordOf(Current)), block) \in Nat /\ Lower(RevealDeadline(RecordOf(Current)), block) <= block
  BY <1>4 DEF Lower
<1>6. Within(Lower(RevealDeadline(RecordOf(Current)), block), Ids)
  BY <1>1, <1>3, <1>5, CurrentFacts
<1> QED BY <1>1, <1>2, <1>3, <1>4, <1>6 DEF ReadingVotes

LEMMA ArbitrationScan ==
  ASSUME ChainInv, QueryInv, Sure, pc = "arbitration"
  PROVE  LET r == RecordOf(Current)
             to == IF r.state = "FROZEN" THEN r.frozen ELSE block
         IN  /\ query.kind # "pending" /\ ReadingArbitration(Current, r) /\ r.frozen \in Nat \ {0}
             /\ Kinds = ArbitrationEvents /\ Ids = {Current}
             /\ ScannedFrom(r.frozen, to, Kinds, Ids) /\ Within(to, Ids)
<1> DEFINE to == IF RecordOf(Current).state = "FROZEN" THEN RecordOf(Current).frozen ELSE block
<1>1. query.kind # "pending"
  BY DEF QueryInv, Pends
<1>2. ReadingArbitration(Current, RecordOf(Current)) /\ RecordOf(Current).state # "NONE"
  BY <1>1 DEF QueryInv, Reads
<1>3. Kinds = ArbitrationEvents /\ Ids = {Current}
  BY <1>2 DEF Kinds, Ids, ReadingArbitration, WithVotes
<1>4. /\ Current \in Requests /\ RecordOf(Current).frozen \in Nat /\ RecordOf(Current).frozen <= Base
      /\ block \in Nat /\ Base \in Nat /\ Base <= block
  BY <1>1, <1>2, CurrentFacts, RecordFacts, BaseFacts
<1>5. to \in Nat /\ to <= block
  BY <1>4
<1>6. Within(to, Ids)
  BY <1>1, <1>3, <1>5, CurrentFacts
<1> QED BY <1>1, <1>2, <1>3, <1>4, <1>6 DEF ReadingArbitration

LEMMA RulingsScan ==
  ASSUME ChainInv, QueryInv, Sure, pc = "rulings"
  PROVE  /\ query.kind = "rulings" /\ Base = query.to /\ query.from \in Nat /\ result = <<>>
         /\ Kinds = RulingEvents /\ Ids = Requests
         /\ ScannedFrom(query.from, query.to, Kinds, Ids) /\ Within(query.to, Ids)
<1>1. query.kind = "rulings" /\ ScannedFrom(query.from, query.to, RulingEvents, Requests) /\ result = <<>>
  BY DEF QueryInv, Reads, Pends
<1>2. query.from \in Nat /\ query.to \in Nat /\ Base = query.to
  BY <1>1 DEF QueryInv, QueryShape, Base
<1>3. Kinds = RulingEvents /\ Ids = Requests
  BY DEF Kinds, Ids, RulingEvents
<1> QED BY <1>1, <1>2, <1>3 DEF Within

LEMMA DisputesScan ==
  ASSUME ChainInv, QueryInv, Sure, pc = "disputes"
  PROVE  /\ query.kind = "pending" /\ Base = block /\ DueFrom \in Nat /\ DueFrom <= block
         /\ Kinds = ArbitrationEvents /\ Ids = Requests
         /\ ScannedFrom(DueFrom, block, Kinds, Ids) /\ Within(block, Ids)
<1>1. query.kind = "pending" /\ ScannedFrom(DueFrom, block, ArbitrationEvents, Requests)
  BY DEF QueryInv, Reads, Pends
<1>2. Base = block /\ block \in Nat
  BY <1>1 DEF QueryInv, QueryShape, Base, Sure
<1>3. DueFrom \in Nat /\ DueFrom <= block
  BY <1>2, Windows DEF DueFrom, Lower
<1>4. Kinds = ArbitrationEvents /\ Ids = Requests
  BY DEF Kinds, Ids
<1> QED BY <1>1, <1>2, <1>3, <1>4 DEF Within

\* A step that reads no further request.
LEMMA SameReads ==
  ASSUME QueryInv, pc \notin {"idle", "refused"}, pc' \notin {"idle", "refused"},
         UNCHANGED <<chainVars, query, block, pinnedFinal, found, result>>, Wanted, ReadSoFar
  PROVE  /\ Wanted' /\ ReadSoFar' /\ Len(result') = Len(result) /\ Len(found') = Len(found)
         /\ Current' = Current /\ RecordOf(Current)' = RecordOf(Current)
         /\ Shown(RecordOf(Current))' = Shown(RecordOf(Current))
<1>1. /\ query' = query /\ block' = block /\ past' = past /\ Base' = Base /\ Truths' = Truths
      /\ found' = found /\ result' = result
  BY SameBase
<1>2. Current' = Current /\ RecordOf(Current)' = RecordOf(Current)
  BY <1>1 DEF Current, RecordOf
<1>3. Wanted'
  <2>1. RuledIn(query.from, query.to)' = RuledIn(query.from, query.to)
    BY <1>1 DEF RuledIn
  <2>2. \A q : RecordOf(q)' = RecordOf(q)
    BY <1>1 DEF RecordOf
  <2> QED BY <1>1, <2>1, <2>2 DEF Wanted
<1>4. ReadSoFar'
  BY <1>1 DEF ReadSoFar, Truth
<1>5. Shown(RecordOf(Current))' = Shown(RecordOf(Current))
  BY <1>2 DEF Shown
<1> QED BY <1>1, <1>2, <1>3, <1>4, <1>5

\* A step that has read one more.
LEMMA OneMoreRead ==
  ASSUME ChainInv, QueryInv, Sure, query.kind # "pending",
         pc \in {"record", "proposal", "votes", "arbitration"}, pc' \notin {"idle", "refused"},
         UNCHANGED <<chainVars, query, block, pinnedFinal, found>>,
         result' = Append(result, Truth(Current, Base)),
         pc' = IF Len(result') = Len(found') THEN "done" ELSE "record"
  PROVE  Reads'
<1>1. /\ query' = query /\ block' = block /\ past' = past /\ Base' = Base /\ Truths' = Truths
      /\ found' = found
  BY SameBase
<1>2. /\ Wanted /\ ReadSoFar /\ Len(result) \in Nat /\ Len(result) < Len(found) /\ Current \in Requests
      /\ Current = found[Len(result) + 1]
  BY CurrentFacts
<1>3. Wanted'
  <2>1. RuledIn(query.from, query.to)' = RuledIn(query.from, query.to)
    BY <1>1 DEF RuledIn
  <2>2. \A q : RecordOf(q)' = RecordOf(q)
    BY <1>1 DEF RecordOf
  <2> QED BY <1>1, <1>2, <2>1, <2>2 DEF Wanted
<1>4. Truth(Current, Base) \in Truths
  BY <1>2 DEF Truths
<1> HIDE DEF Truths
<1>5. /\ result \in Seq(Truths) /\ result' \in Seq(Truths) /\ Len(result') = Len(result) + 1
      /\ \A i \in 1 .. Len(result) : result'[i] = result[i]
      /\ result'[Len(result) + 1] = Truth(Current, Base)
  BY <1>2, <1>4, AppendProperties DEF ReadSoFar
<1>6. Len(found) \in Nat
  BY <1>2 DEF Wanted
<1>7. DOMAIN result = 1 .. Len(result) /\ DOMAIN result' = 1 .. Len(result')
  BY <1>5
<1>8. \A i \in DOMAIN result' : result'[i] = Truth(found[i], Base)
  <2> TAKE i \in DOMAIN result'
  <2>1. CASE i \in 1 .. Len(result)
    BY <1>2, <1>5, <1>7, <2>1 DEF ReadSoFar
  <2>2. CASE i = Len(result) + 1
    BY <1>2, <1>5, <2>2
  <2> QED BY <1>2, <1>5, <1>7, <2>1, <2>2
<1>9. Len(result') <= Len(found') /\ (Len(result') # Len(found') => Len(result') < Len(found'))
  BY <1>1, <1>2, <1>5, <1>6
<1>10. \A q : Truth(q, Base)' = Truth(q, Base)
  BY <1>1 DEF Truth
<1>11. ReadSoFar'
  BY <1>1, <1>5, <1>8, <1>9, <1>10 DEF ReadSoFar
<1> QED BY <1>3, <1>9, <1>11 DEF Reads

LEMMA ScanChunkKeeps == ASSUME ChainInv, QueryInv, ScanChunk PROVE QueryInv'
<1>1. /\ pc \in Scans /\ pc' = pc
      /\ UNCHANGED <<chainVars, query, block, pinnedFinal, found, answer, request, result>>
  BY DEF ScanChunk
<1>2. PICK t \in next.from .. next.to :
        ~Stops(t) /\ logs' = Scanned(t) /\ next' = [next EXCEPT !.from = t + 1]
  BY DEF ScanChunk
<1>3. pc \notin {"idle", "refused"}
  BY <1>1 DEF Scans
<1>4. /\ QueryShape' /\ query' = query /\ block' = block /\ past' = past
      /\ Base' = Base /\ (Sure' <=> Sure) /\ Known' = Known /\ Truths' = Truths
  BY <1>1, <1>3, SameBase
<1>5. ASSUME Sure, NEW f \in Nat, NEW to, Within(to, Ids), ScannedFrom(f, to, Kinds, Ids)
      PROVE  /\ next' = [from |-> next'.from, to |-> to]
             /\ next'.from \in Nat /\ f <= next'.from /\ next'.from <= to
             /\ logs' = {e \in Known' : f <= e.block /\ e.block < next'.from /\ e.kind \in Kinds /\ e.id \in Ids}
  BY <1>2, <1>4, <1>5, ScanGoesOn
<1>6. ASSUME Sure, pc = "disputes" PROVE Pends' /\ query.kind = "pending"
  <2>1. /\ query.kind = "pending" /\ DueFrom \in Nat /\ Kinds = ArbitrationEvents /\ Ids = Requests
        /\ ScannedFrom(DueFrom, block, Kinds, Ids) /\ Within(block, Ids)
    BY <1>6, DisputesScan
  <2>2. /\ next' = [from |-> next'.from, to |-> block]
        /\ next'.from \in Nat /\ DueFrom <= next'.from /\ next'.from <= block
        /\ logs' = {e \in Known' : /\ DueFrom <= e.block /\ e.block < next'.from
                                   /\ e.kind \in ArbitrationEvents /\ e.id \in Requests}
    BY <1>5, <1>6, <2>1
  <2>3. DueFrom' = DueFrom
    BY <1>4 DEF DueFrom
  <2> QED BY <1>1, <1>4, <1>6, <2>1, <2>2, <2>3 DEF Pends, ScannedFrom
<1>7. ASSUME Sure, pc = "rulings" PROVE Reads' /\ query.kind # "pending"
  <2>1. /\ query.kind = "rulings" /\ query.from \in Nat /\ Kinds = RulingEvents /\ Ids = Requests /\ result = <<>>
        /\ ScannedFrom(query.from, query.to, Kinds, Ids) /\ Within(query.to, Ids)
    BY <1>7, RulingsScan
  <2>2. /\ next' = [from |-> next'.from, to |-> query.to]
        /\ next'.from \in Nat /\ query.from <= next'.from /\ next'.from <= query.to
        /\ logs' = {e \in Known' : /\ query.from <= e.block /\ e.block < next'.from
                                   /\ e.kind \in RulingEvents /\ e.id \in Requests}
    BY <1>5, <1>7, <2>1
  <2> QED BY <1>1, <1>4, <1>7, <2>1, <2>2 DEF Reads, ScannedFrom
<1>8. ASSUME query.kind # "pending", Reads, pc \in {"votes", "arbitration"}
      PROVE  /\ Wanted' /\ ReadSoFar' /\ Len(result') < Len(found')
             /\ Current' = Current /\ RecordOf(Current)' = RecordOf(Current)
             /\ answer' = Shown(RecordOf(Current))' /\ RecordOf(Current)'.state # "NONE"
  BY <1>1, <1>3, <1>8, SameReads DEF Reads
<1>9. ASSUME Sure, pc = "votes" PROVE Reads' /\ query.kind # "pending"
  <2> DEFINE r == RecordOf(Current)
  <2>1. /\ query.kind # "pending" /\ ReadingVotes(Current, r) /\ r.proposed \in Nat
        /\ Kinds = VoteEvents /\ Ids = {Current}
        /\ ScannedFrom(r.proposed, Lower(RevealDeadline(r), block), Kinds, Ids)
        /\ Within(Lower(RevealDeadline(r), block), Ids)
    BY <1>9, VotesScan
  <2>2. /\ next' = [from |-> next'.from, to |-> Lower(RevealDeadline(r), block)]
        /\ next'.from \in Nat /\ r.proposed <= next'.from /\ next'.from <= Lower(RevealDeadline(r), block)
        /\ logs' = {e \in Known' : /\ r.proposed <= e.block /\ e.block < next'.from
                                   /\ e.kind \in VoteEvents /\ e.id \in {Current}}
    BY <1>5, <1>9, <2>1
  <2>3. Reads
    BY <1>9, <2>1 DEF QueryInv
  <2>4. request' = Begun(Current, r, r.proposed)
    BY <1>1, <2>1 DEF ReadingVotes
  <2>5. ReadingVotes(Current, RecordOf(Current))'
    BY <1>4, <1>8, <1>9, <2>1, <2>2, <2>3, <2>4 DEF ReadingVotes, ScannedFrom, Begun
  <2> QED BY <1>1, <1>8, <1>9, <2>1, <2>3, <2>5 DEF Reads
<1>10. ASSUME Sure, pc = "arbitration" PROVE Reads' /\ query.kind # "pending"
  <2> DEFINE r == RecordOf(Current)
             to == IF r.state = "FROZEN" THEN r.frozen ELSE block
  <2>1. /\ query.kind # "pending" /\ ReadingArbitration(Current, r) /\ r.frozen \in Nat \ {0}
        /\ Kinds = ArbitrationEvents /\ Ids = {Current}
        /\ ScannedFrom(r.frozen, to, Kinds, Ids) /\ Within(to, Ids)
    BY <1>10, ArbitrationScan
  <2>2. /\ next' = [from |-> next'.from, to |-> to]
        /\ next'.from \in Nat /\ r.frozen <= next'.from /\ next'.from <= to
        /\ logs' = {e \in Known' : /\ r.frozen <= e.block /\ e.block < next'.from
                                   /\ e.kind \in ArbitrationEvents /\ e.id \in {Current}}
    BY <1>5, <1>10, <2>1
  <2>3. Reads
    BY <1>10, <2>1 DEF QueryInv
  <2>4. request' = WithVotes(Current, r) /\ Settling(logs') = {}
    BY <1>1, <1>2, <1>10, <2>1 DEF ReadingArbitration, Stops
  <2>5. ReadingArbitration(Current, RecordOf(Current))'
    BY <1>4, <1>8, <1>10, <2>1, <2>2, <2>3, <2>4 DEF ReadingArbitration, ScannedFrom, WithVotes, Settling
  <2> QED BY <1>1, <1>8, <1>10, <2>1, <2>3, <2>5 DEF Reads
<1> QED BY <1>1, <1>4, <1>6, <1>7, <1>9, <1>10 DEF QueryInv, Scans

\* Logs are ordered by their places.
LEMMA LogsInOrder ==
  ASSUME ChainInv, NEW S \in SUBSET log
  PROVE  /\ IsFiniteSet(S) /\ Orders({xy \in S \X S : Precedes(xy[1], xy[2])}, S)
         /\ Chronological(S) \in Seq(S) /\ Len(Chronological(S)) = Cardinality(S)
         /\ \A x \in S : \E k \in 1 .. Cardinality(S) : Chronological(S)[k] = x
         /\ \A j, k \in 1 .. Cardinality(S) :
              j < k => Precedes(Chronological(S)[j], Chronological(S)[k])
<1> DEFINE R == {xy \in S \X S : Precedes(xy[1], xy[2])}
<1>1. IsFiniteSet(S)
  BY FS_Subset DEF ChainInv
<1>2. \A x \in S : x.block \in Int /\ x.at \in Int
  BY DEF ChainInv, Placed, ChainType, Building
<1>3. \A x, y \in S : x.block = y.block /\ x.at = y.at => x = y
  BY DEF ChainInv, Placed
<1>4. \A x, y \in S : <<x, y>> \in R <=> Precedes(x, y)
  OBVIOUS
<1>5. Orders(R, S)
  <2>1. \A x \in S : ~Precedes(x, x)
    BY <1>2 DEF Precedes
  <2>2. \A x, y, z \in S : Precedes(x, y) /\ Precedes(y, z) => Precedes(x, z)
    BY <1>2 DEF Precedes
  <2>3. \A x, y \in S : x = y \/ Precedes(x, y) \/ Precedes(y, x)
    BY <1>2, <1>3 DEF Precedes
  <2> HIDE DEF R
  <2> QED BY <1>4, <2>1, <2>2, <2>3 DEF Orders
<1>6. /\ Chronological(S) \in Seq(S) /\ Len(Chronological(S)) = Cardinality(S)
      /\ \A x \in S : \E k \in 1 .. Cardinality(S) : Chronological(S)[k] = x
      /\ \A j, k \in 1 .. Cardinality(S) :
           j < k => <<Chronological(S)[j], Chronological(S)[k]>> \in R
  <2>1. Chronological(S) = InOrder(R, S)
    BY DEF Chronological
  <2> HIDE DEF R
  <2> QED BY <1>1, <1>5, <2>1, InOrderSorts
<1>7. \A x, y : <<x, y>> \in R => Precedes(x, y)
  OBVIOUS
<1> QED BY <1>1, <1>5, <1>6, <1>7

\* The ruling of a request is the one that its record has.
LEMMA RulingOfRecord ==
  ASSUME ChainInv, QueryInv, Sure, NEW e \in Known, e.kind \in RulingEvents
  PROVE  /\ e.id \in Requests /\ RecordOf(e.id).settled = e.block
         /\ RecordOf(e.id).outcome \in {"SECURE", "INSECURE", "OUT_OF_SCOPE"}
         /\ \A f \in Known : f.kind \in RulingEvents /\ f.id = e.id => f = e
<1> DEFINE r == RecordOf(e.id)
<1>1. /\ e.id \in Requests /\ Fits(r, History(e.id, Base)) /\ e \in History(e.id, Base)
      /\ \A f \in Known : f.id = e.id => f \in History(e.id, Base)
  BY BaseFacts
<1>2. \A f : f.kind \in RulingEvents => f.kind \in Outcomes
  BY DEF RulingEvents, Outcomes
<1>3. r.settled # 0
  BY <1>1, <1>2 DEF Fits, Arbitrated
<1>4. Settled(r, e) /\ \A f \in History(e.id, Base) : f.kind \in Outcomes => f = e
  BY <1>1, <1>2, <1>3 DEF Fits, Arbitrated
<1>5. r.outcome \in {"SECURE", "INSECURE", "OUT_OF_SCOPE"}
  BY <1>4 DEF Settled, OutcomeOf, RulingEvents
<1> QED BY <1>1, <1>2, <1>4, <1>5 DEF Settled

\* A request that was ruled on has the log of its ruling.
LEMMA RulingLogged ==
  ASSUME ChainInv, QueryInv, Sure, NEW q \in Requests,
         RecordOf(q).outcome \in {"SECURE", "INSECURE", "OUT_OF_SCOPE"}
  PROVE  \E e \in Known : e.kind \in RulingEvents /\ e.id = q /\ e.block = RecordOf(q).settled
<1>1. /\ Fits(RecordOf(q), History(q, Base))
      /\ \A e \in History(q, Base) : e \in Known /\ e.id = q
  BY BaseFacts
<1>2. RecordOf(q).settled # 0
  BY <1>1 DEF Fits, Arbitrated
<1>3. PICK o \in History(q, Base) : Settled(RecordOf(q), o)
  BY <1>1, <1>2 DEF Fits, Arbitrated
<1>4. o.kind # "ArbitrationTimedOut"
  BY <1>3 DEF Settled, OutcomeOf
<1> QED BY <1>1, <1>3, <1>4 DEF Settled, Outcomes, RulingEvents

LEMMA ScanRulingsKeeps == ASSUME ChainInv, QueryInv, ScanRulings PROVE QueryInv'
<1>1. /\ pc = "rulings" /\ found' = Ruled(All)
      /\ UNCHANGED <<chainVars, query, block, pinnedFinal, result>>
      /\ pc' = IF Len(result') = Len(found') THEN "done" ELSE "record"
  BY DEF ScanRulings, LastChunk, NextRequest
<1>2. /\ QueryShape' /\ query' = query /\ block' = block /\ past' = past
      /\ Base' = Base /\ (Sure' <=> Sure) /\ Known' = Known
  BY <1>1, SameBase
<1> SUFFICES ASSUME Sure PROVE query.kind = "rulings" /\ Reads'
  BY <1>2 DEF QueryInv
<1>3. /\ query.kind = "rulings" /\ Base = query.to /\ query.from \in Nat /\ result = <<>>
      /\ Kinds = RulingEvents /\ Ids = Requests
      /\ ScannedFrom(query.from, query.to, Kinds, Ids) /\ Within(query.to, Ids)
  BY <1>1, RulingsScan
<1>4. All = {e \in Known : query.from <= e.block /\ e.block <= query.to /\ e.kind \in RulingEvents /\ e.id \in Requests}
  <2>1. next.to \in next.from .. next.to
    BY <1>3 DEF ScannedFrom, Within
  <2>2. next.to = query.to
    BY <1>3 DEF ScannedFrom
  <2> QED BY <1>3, <2>1, <2>2, Chunk DEF All
<1> DEFINE s == Chronological(All)
           n == Cardinality(All)
<1>5. /\ All \in SUBSET log
      /\ \A e \in All : /\ e \in Known /\ e.kind \in RulingEvents /\ e.id \in Requests /\ e.block \in Nat
                        /\ query.from <= e.block /\ e.block <= query.to
  BY <1>4, BaseFacts
<1>6. /\ s \in Seq(All) /\ Len(s) = n /\ n \in Nat
      /\ \A e \in All : \E k \in 1 .. n : s[k] = e
      /\ \A j, k \in 1 .. n : j < k => Precedes(s[j], s[k])
  <2>1. IsFiniteSet(All) /\ n \in Nat
    BY <1>5, LogsInOrder, FS_CardinalityType
  <2> QED BY <1>5, <2>1, LogsInOrder
<1>7. \A k \in 1 .. n : s[k] \in All
  <2> HIDE DEF s, All
  <2> QED BY <1>6
<1> HIDE DEF s, n, All
<1>8. found' = [i \in 1 .. n |-> s[i].id]
  BY <1>1 DEF Ruled, s, n
<1>9. found' \in Seq(Requests) /\ DOMAIN found' = 1 .. n /\ Len(found') = n
  BY <1>5, <1>6, <1>7, <1>8
<1>10. {found'[i] : i \in DOMAIN found'} = RuledIn(query.from, query.to)
  <2>1. ASSUME NEW e \in All PROVE e.id \in RuledIn(query.from, query.to)
    BY <1>3, <1>5, <2>1, RulingOfRecord DEF RuledIn, RecordOf
  <2>2. ASSUME NEW q \in RuledIn(query.from, query.to) PROVE \E i \in 1 .. n : s[i].id = q
    <3>1. /\ q \in Requests /\ RecordOf(q).outcome \in {"SECURE", "INSECURE", "OUT_OF_SCOPE"}
          /\ query.from <= RecordOf(q).settled /\ RecordOf(q).settled <= query.to
      BY <1>3 DEF RuledIn, RecordOf
    <3>2. PICK e \in Known : e.kind \in RulingEvents /\ e.id = q /\ e.block = RecordOf(q).settled
      BY <3>1, RulingLogged
    <3>3. e \in All
      BY <1>4, <3>1, <3>2
    <3> QED BY <1>6, <3>2, <3>3
  <2> QED BY <1>7, <1>8, <1>9, <2>1, <2>2
<1>11. ASSUME NEW i \in 1 .. n, NEW j \in 1 .. n, i < j
       PROVE  /\ found'[i] # found'[j]
              /\ RecordOf(found'[i]).settled <= RecordOf(found'[j]).settled
  <2>1. /\ s[i] \in All /\ s[j] \in All /\ Precedes(s[i], s[j]) /\ s[i].block \in Nat /\ s[j].block \in Nat
        /\ s[i].at \in Nat
    BY <1>5, <1>6, <1>7, <1>11, BaseFacts
  <2>2. s[i] # s[j] /\ s[i].block <= s[j].block
    BY <2>1 DEF Precedes
  <2>3. RecordOf(s[i].id).settled = s[i].block /\ RecordOf(s[j].id).settled = s[j].block
    BY <1>5, <2>1, RulingOfRecord
  <2>4. s[i].id # s[j].id
    BY <1>5, <2>1, <2>2, RulingOfRecord
  <2> QED BY <1>8, <2>2, <2>3, <2>4
<1>12. Wanted'
  <2>1. RuledIn(query.from, query.to)' = RuledIn(query.from, query.to)
    BY <1>2 DEF RuledIn
  <2>2. \A q : RecordOf(q)' = RecordOf(q)
    BY <1>2 DEF RecordOf
  <2> QED BY <1>2, <1>3, <1>9, <1>10, <1>11, <2>1, <2>2 DEF Wanted
<1>13. result' = <<>> /\ ReadSoFar' /\ Len(result') = 0 /\ Len(result') <= Len(found')
  BY <1>1, <1>3, <1>6, <1>9 DEF ReadSoFar
<1> QED BY <1>1, <1>3, <1>6, <1>9, <1>12, <1>13 DEF Reads

\* The dispute of a request is the one that its record has.
LEMMA DisputeOfRecord ==
  ASSUME ChainInv, QueryInv, Sure, NEW e \in Known, e.kind = "DisputeTriggered"
  PROVE  /\ e.id \in Requests /\ RecordOf(e.id).frozen = e.block
         /\ e.data = ArbitrationDeadline(RecordOf(e.id)) /\ e.data \in Nat
         /\ \A f \in Known : f.kind = "DisputeTriggered" /\ f.id = e.id => f = e
         /\ RecordOf(e.id).state = "FROZEN"
              \/ \E o \in Known : o.kind \in Outcomes /\ o.id = e.id /\ e.block <= o.block
<1> DEFINE r == RecordOf(e.id)
<1>1. /\ e.id \in Requests /\ r \in RecordType /\ Fits(r, History(e.id, Base)) /\ e \in History(e.id, Base)
      /\ \A f \in Known : f.id = e.id => f \in History(e.id, Base)
      /\ \A f \in History(e.id, Base) : f \in Known /\ f.id = e.id
  BY BaseFacts
<1>2. r.frozen # 0
  BY <1>1 DEF Fits, Arbitrated, ArbitrationEvents
<1>3. Frozen(r, e) /\ \A f \in History(e.id, Base) : f.kind = e.kind => f = e
  BY <1>1, <1>2 DEF Fits, Arbitrated
<1>4. r.frozen = e.block /\ e.data = ArbitrationDeadline(r) /\ e.data \in Nat
  BY <1>1, <1>3, Windows DEF Frozen, ArbitrationDeadline, RecordType
<1>5. CASE r.settled = 0
  BY <1>1, <1>2, <1>3, <1>4, <1>5 DEF Fits, Arbitrated, OutcomeState
<1>6. CASE r.settled # 0
  <2>1. r.frozen <= r.settled /\ \E o \in History(e.id, Base) : Settled(r, o)
    BY <1>1, <1>6 DEF Fits, Arbitrated
  <2> QED BY <1>1, <1>3, <1>4, <2>1 DEF Settled
<1> QED BY <1>5, <1>6

\* A dispute that is frozen has its log, and none that settles it.
LEMMA DisputeLogged ==
  ASSUME ChainInv, QueryInv, Sure, NEW q \in Requests, RecordOf(q).state = "FROZEN"
  PROVE  /\ \E e \in Known : /\ e.kind = "DisputeTriggered" /\ e.id = q
                             /\ e.block = RecordOf(q).frozen /\ e.data = ArbitrationDeadline(RecordOf(q))
         /\ \A o \in Known : o.id = q => o.kind \notin Outcomes
<1> DEFINE r == RecordOf(q)
<1>1. /\ r \in RecordType /\ Fits(r, History(q, Base))
      /\ \A f \in Known : f.id = q => f \in History(q, Base)
      /\ \A f \in History(q, Base) : f \in Known /\ f.id = q
  BY BaseFacts
<1>2. r.frozen # 0 /\ OutcomeState(r.outcome) = "FROZEN" /\ r.outcome \in OutcomeNames
  BY <1>1 DEF Fits, Arbitrated, RecordType
<1>3. r.outcome = "PENDING"
  BY <1>2 DEF OutcomeState, OutcomeNames
<1>4. r.settled = 0
  BY <1>1, <1>3 DEF Fits, Arbitrated
<1>5. \A o \in History(q, Base) : o.kind \notin Outcomes
  BY <1>1, <1>4 DEF Fits, Arbitrated
<1>6. \E e \in History(q, Base) : Frozen(r, e)
  BY <1>1, <1>2 DEF Fits, Arbitrated
<1> QED BY <1>1, <1>5, <1>6 DEF Frozen

\* Disputes are ordered by their deadlines, and then by their places.
LEMMA DisputesInOrder ==
  ASSUME ChainInv, NEW S \in SUBSET log, \A e \in S : e.data \in Nat
  PROVE  /\ IsFiniteSet(S)
         /\ ByDeadline(S) \in Seq(S) /\ Len(ByDeadline(S)) = Cardinality(S)
         /\ \A x \in S : \E k \in 1 .. Cardinality(S) : ByDeadline(S)[k] = x
         /\ \A j, k \in 1 .. Cardinality(S) : j < k => DueBefore(ByDeadline(S)[j], ByDeadline(S)[k])
<1> DEFINE R == {xy \in S \X S : DueBefore(xy[1], xy[2])}
<1>1. IsFiniteSet(S)
  BY FS_Subset DEF ChainInv
<1>2. \A x \in S : x.block \in Int /\ x.at \in Int /\ x.data \in Int
  BY DEF ChainInv, Placed, ChainType, Building
<1>3. \A x, y \in S : x.block = y.block /\ x.at = y.at => x = y
  BY DEF ChainInv, Placed
<1>4. \A x, y \in S : <<x, y>> \in R <=> DueBefore(x, y)
  OBVIOUS
<1>5. Orders(R, S)
  <2>1. \A x \in S : ~DueBefore(x, x)
    BY <1>2 DEF DueBefore, Precedes
  <2>2. \A x, y, z \in S : DueBefore(x, y) /\ DueBefore(y, z) => DueBefore(x, z)
    BY <1>2 DEF DueBefore, Precedes
  <2>3. \A x, y \in S : x = y \/ DueBefore(x, y) \/ DueBefore(y, x)
    BY <1>2, <1>3 DEF DueBefore, Precedes
  <2> HIDE DEF R
  <2> QED BY <1>4, <2>1, <2>2, <2>3 DEF Orders
<1>6. /\ ByDeadline(S) \in Seq(S) /\ Len(ByDeadline(S)) = Cardinality(S)
      /\ \A x \in S : \E k \in 1 .. Cardinality(S) : ByDeadline(S)[k] = x
      /\ \A j, k \in 1 .. Cardinality(S) : j < k => <<ByDeadline(S)[j], ByDeadline(S)[k]>> \in R
  <2>1. ByDeadline(S) = InOrder(R, S)
    BY DEF ByDeadline
  <2> HIDE DEF R
  <2> QED BY <1>1, <1>5, <2>1, InOrderSorts
<1>7. \A x, y : <<x, y>> \in R => DueBefore(x, y)
  OBVIOUS
<1> QED BY <1>1, <1>6, <1>7

\* The requests whose disputes are pending as of the result's block.
Frozens == {q \in Requests : RecordOf(q).state = "FROZEN" /\ Base <= ArbitrationDeadline(RecordOf(q))}

LEMMA UnsettledAreFrozen ==
  ASSUME ChainInv, QueryInv, Sure, pc = "disputes"
  PROVE  /\ \A e \in Unsettled(All) :
              /\ e \in Known /\ e.kind = "DisputeTriggered" /\ e.id \in Frozens
              /\ e.block = RecordOf(e.id).frozen /\ e.data = ArbitrationDeadline(RecordOf(e.id))
         /\ \A q \in Frozens : \E e \in Unsettled(All) : e.id = q
<1>1. /\ query.kind = "pending" /\ Base = block /\ DueFrom \in Nat /\ DueFrom <= block
      /\ Kinds = ArbitrationEvents /\ Ids = Requests
      /\ ScannedFrom(DueFrom, block, Kinds, Ids) /\ Within(block, Ids)
  BY DisputesScan
<1>2. All = {e \in Known : DueFrom <= e.block /\ e.block <= block /\ e.kind \in ArbitrationEvents /\ e.id \in Requests}
  <2>1. next.to \in next.from .. next.to
    BY <1>1 DEF ScannedFrom, Within
  <2>2. next.to = block
    BY <1>1 DEF ScannedFrom
  <2> QED BY <1>1, <2>1, <2>2, Chunk DEF All
<1> HIDE DEF All
<1>3. block \in Nat /\ \A e \in Known : e.block \in Nat /\ e.id \in Requests /\ e.block <= block
  BY <1>1, BaseFacts
<1>4. \A f \in Nat : DueFrom <= f <=> block <= f + ArbitrationTimeout
  BY <1>3, Windows DEF DueFrom, Lower
<1>5. ASSUME NEW e \in Unsettled(All)
      PROVE  /\ e \in Known /\ e.kind = "DisputeTriggered" /\ e.id \in Frozens
             /\ e.block = RecordOf(e.id).frozen /\ e.data = ArbitrationDeadline(RecordOf(e.id))
  <2>1. /\ e \in Known /\ e.kind = "DisputeTriggered" /\ DueFrom <= e.block
        /\ \A f \in All : f.kind \in Outcomes => f.id # e.id
    BY <1>2, <1>5 DEF Unsettled, Settling
  <2>2. /\ e.id \in Requests /\ RecordOf(e.id).frozen = e.block
        /\ e.data = ArbitrationDeadline(RecordOf(e.id))
        /\ RecordOf(e.id).state = "FROZEN"
             \/ \E o \in Known : o.kind \in Outcomes /\ o.id = e.id /\ e.block <= o.block
    BY <2>1, DisputeOfRecord
  <2>3. ASSUME NEW o \in Known, o.kind \in Outcomes, o.id = e.id, e.block <= o.block PROVE FALSE
    <3>1. DueFrom <= o.block
      BY <1>1, <1>3, <2>1, <2>3
    <3>2. o \in All
      BY <1>2, <1>3, <2>3, <3>1 DEF ArbitrationEvents
    <3> QED BY <2>1, <2>3, <3>2
  <2>4. Base <= ArbitrationDeadline(RecordOf(e.id))
    BY <1>1, <1>3, <1>4, <2>1, <2>2 DEF ArbitrationDeadline
  <2> QED BY <2>1, <2>2, <2>3, <2>4 DEF Frozens
<1>6. ASSUME NEW q \in Frozens PROVE \E e \in Unsettled(All) : e.id = q
  <2>1. q \in Requests /\ RecordOf(q).state = "FROZEN" /\ block <= ArbitrationDeadline(RecordOf(q))
    BY <1>1 DEF Frozens
  <2>2. \A o \in Known : o.id = q => o.kind \notin Outcomes
    BY <2>1, DisputeLogged
  <2>3. PICK e \in Known : /\ e.kind = "DisputeTriggered" /\ e.id = q
                           /\ e.block = RecordOf(q).frozen /\ e.data = ArbitrationDeadline(RecordOf(q))
    BY <2>1, DisputeLogged
  <2>4. DueFrom <= e.block
    BY <1>3, <1>4, <2>1, <2>3 DEF ArbitrationDeadline
  <2>5. e \in All
    BY <1>2, <1>3, <2>1, <2>3, <2>4 DEF ArbitrationEvents
  <2> QED BY <1>2, <2>2, <2>3, <2>5 DEF Unsettled, Settling
<1> QED BY <1>5, <1>6

LEMMA ScanDisputesKeeps == ASSUME ChainInv, QueryInv, ScanDisputes PROVE QueryInv'
<1> DEFINE U == Unsettled(All)
           s == ByDeadline(U)
           n == Cardinality(U)
<1>1. /\ pc = "disputes" /\ pc' = "done" /\ UNCHANGED <<chainVars, query, block, pinnedFinal>>
      /\ result' = [i \in 1 .. n |-> Dispute(s[i])]
  BY DEF ScanDisputes, LastChunk
<1>2. /\ QueryShape' /\ query' = query /\ block' = block /\ past' = past
      /\ Base' = Base /\ (Sure' <=> Sure) /\ Known' = Known
  BY <1>1, SameBase
<1> SUFFICES ASSUME Sure PROVE query.kind = "pending" /\ PendingIsExact'
  BY <1>1, <1>2 DEF QueryInv, Pends
<1>3. query.kind = "pending" /\ Base = block
  BY <1>1, DisputesScan
<1>4. /\ \A e \in U : /\ e \in Known /\ e.kind = "DisputeTriggered" /\ e.id \in Frozens
                      /\ e.block = RecordOf(e.id).frozen /\ e.data = ArbitrationDeadline(RecordOf(e.id))
      /\ \A q \in Frozens : \E e \in U : e.id = q
  BY <1>1, UnsettledAreFrozen
<1> HIDE DEF U
<1>5. U \in SUBSET log /\ \A e \in U : e.data \in Nat
  BY <1>4, BaseFacts, DisputeOfRecord
<1>6. /\ s \in Seq(U) /\ Len(s) = n /\ n \in Nat
      /\ \A e \in U : \E k \in 1 .. n : s[k] = e
      /\ \A j, k \in 1 .. n : j < k => DueBefore(s[j], s[k])
  BY <1>5, DisputesInOrder, FS_CardinalityType
<1> HIDE DEF s, n
<1>7. \A k \in 1 .. n : s[k] \in U
  BY <1>6
<1>8. DOMAIN result' = 1 .. n /\ \A i \in 1 .. n : result'[i] = Dispute(s[i])
  BY <1>1
<1> DEFINE Pending(q) == [id |-> q, frozen |-> past[block][q].frozen,
                          deadline |-> ArbitrationDeadline(past[block][q])]
<1>9. \A e \in U : Dispute(e) = Pending(e.id)
  BY <1>3, <1>4 DEF Dispute, RecordOf
<1>10. {result'[i] : i \in DOMAIN result'} = {Pending(q) : q \in Frozens}
  <2>1. ASSUME NEW i \in 1 .. n PROVE \E q \in Frozens : result'[i] = Pending(q)
    BY <1>4, <1>7, <1>8, <1>9
  <2>2. ASSUME NEW q \in Frozens PROVE \E i \in 1 .. n : result'[i] = Pending(q)
    BY <1>4, <1>6, <1>8, <1>9
  <2> HIDE DEF Pending
  <2> QED BY <1>8, <2>1, <2>2
<1>11. ASSUME NEW i \in 1 .. n, NEW j \in 1 .. n, i < j
       PROVE  result'[i].id # result'[j].id /\ result'[i].deadline <= result'[j].deadline
  <2>1. s[i] \in U /\ s[j] \in U /\ DueBefore(s[i], s[j]) /\ s[i].data \in Nat /\ s[j].data \in Nat
    BY <1>5, <1>6, <1>7, <1>11
  <2>2. s[i].block \in Nat /\ s[i].at \in Nat
    BY <1>4, <2>1, BaseFacts
  <2>3. s[i].data <= s[j].data /\ s[i] # s[j]
    BY <2>1, <2>2 DEF DueBefore, Precedes
  <2>4. s[i].id # s[j].id
    BY <1>4, <2>1, <2>3, DisputeOfRecord
  <2> QED BY <1>8, <2>3, <2>4 DEF Dispute
<1>12. Frozens = {p \in Requests : /\ past[block][p].state = "FROZEN"
                                   /\ block <= ArbitrationDeadline(past[block][p])}
  BY <1>3 DEF Frozens, RecordOf
<1> QED BY <1>2, <1>3, <1>8, <1>10, <1>11, <1>12 DEF PendingIsExact

LEMMA ReadRecordKeeps == ASSUME ChainInv, QueryInv, ReadRecord PROVE QueryInv'
<1>1. /\ pc = "record" /\ block <= height
      /\ answer' = Shown(past[block][Current])
      /\ request' = [Unread EXCEPT !.id = Current, !.state = answer'.state]
      /\ pc' = IF answer'.state = "NONE" THEN "not found" ELSE "proposal"
      /\ UNCHANGED <<chainVars, query, block, pinnedFinal, found, result>>
  BY DEF ReadRecord, RecordAt, RecordBlock
<1>2. /\ QueryShape' /\ query' = query /\ block' = block /\ past' = past
      /\ Base' = Base /\ (Sure' <=> Sure)
  BY <1>1, SameBase
<1>3. Sure => query.kind # "pending"
  BY <1>1 DEF QueryInv, Pends
<1> SUFFICES ASSUME Sure PROVE Reads'
  BY <1>2, <1>3 DEF QueryInv
<1>4. /\ Wanted /\ ReadSoFar /\ Len(result) < Len(found) /\ Current \in Requests
      /\ query.kind = "request" => Base = block /\ Current = query.id
      /\ query.kind # "request" => query.kind = "rulings" /\ RecordOf(Current).settled # 0
  BY <1>1, <1>3, CurrentFacts
<1>5. past[block][Current] = RecordOf(Current)
  <2>1. CASE query.kind = "request"
    BY <1>4, <2>1 DEF RecordOf
  <2>2. CASE query.kind # "request"
    <3>1. block \in Nat /\ block <= height /\ Base <= block /\ Base \in Nat /\ height \in Nat
      BY <1>1, BaseFacts
    <3>2. block \in Base .. height
      BY <3>1
    <3> QED BY <1>4, <2>2, <3>2, SettledStays
  <2> QED BY <2>1, <2>2
<1>6. query.kind # "request" => RecordOf(Current).state # "NONE"
  <2> SUFFICES ASSUME RecordOf(Current).settled # 0 PROVE RecordOf(Current).state # "NONE"
    BY <1>4
  <2> QED BY <1>4, BaseFacts DEF Fits, Arbitrated
<1>7. answer' = Shown(RecordOf(Current)) /\ answer'.state = RecordOf(Current).state
  BY <1>1, <1>5 DEF Shown
<1>8. request' = Begun(Current, RecordOf(Current), 0)
  BY <1>1, <1>7 DEF Unread, Begun
<1>9. /\ Wanted' /\ ReadSoFar' /\ Len(result') < Len(found')
      /\ Current' = Current /\ RecordOf(Current)' = RecordOf(Current)
      /\ Shown(RecordOf(Current))' = Shown(RecordOf(Current))
  BY <1>1, <1>2, <1>4, SameReads
<1>10. CASE RecordOf(Current).state = "NONE"
  <2>1. pc' = "not found" /\ query'.kind = "request" /\ RecordOf(query.id)'.state = "NONE"
    BY <1>1, <1>2, <1>4, <1>6, <1>7, <1>9, <1>10 DEF RecordOf
  <2> QED BY <2>1 DEF Reads
<1>11. CASE RecordOf(Current).state # "NONE"
  <2>1. pc' = "proposal"
    BY <1>1, <1>7, <1>11
  <2>2. request' = Begun(Current, RecordOf(Current), 0)'
    BY <1>8, <1>9 DEF Begun
  <2> QED BY <1>7, <1>9, <1>11, <2>1, <2>2 DEF Reads
<1> QED BY <1>10, <1>11

LEMMA ReadProposalKeeps == ASSUME ChainInv, QueryInv, ReadProposal PROVE QueryInv'
<1> DEFINE proposed == answer.commitDeadline - CommitWindow
           r == RecordOf(Current)
           to == Lower(RevealDeadline(r), block)
<1>1. /\ pc = "proposal" /\ UNCHANGED <<chainVars, query, block, pinnedFinal, found, answer, result>>
      /\ pc' \in {"inconsistent", "votes"}
  BY DEF ReadProposal, StartScan
<1>2. /\ QueryShape' /\ query' = query /\ block' = block /\ past' = past
      /\ Base' = Base /\ (Sure' <=> Sure) /\ Known' = Known
  BY <1>1, SameBase
<1>3. Sure => query.kind # "pending"
  BY <1>1 DEF QueryInv, Pends
<1> SUFFICES ASSUME Sure PROVE Reads'
  BY <1>2, <1>3 DEF QueryInv
<1>4. /\ Wanted /\ ReadSoFar /\ Len(result) < Len(found) /\ Current \in Requests
      /\ answer = Shown(r) /\ r.state # "NONE" /\ request = Begun(Current, r, 0)
  BY <1>1, <1>3, CurrentFacts DEF Reads
<1>5. /\ r.proposed \in Nat \ {0} /\ r.proposed <= Base /\ RevealDeadline(r) \in Nat
      /\ r.proposed <= RevealDeadline(r)
      /\ CommitDeadline(r) \in Nat /\ CommitDeadline(r) - CommitWindow = r.proposed
      /\ Base \in Nat /\ Base <= block /\ block \in Nat
  BY <1>4, RecordFacts, BaseFacts
<1>6. answer.commitDeadline = CommitDeadline(r) /\ answer.revealDeadline = RevealDeadline(r)
  BY <1>4 DEF Shown
<1>7. proposed = r.proposed /\ ~(CommitWindow > answer.commitDeadline)
  BY <1>5, <1>6, Windows
<1>8. request.id = Current
  BY <1>4 DEF Begun
<1>9. Logs(proposed, proposed, {"TransactionProposed"}, {request.id}) # {}
  <2>1. PICK e \in History(Current, Base) : e.kind = "TransactionProposed" /\ e.block = r.proposed
    BY <1>4, BaseFacts DEF Fits, Posted
  <2>2. e \in Known /\ e.id = Current
    BY <1>4, BaseFacts
  <2>3. Logs(r.proposed, r.proposed, {"TransactionProposed"}, {Current}) =
          {f \in Known : /\ r.proposed <= f.block /\ f.block <= r.proposed
                         /\ f.kind \in {"TransactionProposed"} /\ f.id \in {Current}}
    BY <1>5, LogsKnown
  <2>4. r.proposed <= e.block /\ e.block <= r.proposed
    BY <1>5, <2>1
  <2>5. e \in Logs(r.proposed, r.proposed, {"TransactionProposed"}, {Current})
    BY <2>1, <2>2, <2>3, <2>4
  <2> QED BY <1>7, <1>8, <2>5
<1>10. /\ pc' = "votes" /\ logs' = {}
       /\ next' = [from |-> r.proposed, to |-> Lower(answer.revealDeadline, block)]
       /\ request' = [request EXCEPT !.proposed = r.proposed]
  BY <1>7, <1>9 DEF ReadProposal, StartScan
<1>11. request' = Begun(Current, r, r.proposed)
  BY <1>4, <1>10 DEF Begun
<1>12. r.proposed <= to /\ next' = [from |-> r.proposed, to |-> to]
  BY <1>5, <1>6, <1>10 DEF Lower
<1>13. /\ Wanted' /\ ReadSoFar' /\ Len(result') < Len(found')
       /\ Current' = Current /\ RecordOf(Current)' = RecordOf(Current)
       /\ Shown(RecordOf(Current))' = Shown(RecordOf(Current))
  BY <1>1, <1>4, SameReads
<1>14. \A e \in Known : e.block \in Nat
  BY BaseFacts
<1>15. logs' = {e \in Known' : /\ r.proposed <= e.block /\ e.block < next'.from
                               /\ e.kind \in VoteEvents /\ e.id \in {Current}}
  BY <1>2, <1>5, <1>10, <1>14
<1>16. ReadingVotes(Current, RecordOf(Current))'
  BY <1>2, <1>5, <1>11, <1>12, <1>13, <1>15 DEF ReadingVotes, ScannedFrom, Begun
<1>17. answer' = Shown(RecordOf(Current))' /\ RecordOf(Current)'.state # "NONE"
  BY <1>1, <1>4, <1>13
<1> QED BY <1>10, <1>13, <1>16, <1>17 DEF Reads

\* The logs of a request's votes give the votes of its record.
LEMMA VotesRead ==
  ASSUME NEW r \in RecordType, NEW E, Voted(r, E), NEW A, A = {e \in E : e.kind \in VoteEvents}
  PROVE  VotesFit(A) /\ Votes(A) = r.votes
<1>1. \A e \in A : e \in E /\ e.kind \in VoteEvents
  OBVIOUS
<1>2. \A e \in E : e.kind = "Committed" \/ e.kind = "Revealed" => e \in A
  BY DEF VoteEvents
<1>3. VotesFit(A)
  BY <1>1, <1>2 DEF VotesFit, Voted
<1>4. \A v \in r.votes : v \in VoteType
  BY DEF RecordType
<1>5. ASSUME NEW v \in r.votes PROVE VoteOf(v.who, A) = v.vote
  <2> DEFINE reveals == {e \in A : e.kind = "Revealed" /\ e.who = v.who}
  <2>1. CASE v.vote = "PENDING"
    <3>1. reveals = {}
      BY <1>1, <2>1 DEF Voted, IsReveal
    <3> QED BY <2>1, <3>1 DEF VoteOf
  <2>2. CASE v.vote # "PENDING"
    <3>1. PICK e \in E : e.kind = "Revealed" /\ e.who = v.who /\ e.data = v.vote
      BY <2>2 DEF Voted, IsReveal
    <3>2. e \in reveals
      BY <1>2, <3>1
    <3>3. \A f \in reveals : f = e
      BY <1>1, <3>1 DEF Voted
    <3>4. VoteOf(v.who, A) = (CHOOSE f \in reveals : TRUE).data
      BY <3>2 DEF VoteOf
    <3>5. (CHOOSE f \in reveals : TRUE) \in reveals
      BY <3>2
    <3> QED BY <3>1, <3>3, <3>4, <3>5
  <2> QED BY <2>1, <2>2
<1> DEFINE C == {f \in A : f.kind = "Committed"}
           VoteIn(e) == [who |-> e.who, vote |-> VoteOf(e.who, A), block |-> e.block, at |-> e.at]
<1>6. \A e \in C : e \in E /\ e.kind = "Committed"
  OBVIOUS
<1>7. ASSUME NEW e, NEW v \in r.votes, IsVote(v, e) PROVE VoteIn(e) = v
  BY <1>4, <1>5, <1>7 DEF IsVote, VoteType
<1>8. ASSUME NEW e \in C PROVE VoteIn(e) \in r.votes
  <2>1. PICK v \in r.votes : IsVote(v, e)
    BY <1>6 DEF Voted
  <2> QED BY <1>7, <2>1
<1>9. ASSUME NEW v \in r.votes PROVE \E e \in C : VoteIn(e) = v
  <2>1. PICK c \in E : IsVote(v, c)
    BY DEF Voted
  <2>2. c \in C
    BY <1>2, <2>1 DEF IsVote
  <2> QED BY <1>7, <2>1, <2>2
<1>10. Votes(A) = {VoteIn(e) : e \in C}
  BY DEF Votes
<1> HIDE DEF VoteIn, C
<1> QED BY <1>3, <1>8, <1>9, <1>10

LEMMA ScanVotesKeeps == ASSUME ChainInv, QueryInv, ScanVotes PROVE QueryInv'
<1> DEFINE frozen == answer.arbitrationDeadline - ArbitrationTimeout
           read == [request EXCEPT !.votes = InCommitOrder(Votes(All))]
           fits == VotesFit(All) /\ Check(Votes(All))
           arbitrated == answer.arbitrationDeadline # 0
           r == RecordOf(Current)
<1>1. /\ pc = "votes" /\ UNCHANGED <<chainVars, query, block, pinnedFinal, found, answer>>
      /\ pc' \in {"inconsistent", "done", "record", "arbitration"}
  BY DEF ScanVotes, LastChunk, NextRequest, StartScan
<1>2. /\ QueryShape' /\ query' = query /\ block' = block /\ past' = past
      /\ Base' = Base /\ (Sure' <=> Sure) /\ Known' = Known
  BY <1>1, SameBase
<1>3. Sure => query.kind # "pending"
  BY <1>1 DEF QueryInv, Pends
<1> SUFFICES ASSUME Sure PROVE Reads'
  BY <1>2, <1>3 DEF QueryInv
<1>4. /\ Wanted /\ ReadSoFar /\ Len(result) < Len(found) /\ Current \in Requests
      /\ answer = Shown(r) /\ r.state # "NONE" /\ request = Begun(Current, r, r.proposed)
  BY <1>1, <1>3, CurrentFacts DEF Reads, ReadingVotes
<1>5. /\ r.proposed \in Nat \ {0} /\ r.proposed <= Base /\ RevealDeadline(r) \in Nat
      /\ r.frozen \in Nat /\ r.frozen <= Base
      /\ r.proposed <= RevealDeadline(r)
      /\ ArbitrationDeadline(r) \in Nat /\ ArbitrationDeadline(r) - ArbitrationTimeout = r.frozen
      /\ Base \in Nat /\ Base <= block /\ block \in Nat
  BY <1>4, RecordFacts, BaseFacts
<1>6. /\ r \in RecordType /\ Fits(r, History(Current, Base))
      /\ \A e \in History(Current, Base) : e \in Known /\ e.id = Current
      /\ \A e \in Known : e.id = Current => e \in History(Current, Base)
      /\ \A e \in Known : e.block \in Nat /\ e.block <= Base
  BY <1>4, BaseFacts
<1>7. All = {e \in History(Current, Base) : e.kind \in VoteEvents}
  <2>1. /\ Kinds = VoteEvents /\ Ids = {Current}
        /\ ScannedFrom(r.proposed, Lower(RevealDeadline(r), block), Kinds, Ids)
        /\ Within(Lower(RevealDeadline(r), block), Ids)
    BY <1>1, VotesScan
  <2>2. next.to \in next.from .. next.to /\ next.to = Lower(RevealDeadline(r), block)
    BY <2>1 DEF ScannedFrom, Within
  <2>3. All = {e \in Known : /\ r.proposed <= e.block /\ e.block <= Lower(RevealDeadline(r), block)
                             /\ e.kind \in VoteEvents /\ e.id \in {Current}}
    BY <1>5, <2>1, <2>2, Chunk DEF All
  <2>4. \A e \in History(Current, Base) : e.kind \in VoteEvents =>
          r.proposed <= e.block /\ e.block <= RevealDeadline(r)
    BY <1>6 DEF Fits, Voted
  <2>5. \A e \in History(Current, Base) : e.kind \in VoteEvents =>
          e.block <= Lower(RevealDeadline(r), block)
    BY <1>5, <1>6, <2>4 DEF Lower
  <2> HIDE DEF All, r
  <2> QED BY <1>6, <2>3, <2>4, <2>5
<1>8. VotesFit(All) /\ Votes(All) = r.votes
  BY <1>6, <1>7, VotesRead DEF Fits
<1>9. Check(Votes(All)) /\ answer.state = r.state
      /\ answer.arbitrationDeadline = IF r.frozen = 0 THEN 0 ELSE ArbitrationDeadline(r)
  BY <1>4, <1>8 DEF Check, Shown
<1>10. (arbitrated <=> r.frozen # 0) /\ (r.frozen # 0 => frozen = r.frozen)
  BY <1>5, <1>9, Windows DEF ArbitrationDeadline
<1>11. read = [Begun(Current, r, r.proposed) EXCEPT !.votes = InCommitOrder(r.votes)]
  BY <1>4, <1>8
<1>12. CASE r.frozen = 0
  <2>1. request' = read /\ result' = Append(result, read) /\ NextRequest
    BY <1>8, <1>9, <1>10, <1>12 DEF ScanVotes
  <2>2. r.outcome = "PENDING" /\ r.settled = 0
    BY <1>6, <1>12 DEF Fits, Arbitrated
  <2>3. read = Truth(Current, Base)
    BY <1>11, <1>12, <2>2 DEF Begun, Truth, NoArbitration, RecordOf
  <2>4. pc' = IF Len(result') = Len(found') THEN "done" ELSE "record"
    BY <2>1 DEF NextRequest
  <2>5. result' = Append(result, Truth(Current, Base))
    BY <2>1, <2>3
  <2> QED BY <1>1, <1>3, <2>4, <2>5, OneMoreRead
<1>13. CASE r.frozen # 0
  <2> DEFINE to == IF r.state = "FROZEN" THEN r.frozen ELSE block
  <2>1. frozen >= 0 /\ frozen = r.frozen /\ arbitrated /\ fits
    BY <1>5, <1>8, <1>9, <1>10, <1>13
  <2>2. /\ request' = [read EXCEPT !.arbitration.frozen = r.frozen]
        /\ StartScan("arbitration", r.frozen, ArbitrationTo(r.frozen)) /\ result' = result
    <3>1. /\ request' = [read EXCEPT !.arbitration.frozen = frozen]
          /\ StartScan("arbitration", frozen, ArbitrationTo(frozen)) /\ result' = result
      <4>1. frozen \in Nat /\ ~(frozen < 0) /\ ~(~fits \/ (arbitrated /\ frozen < 0)) /\ ~(fits /\ ~arbitrated)
        BY <1>5, <2>1
      <4>2. \/ ~fits \/ (arbitrated /\ frozen < 0)
            \/ fits /\ ~arbitrated
            \/ /\ request' = [read EXCEPT !.arbitration.frozen = frozen]
               /\ StartScan("arbitration", frozen, ArbitrationTo(frozen)) /\ result' = result
        BY DEF ScanVotes
      <4> HIDE DEF read, fits, frozen, arbitrated
      <4> QED BY <4>1, <4>2
    <3> HIDE DEF read, frozen
    <3> QED BY <2>1, <3>1
  <2>3. /\ pc' = "arbitration" /\ logs' = {} /\ next' = [from |-> r.frozen, to |-> to]
        /\ request' = WithVotes(Current, r) /\ r.frozen <= to
    <3>1. request' = [[Begun(Current, r, r.proposed) EXCEPT !.votes = InCommitOrder(r.votes)]
                        EXCEPT !.arbitration.frozen = r.frozen]
      BY <1>11, <2>2
    <3>2. request' = WithVotes(Current, r)
      BY <3>1 DEF WithVotes, Begun, NoArbitration
    <3>3. pc' = "arbitration" /\ logs' = {} /\ next' = [from |-> r.frozen, to |-> to]
      BY <1>9, <2>2 DEF StartScan, ArbitrationTo
    <3>4. r.frozen <= to
      BY <1>5
    <3> QED BY <3>2, <3>3, <3>4
  <2>4. /\ Wanted' /\ ReadSoFar' /\ Len(result') < Len(found')
        /\ Current' = Current /\ RecordOf(Current)' = RecordOf(Current)
        /\ Shown(RecordOf(Current))' = Shown(RecordOf(Current))
    BY <1>1, <1>4, <2>2, SameReads
  <2>5. /\ next' = [from |-> next'.from, to |-> to] /\ next'.from = r.frozen
        /\ logs' = {e \in Known' : /\ r.frozen <= e.block /\ e.block < next'.from
                                   /\ e.kind \in ArbitrationEvents /\ e.id \in {Current}}
    BY <1>2, <1>5, <1>6, <2>3
  <2>6. Settling(logs') = {}
    BY <2>3 DEF Settling
  <2>7. ReadingArbitration(Current, RecordOf(Current))'
    BY <1>2, <1>5, <1>13, <2>3, <2>4, <2>5, <2>6 DEF ReadingArbitration, ScannedFrom, WithVotes, Settling
  <2>8. answer' = Shown(RecordOf(Current))' /\ RecordOf(Current)'.state # "NONE"
    BY <1>1, <1>4, <2>4
  <2> QED BY <2>3, <2>4, <2>7, <2>8 DEF Reads
<1> QED BY <1>12, <1>13

\* An arbitration that isn't settled has its dispute alone, and one that is has the log
\* that settles it too.
LEMMA ArbitrationLogs ==
  ASSUME NEW r \in RecordType, NEW E, Arbitrated(r, E), r.frozen # 0, NEW A,
         A \in SUBSET E, \E d \in A : d.kind = "DisputeTriggered",
         r.state # "FROZEN" => \E o \in A : o.kind \in Outcomes
  PROVE  LET all == UpToSettling(A)
             e == Earliest(Settling(all))
         IN  /\ \E d \in all : d.kind = "DisputeTriggered"
             /\ \A d \in all : d.kind = "DisputeTriggered" => d.data = ArbitrationDeadline(r)
             /\ r.state = "FROZEN" => Settling(all) = {} /\ r.outcome = "PENDING" /\ r.settled = 0
             /\ r.state # "FROZEN" =>
                  Settling(all) # {} /\ OutcomeOf(e) = r.outcome /\ e.block = r.settled
             /\ OutcomeState(r.outcome) = r.state
<1>1. /\ OutcomeState(r.outcome) = r.state /\ r.outcome \in OutcomeNames
      /\ \A d \in E : d.kind = "DisputeTriggered" => d.data = ArbitrationDeadline(r)
  BY DEF Arbitrated, Frozen, RecordType
<1>2. PICK d \in A : d.kind = "DisputeTriggered"
  OBVIOUS
<1>3. UpToSettling(A) \in SUBSET A
  BY DEF UpToSettling
<1>4. CASE r.state = "FROZEN"
  <2>1. r.outcome = "PENDING"
    BY <1>1, <1>4 DEF OutcomeState, OutcomeNames
  <2>2. r.settled = 0 /\ \A e \in A : e.kind \notin Outcomes
    BY <2>1 DEF Arbitrated
  <2>3. Settling(A) = {} /\ UpToSettling(A) = A
    BY <2>2 DEF Settling, UpToSettling
  <2> QED BY <1>1, <1>2, <1>4, <2>1, <2>2, <2>3
<1>5. CASE r.state # "FROZEN"
  <2>1. PICK o \in A : o.kind \in Outcomes
    BY <1>5
  <2>2. r.settled # 0
    BY <2>1 DEF Arbitrated
  <2>3. Settled(r, o) /\ Precedes(d, o) /\ \A f \in A : f.kind \in Outcomes => f = o
    BY <1>2, <2>1, <2>2 DEF Arbitrated
  <2>4. Settling(A) = {o}
    BY <2>1, <2>3 DEF Settling
  <2>5. Earliest({o}) = o
    BY DEF Earliest
  <2>6. UpToSettling(A) = {e \in A : e = o \/ Precedes(e, o)}
    BY <2>4, <2>5 DEF UpToSettling
  <2>7. d \in UpToSettling(A) /\ o \in UpToSettling(A)
    BY <2>3, <2>6
  <2>8. Settling(UpToSettling(A)) = {o}
    BY <1>3, <2>1, <2>3, <2>7 DEF Settling
  <2>9. OutcomeOf(o) = r.outcome /\ o.block = r.settled
    BY <2>3 DEF Settled
  <2> QED BY <1>1, <1>2, <1>3, <1>5, <2>5, <2>7, <2>8, <2>9
<1> QED BY <1>4, <1>5

LEMMA ScanArbitrationKeeps == ASSUME ChainInv, QueryInv, ScanArbitration PROVE QueryInv'
<1> DEFINE r == RecordOf(Current)
           E == History(Current, Base)
           to == IF r.state = "FROZEN" THEN r.frozen ELSE block
<1>1. PICK t \in next.from .. next.to :
        LET all == UpToSettling(Scanned(t))
            read == [request EXCEPT !.arbitration = Arbitration(all)]
            disputes == {e \in all : e.kind = "DisputeTriggered"}
            fits == /\ disputes # {}
                    /\ \A e \in disputes : e.data = answer.arbitrationDeadline
                    /\ OutcomeState(read.arbitration.outcome) = answer.state
        IN  /\ LastChunk("arbitration") /\ Stops(t)
            /\ UNCHANGED <<query, block, pinnedFinal, next, found, answer>>
            /\ \/ ~fits /\ pc' = "inconsistent"
               \/ fits /\ result' = Append(result, read) /\ NextRequest
  BY DEF ScanArbitration
<1> DEFINE all == UpToSettling(Scanned(t))
           read == [request EXCEPT !.arbitration = Arbitration(all)]
           disputes == {e \in all : e.kind = "DisputeTriggered"}
           fits == /\ disputes # {}
                   /\ \A e \in disputes : e.data = answer.arbitrationDeadline
                   /\ OutcomeState(read.arbitration.outcome) = answer.state
<1>2. /\ pc = "arbitration" /\ Stops(t) /\ UNCHANGED <<chainVars, query, block, pinnedFinal, found>>
      /\ \/ ~fits /\ pc' = "inconsistent"
         \/ /\ fits /\ result' = Append(result, read)
            /\ pc' = IF Len(result') = Len(found') THEN "done" ELSE "record"
  BY <1>1 DEF LastChunk, NextRequest
<1> HIDE DEF fits, read
<1>3. pc' \notin {"idle", "refused"}
  BY <1>2
<1>4. QueryShape' /\ query' = query /\ (Sure' <=> Sure)
  BY <1>2, <1>3, SameBase
<1>5. Sure => query.kind # "pending"
  BY <1>2 DEF QueryInv, Pends
<1> SUFFICES ASSUME Sure PROVE Reads'
  BY <1>4, <1>5 DEF QueryInv
<1>6. /\ Current \in Requests /\ answer = Shown(r) /\ r.state # "NONE" /\ request = WithVotes(Current, r)
      /\ r.frozen \in Nat \ {0} /\ Kinds = ArbitrationEvents /\ Ids = {Current}
      /\ ScannedFrom(r.frozen, to, Kinds, Ids) /\ Within(to, Ids)
  BY <1>2, <1>5, CurrentFacts, ArbitrationScan DEF Reads, ReadingArbitration
<1>7. /\ r \in RecordType /\ Fits(r, E)
      /\ \A e \in E : e \in Known /\ e.id = Current
      /\ \A e \in Known : e.id = Current => e \in E
      /\ \A e \in Known : e.block \in Nat /\ e.block <= Base
      /\ Base \in Nat /\ Base <= block /\ block \in Nat
  BY <1>6, BaseFacts
<1> HIDE DEF r, E
<1>8. /\ t \in Nat /\ r.frozen <= t
      /\ Scanned(t) = {e \in Known : /\ r.frozen <= e.block /\ e.block <= t
                                     /\ e.kind \in ArbitrationEvents /\ e.id \in {Current}}
  BY <1>6, Chunk
<1>9. Scanned(t) \in SUBSET E
  BY <1>7, <1>8
<1>10. \E d \in Scanned(t) : d.kind = "DisputeTriggered"
  <2>1. PICK d \in E : Frozen(r, d)
    BY <1>6, <1>7 DEF Fits, Arbitrated
  <2>2. d \in Known /\ d.id = Current /\ d.kind = "DisputeTriggered" /\ d.block = r.frozen
    BY <1>7, <2>1 DEF Frozen
  <2>3. r.frozen <= d.block /\ d.block <= t
    BY <1>6, <1>8, <2>2
  <2>4. d \in Scanned(t)
    BY <1>8, <2>2, <2>3 DEF ArbitrationEvents
  <2> QED BY <2>2, <2>4
<1>11. ASSUME r.state # "FROZEN" PROVE \E o \in Scanned(t) : o.kind \in Outcomes
  <2>1. r.outcome # "PENDING"
    BY <1>6, <1>7, <1>11 DEF Fits, Arbitrated, OutcomeState
  <2>2. r.settled # 0 /\ r.settled \in Nat /\ r.frozen <= r.settled
    BY <1>7, <2>1 DEF Fits, Arbitrated, RecordType
  <2>3. PICK o \in E : o.kind \in Outcomes /\ o.block = r.settled
    BY <1>7, <2>2 DEF Fits, Arbitrated, Settled
  <2>4. CASE t = next.to
    <3>1. t = block
      BY <1>6, <1>11, <2>4 DEF ScannedFrom
    <3>2. r.frozen <= o.block /\ o.block <= t
      BY <1>7, <2>2, <2>3, <3>1
    <3>3. o \in Scanned(t)
      BY <1>7, <1>8, <2>3, <3>2 DEF ArbitrationEvents
    <3> QED BY <2>3, <3>3
  <2>5. CASE Settling(Scanned(t)) # {}
    BY <2>5 DEF Settling
  <2> QED BY <1>2, <2>4, <2>5 DEF Stops
<1>12. /\ \E d \in all : d.kind = "DisputeTriggered"
       /\ \A d \in all : d.kind = "DisputeTriggered" => d.data = ArbitrationDeadline(r)
       /\ r.state = "FROZEN" => Settling(all) = {} /\ r.outcome = "PENDING" /\ r.settled = 0
       /\ r.state # "FROZEN" =>
            /\ Settling(all) # {}
            /\ OutcomeOf(Earliest(Settling(all))) = r.outcome
            /\ Earliest(Settling(all)).block = r.settled
       /\ OutcomeState(r.outcome) = r.state
  BY <1>6, <1>7, <1>9, <1>10, <1>11, ArbitrationLogs DEF Fits
<1> HIDE DEF all
<1>13. request.arbitration.frozen = r.frozen
  BY <1>6 DEF WithVotes
<1>14. Arbitration(all) = [frozen |-> r.frozen, outcome |-> r.outcome, settled |-> r.settled]
  BY <1>12, <1>13 DEF Arbitration, NoArbitration
<1>15. /\ read = [WithVotes(Current, r) EXCEPT !.arbitration =
                    [frozen |-> r.frozen, outcome |-> r.outcome, settled |-> r.settled]]
  BY <1>6, <1>14 DEF read
<1>16. read = Truth(Current, Base) /\ read.arbitration.outcome = r.outcome
  BY <1>15 DEF WithVotes, Truth, RecordOf, r
<1>17. answer.arbitrationDeadline = ArbitrationDeadline(r) /\ answer.state = r.state
  BY <1>6 DEF Shown
<1>18. fits
  BY <1>12, <1>16, <1>17 DEF fits
<1>19. /\ result' = Append(result, Truth(Current, Base))
       /\ pc' = IF Len(result') = Len(found') THEN "done" ELSE "record"
  BY <1>2, <1>16, <1>18
<1> QED BY <1>2, <1>3, <1>5, <1>19, OneMoreRead
-----------------------------------------------------------------------------
(* What queries return *)

LEMMA Inductive == Spec => [](ChainInv /\ QueryInv)
<1>1. Init => ChainInv /\ QueryInv
  BY ChainInitially, QueryInitially DEF Init
<1>2. ChainInv /\ QueryInv /\ [Next]_vars => (ChainInv /\ QueryInv)'
  <2> SUFFICES ASSUME ChainInv, QueryInv, [Next]_vars PROVE ChainInv' /\ QueryInv'
    OBVIOUS
  <2>1. CASE Chain
    BY <2>1, ChainKeeps, ChainPasses DEF Chain
  <2>2. ASSUME UNCHANGED chainVars PROVE ChainInv'
    BY <2>2 DEF chainVars, ChainInv, ChainType, Placed, Fits, Posted, Voted, Arbitrated, History,
                Settlement, Building
  <2>3. CASE QueryNext
    <3>1. UNCHANGED chainVars
      BY <2>3 DEF QueryNext, Connect, ScanChunk, ScanRulings, ScanDisputes, LastChunk,
                  ReadRecord, ReadProposal, ScanVotes, ScanArbitration, CallFails
    <3>2. QueryInv'
      BY <2>3, ConnectKeeps, ScanChunkKeeps, ScanRulingsKeeps, ScanDisputesKeeps, ReadRecordKeeps,
         ReadProposalKeeps, ScanVotesKeeps, ScanArbitrationKeeps, CallFailsKeeps DEF QueryNext
    <3> QED BY <2>2, <3>1, <3>2
  <2>4. CASE UNCHANGED vars
    <3>1. UNCHANGED <<height, finalized, log, index, record, past, reorgs, pc,
                      query, block, pinnedFinal, next, logs, found, answer, request, result>>
      BY <2>4 DEF vars, chainVars, queryVars
    <3>2. QueryShape' = QueryShape /\ Sure' = Sure
      BY <3>1 DEF QueryShape, Sure, Final, Base
    <3>3. Pends' = Pends
      BY <3>1 DEF Pends, ScannedFrom, DueFrom, Known, Base, PendingIsExact, Done, Final
    <3>4. Wanted' = Wanted /\ ReadSoFar' = ReadSoFar
      BY <3>1 DEF Wanted, ReadSoFar, Truths, Truth, RuledIn, RecordOf, Base
    <3>5. ReadingVotes(Current, RecordOf(Current))' = ReadingVotes(Current, RecordOf(Current))
      BY <3>1 DEF ReadingVotes, ScannedFrom, Known, RecordOf, Current, Base, Begun
    <3>6. ReadingArbitration(Current, RecordOf(Current))' = ReadingArbitration(Current, RecordOf(Current))
      BY <3>1 DEF ReadingArbitration, ScannedFrom, Known, RecordOf, Current, Base, WithVotes, Settling
    <3>7. Reads' = Reads
      BY <3>1, <3>4, <3>5, <3>6 DEF Reads, ScannedFrom, Known, RecordOf, Current, Base, Begun
    <3> QED BY <2>2, <3>1, <3>2, <3>3, <3>7 DEF QueryInv, chainVars
  <2> QED BY <2>1, <2>3, <2>4 DEF Next
<1> QED BY <1>1, <1>2, PTL DEF Spec

\* A request that is read call by call, while the chain goes on, is the request as of
\* the session's block, if that block isn't reorganized.
THEOREM RequestIsAsOfBlock == Spec => []RequestAsOfBlock
<1>1. ChainInv /\ QueryInv => RequestAsOfBlock
  <2> SUFFICES ASSUME ChainInv, QueryInv, Done("request"), Final(block)
               PROVE  result = <<Truth(query.id, block)>>
    BY DEF RequestAsOfBlock
  <2>1. query.kind = "request" /\ pc = "done" /\ Base = block /\ Sure
    BY DEF Done, Base, Sure
  <2>2. Wanted /\ ReadSoFar /\ Len(result) = Len(found)
    BY <2>1 DEF QueryInv, Reads
  <2>3. found = <<query.id>>
    BY <2>1, <2>2 DEF Wanted
  <2>4. Len(result) = 1 /\ result[1] = Truth(query.id, block)
    BY <2>1, <2>2, <2>3 DEF ReadSoFar
  <2> HIDE DEF Truths
  <2> QED BY <2>2, <2>4 DEF ReadSoFar
<1> QED BY <1>1, Inductive, PTL

\* None of the checks of the logs against the record fails while the session's block
\* stays, and a request that exists is found.
THEOREM ReadsNeverContradict == Spec => []NeverInconsistent
<1>1. ChainInv /\ QueryInv => NeverInconsistent
  BY DEF NeverInconsistent, QueryInv, QueryShape, Sure, Base, Reads, RecordOf
<1> QED BY <1>1, Inductive, PTL

\* The disputes that Pending returns are those that are frozen and not overdue as of
\* the session's block, each once, and by deadline.
THEOREM PendingReturnsDisputes == Spec => []PendingIsExact
<1>1. ChainInv /\ QueryInv => PendingIsExact
  <2> SUFFICES ASSUME QueryInv, Done("pending"), Final(block) PROVE PendingIsExact
    BY DEF PendingIsExact
  <2>1. query.kind = "pending" /\ pc = "done" /\ Sure
    BY DEF Done, Base, Sure
  <2> QED BY <2>1 DEF QueryInv, Pends
<1> QED BY <1>1, Inductive, PTL

\* The rulings of blocks that stay are read completely, in order, and once, and are what
\* they were as of the range's last block, although they are read as of the latest one,
\* which may not stay.
THEOREM RulingsAreFinal == Spec => []RulingsOfFinalBlocks
<1>1. ChainInv /\ QueryInv => RulingsOfFinalBlocks
  <2> SUFFICES ASSUME ChainInv, QueryInv, query.kind = "rulings", Final(query.to)
               PROVE  /\ pc \notin {"inconsistent", "not found"}
                      /\ pc = "done" =>
                           /\ {result[i].id : i \in DOMAIN result} = RuledIn(query.from, query.to)
                           /\ \A i \in DOMAIN result : result[i] = Truth(result[i].id, query.to)
                           /\ \A i, j \in DOMAIN result :
                                i < j => /\ result[i].id # result[j].id
                                         /\ result[i].arbitration.settled <= result[j].arbitration.settled
    BY DEF RulingsOfFinalBlocks
  <2>1. Base = query.to
    BY DEF Base
  <2>2. pc \notin {"inconsistent", "not found"}
    BY <2>1 DEF QueryInv, Sure, Reads
  <2>3. ASSUME pc = "done"
        PROVE  /\ {result[i].id : i \in DOMAIN result} = RuledIn(query.from, query.to)
               /\ \A i \in DOMAIN result : result[i] = Truth(result[i].id, query.to)
               /\ \A i, j \in DOMAIN result :
                    i < j => /\ result[i].id # result[j].id
                             /\ result[i].arbitration.settled <= result[j].arbitration.settled
    <3>1. Wanted /\ ReadSoFar /\ Len(result) = Len(found)
      BY <2>1, <2>3 DEF QueryInv, Sure, Reads
    <3>2. DOMAIN result = DOMAIN found
      <4> HIDE DEF Truths
      <4> QED BY <3>1 DEF Wanted, ReadSoFar
    <3>3. \A i \in DOMAIN result : result[i] = Truth(found[i], query.to)
      BY <2>1, <3>1 DEF ReadSoFar
    <3>4. \A i \in DOMAIN result :
            result[i].id = found[i] /\ result[i].arbitration.settled = RecordOf(found[i]).settled
      BY <2>1, <3>3 DEF Truth, RecordOf
    <3>5. /\ {found[i] : i \in DOMAIN found} = RuledIn(query.from, query.to)
          /\ \A i, j \in DOMAIN found :
               i < j => /\ found[i] # found[j]
                        /\ RecordOf(found[i]).settled <= RecordOf(found[j]).settled
      BY <3>1 DEF Wanted
    <3>6. {result[i].id : i \in DOMAIN result} = {found[i] : i \in DOMAIN found}
      BY <3>2, <3>4
    <3> QED BY <3>2, <3>3, <3>4, <3>5, <3>6
  <2> QED BY <2>2, <2>3
<1> QED BY <1>1, Inductive, PTL
=============================================================================
