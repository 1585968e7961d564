----------------------------- MODULE MCSafenet -----------------------------
(***************************************************************************)
(* Safenet for TLC. Two sentinels make every kind of vote: split, agreed,  *)
(* partly revealed, and empty.                                             *)
(***************************************************************************)
EXTENDS Safenet, TLC

CONSTANTS r1, s1, s2

AnyBallots == [s \in Sentinels |-> {"APPROVED", "DENIED"}]

\* Votes that lead to a dispute, if both are revealed.
SplitBallots == [s \in Sentinels |-> IF s = s1 THEN {"APPROVED"} ELSE {"DENIED"}]

SentinelSymmetry == Permutations(Sentinels)

\* Bound: proposals and commits in a block come in one order, by request and then
\* by sentinel. Reveals, disputes, and rulings come in any order.
Rank(e) ==
  (IF e.id = r1 THEN 0 ELSE 3)
  + (IF e.kind = "TransactionProposed" THEN 0 ELSE IF e.who = s1 THEN 1 ELSE 2)

CommitsInOrder ==
  \A e, f \in log :
    (/\ e.block = f.block /\ f.at = e.at + 1
     /\ {e.kind, f.kind} \subseteq {"TransactionProposed", "Committed"})
      => Rank(e) < Rank(f)

\* Bound: of two requests, rulings are only read of the last blocks up to the
\* fifth, and nothing happens once the query has started. There are none before
\* the fourth, and the run with reorganizations has what may happen.
StillForRulings ==
  query.kind = "rulings" =>
    /\ block = 5 /\ query.to = 5 /\ query.from >= 3
    /\ height = 5 /\ \A e \in log : e.block <= 5
=============================================================================
