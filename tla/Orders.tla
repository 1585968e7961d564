------------------------------- MODULE Orders -------------------------------
(* Finite sets in the order of a relation, such as the logs of a chain, and   *)
(* the part of a sequence at some of its positions.                           *)
EXTENDS Integers, FiniteSets

\* A relation, as a set of pairs, that orders the elements of S strictly.
Orders(R, S) ==
  /\ \A x \in S : <<x, x>> \notin R
  /\ \A x, y, z \in S : <<x, y>> \in R /\ <<y, z>> \in R => <<x, z>> \in R
  /\ \A x, y \in S : x = y \/ <<x, y>> \in R \/ <<y, x>> \in R

Before(x, R, S) == {y \in S : <<y, x>> \in R}

\* The elements of S, as a sequence.
InOrder(R, S) ==
  [k \in 1 .. Cardinality(S) |-> CHOOSE x \in S : Cardinality(Before(x, R, S)) = k - 1]

\* What a sequence has at the positions of S.
Part(s, S) ==
  LET positions == InOrder({ij \in S \X S : ij[1] < ij[2]}, S)
  IN  [k \in 1 .. Cardinality(S) |-> s[positions[k]]]
=============================================================================
